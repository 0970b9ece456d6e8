--------------------------- MODULE DotFiles_proofs ---------------------------
(***************************************************************************)
(* What is read of a file is what was written, the destinations of edges   *)
(* that share a Program aside, for any graphs, whatever the number of      *)
(* files that one exporter writes and of roots replaced in between.        *)
(***************************************************************************)
EXTENDS DotFiles, InstrumentedTPG_proofs

-----------------------------------------------------------------------------
(* Files.  What the exporter writes: lines about the values S, and numbers that maps give. *)

MapsOf(A, B) == UNION {[D -> B] : D \in SUBSET A}

LineSet(S) ==
    [shape : {"T"}, team : Nat] \cup [shape : {"A"}, action : Nat, label : S]
        \cup [shape : {"P"}, prog : Nat, constants : S] \cup [shape : {"I"}, prog : Nat, instructions : S]
        \cup [shape : {"P->I"}, prog : Nat] \cup [shape : {"T->P"}, team : Nat, prog : Nat]
        \cup [shape : {"T->P->A"}, team : Nat, prog : Nat, action : Nat]
        \cup [shape : {"T->P->T"}, team : Nat, prog : Nat, dest : Nat] \cup [shape : {"end"}]

Exporters(M, S) ==
    [vertexID : M, programID : MapsOf(S, Nat), nbPrograms : Nat, nbActions : Nat, lines : Seq(LineSet(S))]

TeamLine(id, v) == [shape |-> "T", team |-> id[v]]
ActionLine(n, k) == [shape |-> "A", action |-> n, label |-> k]
ConstantsLine(n, p) == [shape |-> "P", prog |-> n, constants |-> p]
InstructionsLine(n, p) == [shape |-> "I", prog |-> n, instructions |-> p]
ProgramLine(n) == [shape |-> "P->I", prog |-> n]
SharedLine(t, n) == [shape |-> "T->P", team |-> t, prog |-> n]
ToActionLine(t, n, a) == [shape |-> "T->P->A", team |-> t, prog |-> n, action |-> a]
ToTeamLine(t, n, d) == [shape |-> "T->P->T", team |-> t, prog |-> n, dest |-> d]

IsMap(m) == m = [k \in DOMAIN m |-> m[k]]

LEMMA MapFacts ==
    ASSUME NEW A, NEW B, NEW m \in MapsOf(A, B)
    PROVE  DOMAIN m \subseteq A /\ m \in [DOMAIN m -> B] /\ IsMap(m)
BY DEF MapsOf, IsMap

LEMMA NumbersAre ==
    ASSUME NEW A, NEW m \in MapsOf(A, Nat)
    PROVE  DOMAIN m \subseteq A /\ m \in [DOMAIN m -> Nat] /\ IsMap(m)
BY DEF MapsOf, IsMap

(* What is inserted is there unless the key was; what was there stays. *)
InsertedIn(m, k, x, new) ==
    /\ DOMAIN new = DOMAIN m \cup {k} /\ IsMap(new) /\ \A y \in DOMAIN m : new[y] = m[y]
    /\ k \notin DOMAIN m => new[k] = x
    /\ k \in DOMAIN m /\ IsMap(m) => new = m

LEMMA Inserted ==
    ASSUME NEW m, NEW k, NEW x
    PROVE  InsertedIn(m, k, x, Insert(m, k, x))
<1>1. k \in DOMAIN m /\ IsMap(m) => Insert(m, k, x) = m
  <2> SUFFICES ASSUME k \in DOMAIN m, IsMap(m) PROVE Insert(m, k, x) = m
    OBVIOUS
  <2>1. DOMAIN m \cup {k} = DOMAIN m
    OBVIOUS
  <2> QED BY <2>1 DEF Insert, IsMap
<1> QED BY <1>1 DEF Insert, IsMap, InsertedIn

LEMMA InsertedTyped ==
    ASSUME NEW A, NEW B, NEW m \in MapsOf(A, B), NEW k \in A, NEW x \in B
    PROVE  Insert(m, k, x) \in MapsOf(A, B)
<1>1. DOMAIN m \subseteq A /\ m \in [DOMAIN m -> B]
  BY MapFacts
<1>2. DOMAIN m \cup {k} \in SUBSET A
  BY <1>1
<1>3. Insert(m, k, x) \in [DOMAIN m \cup {k} -> B]
  BY <1>1 DEF Insert
<1> QED BY <1>2, <1>3 DEF MapsOf

LEMMA NumberInserted ==
    ASSUME NEW A, NEW m \in MapsOf(A, Nat), NEW k \in A, NEW x \in Nat
    PROVE  Insert(m, k, x) \in MapsOf(A, Nat)
BY InsertedTyped, Zenon

(* One line more *)
LEMMA OneLine ==
    ASSUME NEW T, NEW s \in Seq(T), NEW x \in T
    PROVE  /\ s \o <<x>> \in Seq(T) /\ Len(s \o <<x>>) = Len(s) + 1
           /\ \A i \in 1 .. Len(s) : (s \o <<x>>)[i] = s[i]
           /\ (s \o <<x>>)[Len(s) + 1] = x
<1>1. <<x>> \in Seq(T) /\ Len(<<x>>) = 1 /\ <<x>>[1] = x
  OBVIOUS
<1> QED BY <1>1, ConcatProperties, LenProperties

LEMMA ThreeLines ==
    ASSUME NEW T, NEW s \in Seq(T), NEW x \in T, NEW y \in T, NEW z \in T
    PROVE  /\ s \o <<x, y, z>> \in Seq(T) /\ Len(s \o <<x, y, z>>) = Len(s) + 3
           /\ \A i \in 1 .. Len(s) : (s \o <<x, y, z>>)[i] = s[i]
           /\ (s \o <<x, y, z>>)[Len(s) + 1] = x /\ (s \o <<x, y, z>>)[Len(s) + 2] = y
           /\ (s \o <<x, y, z>>)[Len(s) + 3] = z
<1>1. <<x, y, z>> \in Seq(T) /\ Len(<<x, y, z>>) = 3
      /\ <<x, y, z>>[1] = x /\ <<x, y, z>>[2] = y /\ <<x, y, z>>[3] = z
  OBVIOUS
<1> QED BY <1>1, ConcatProperties, LenProperties

Extends(s, t) == Len(s) <= Len(t) /\ \A i \in 1 .. Len(s) : t[i] = s[i]

(* PrintTPGTeam *)
LEMMA TeamPrinted ==
    ASSUME NEW U, IsFiniteSet(U), NEW S, NEW x \in Exporters(MapsOf(U, Nat), S), NEW v \in U,
           NEW y, y = PrintTPGTeam(x, v)
    PROVE  /\ y \in Exporters(MapsOf(U, Nat), S)
           /\ y.vertexID = Insert(x.vertexID, v, Cardinality(DOMAIN x.vertexID))
           /\ y.lines = x.lines \o <<TeamLine(y.vertexID, v)>>
           /\ y.programID = x.programID /\ y.nbPrograms = x.nbPrograms /\ y.nbActions = x.nbActions
<1> DEFINE m == x.vertexID
           id == Insert(m, v, Cardinality(DOMAIN m))
<1>1. m \in MapsOf(U, Nat) /\ Cardinality(DOMAIN m) \in Nat
  BY NumbersAre, FS_Subset, FS_CardinalityType DEF Exporters
<1>2. id \in MapsOf(U, Nat) /\ v \in DOMAIN id
  <2> DEFINE n == Cardinality(DOMAIN m)
  <2>1. n \in Nat /\ m \in MapsOf(U, Nat)
    BY <1>1
  <2> HIDE DEF n, m
  <2>2. Insert(m, v, n) \in MapsOf(U, Nat) /\ DOMAIN Insert(m, v, n) = DOMAIN m \cup {v}
    BY <2>1, NumberInserted, Inserted DEF InsertedIn
  <2> QED BY <2>2 DEF n
<1>3. id[v] \in Nat
  BY <1>2, NumbersAre
<1> HIDE DEF id
<1>4. y = [x EXCEPT !.vertexID = id, !.lines = x.lines \o <<[shape |-> "T", team |-> id[v]]>>]
  BY DEF PrintTPGTeam, FindVertexID, PrintLines, Exporters, id
<1>5. x.lines \in Seq(LineSet(S)) /\ x.lines \o <<[shape |-> "T", team |-> id[v]]>> \in Seq(LineSet(S))
  <2>1. [shape |-> "T", team |-> id[v]] \in LineSet(S)
    BY <1>3 DEF LineSet
  <2> QED BY <2>1, OneLine DEF Exporters
<1> QED BY <1>2, <1>4, <1>5 DEF Exporters, TeamLine, id

(* PrintTPGAction *)
ActionWritten(x, k, y) ==
    /\ y.lines = x.lines \o <<ActionLine(x.nbActions, k)>> /\ y.nbActions = x.nbActions + 1
    /\ y.vertexID = x.vertexID /\ y.programID = x.programID /\ y.nbPrograms = x.nbPrograms

LEMMA ActionPrinted ==
    ASSUME NEW M, NEW S, NEW x \in Exporters(M, S), NEW k \in S, NEW y, y = PrintTPGAction(x, k)
    PROVE  y \in Exporters(M, S) /\ ActionWritten(x, k, y)
<1> DEFINE new == x.lines \o <<ActionLine(x.nbActions, k)>>
           n == x.nbActions + 1
<1>1. ActionLine(x.nbActions, k) \in LineSet(S) /\ x.lines \in Seq(LineSet(S)) /\ n \in Nat
  BY DEF Exporters, LineSet, ActionLine
<1>2. new \in Seq(LineSet(S))
  BY <1>1, OneLine
<1>3. y = [x EXCEPT !.lines = new, !.nbActions = n]
  BY DEF PrintTPGAction, PrintLines, Exporters, ActionLine
<1> HIDE DEF new, n
<1>4. y \in Exporters(M, S)
  BY <1>1, <1>2, <1>3 DEF Exporters
<1>5. /\ y.lines = new /\ y.nbActions = n /\ y.vertexID = x.vertexID /\ y.programID = x.programID
      /\ y.nbPrograms = x.nbPrograms
  BY <1>3 DEF Exporters
<1> QED BY <1>4, <1>5 DEF new, n, ActionWritten

(* PrintProgram *)
ProgramWritten(x, p, y) ==
    LET n == x.nbPrograms
    IN  /\ y.lines = x.lines \o <<ConstantsLine(n, p), InstructionsLine(n, p), ProgramLine(n)>>
        /\ y.programID = Insert(x.programID, p, n) /\ y.nbPrograms = n + 1
        /\ y.vertexID = x.vertexID /\ y.nbActions = x.nbActions

LEMMA ProgramPrinted ==
    ASSUME NEW M, NEW S, NEW x \in Exporters(M, S), NEW p \in S, NEW y, y = PrintProgram(x, p)
    PROVE  y \in Exporters(M, S) /\ ProgramWritten(x, p, y)
<1> DEFINE n == x.nbPrograms
           new == x.lines \o <<ConstantsLine(n, p), InstructionsLine(n, p), ProgramLine(n)>>
<1>1. x.lines \in Seq(LineSet(S)) /\ n \in Nat /\ x.programID \in MapsOf(S, Nat)
  BY DEF Exporters
<1>2. new \in Seq(LineSet(S))
  <2>1. ConstantsLine(n, p) \in LineSet(S) /\ InstructionsLine(n, p) \in LineSet(S) /\ ProgramLine(n) \in LineSet(S)
    BY <1>1 DEF LineSet, ConstantsLine, InstructionsLine, ProgramLine
  <2> QED BY <1>1, <2>1, ThreeLines
<1> DEFINE ids == Insert(x.programID, p, n)
           m == n + 1
<1>3. ids \in MapsOf(S, Nat) /\ m \in Nat
  BY <1>1, NumberInserted
<1>4. y = [x EXCEPT !.lines = new, !.programID = ids, !.nbPrograms = m]
  BY DEF PrintProgram, PrintLines, Exporters, ConstantsLine, InstructionsLine, ProgramLine
<1> HIDE DEF new, ids, m
<1>5. y \in Exporters(M, S)
  BY <1>2, <1>3, <1>4 DEF Exporters
<1>6. /\ y.lines = new /\ y.programID = ids /\ y.nbPrograms = m /\ y.vertexID = x.vertexID
      /\ y.nbActions = x.nbActions
  BY <1>4 DEF Exporters
<1> QED BY <1>5, <1>6 DEF new, ids, m, ProgramWritten

(* What an edge adds to the file, from line b on, if it is the first of its program, whose number is n *)
FirstUseLines(g, id, n, a, e, lines, b) ==
    /\ lines[b] = ConstantsLine(n, e.prog) /\ lines[b + 1] = InstructionsLine(n, e.prog)
    /\ lines[b + 2] = ProgramLine(n)
    /\ IsAction(g, e.dst) => /\ lines[b + 3] = ActionLine(a, g.kind[e.dst])
                             /\ lines[b + 4] = ToActionLine(id[e.src], n, a)
    /\ IsTeam(g, e.dst) => lines[b + 3] = ToTeamLine(id[e.src], n, id[e.dst])

FirstWidth(g, e) == IF IsAction(g, e.dst) THEN 5 ELSE 4

(* The lines that an exporter x adds for the edge e when it becomes y *)
BlockAt(g, id, lines, x, e, y) ==
    LET b == Len(x.lines) + 1
    IN  /\ e.prog \in DOMAIN x.programID =>
              /\ Len(y.lines) = b /\ lines[b] = SharedLine(id[e.src], x.programID[e.prog])
              /\ y.programID = x.programID /\ y.nbPrograms = x.nbPrograms /\ y.nbActions = x.nbActions
        /\ e.prog \notin DOMAIN x.programID =>
              /\ Len(y.lines) = Len(x.lines) + FirstWidth(g, e)
              /\ FirstUseLines(g, id, x.nbPrograms, x.nbActions, e, lines, b)
              /\ y.programID = Insert(x.programID, e.prog, x.nbPrograms) /\ y.nbPrograms = x.nbPrograms + 1
              /\ y.nbActions = IF IsAction(g, e.dst) THEN x.nbActions + 1 ELSE x.nbActions

EdgeWritten(g, id, x, e, y) == Extends(x.lines, y.lines) /\ BlockAt(g, id, y.lines, x, e, y)

KnownEdge(g, id, S, e) ==
    /\ e.src \in DOMAIN id /\ e.prog \in S
    /\ IsAction(g, e.dst) => g.kind[e.dst] \in S
    /\ IsTeam(g, e.dst) => e.dst \in DOMAIN id

Numbers(id) == id \in [DOMAIN id -> Nat]

LEMMA VertexKnown ==
    ASSUME NEW id, Numbers(id), NEW S, NEW x \in Exporters({id}, S), NEW v \in DOMAIN id
    PROVE  FindVertexID(x, v) = x
<1>1. x.vertexID = id /\ IsMap(id)
  BY DEF Exporters, Numbers, IsMap
<1>2. Insert(x.vertexID, v, Cardinality(DOMAIN x.vertexID)) = x.vertexID
  <2> DEFINE m == x.vertexID
             n == Cardinality(DOMAIN m)
  <2>1. v \in DOMAIN m /\ IsMap(m)
    BY <1>1
  <2> HIDE DEF m, n
  <2>2. Insert(m, v, n) = m
    BY <2>1, Inserted DEF InsertedIn
  <2> QED BY <2>2 DEF m, n
<1> QED BY <1>2 DEF FindVertexID, Exporters

LEMMA EdgePrinted ==
    ASSUME NEW g, NEW id, Numbers(id), NEW S, NEW x \in Exporters({id}, S), NEW e, KnownEdge(g, id, S, e),
           NEW y, y = PrintTPGEdge(g, x, e)
    PROVE  y \in Exporters({id}, S) /\ EdgeWritten(g, id, x, e, y)
<1> DEFINE t == id[e.src]
           L == LineSet(S)
           s == x.lines
           n == x.nbPrograms
           a == x.nbActions
           k == Len(s)
           p == PrintProgram(x, e.prog)
<1>1. /\ FindVertexID(x, e.src) = x /\ x.vertexID[e.src] = t /\ t \in Nat /\ e.prog \in S
      /\ s \in Seq(L) /\ k \in Nat /\ x.programID \in MapsOf(S, Nat) /\ n \in Nat /\ a \in Nat
  BY VertexKnown DEF KnownEdge, Numbers, Exporters
<1>2. IsTeam(g, e.dst) <=> ~ IsAction(g, e.dst)
  BY DEF IsTeam, IsAction
<1>3. CASE e.prog \in DOMAIN x.programID
  <2> DEFINE l == SharedLine(t, x.programID[e.prog])
             new == s \o <<l>>
  <2>1. y = [x EXCEPT !.lines = new]
    BY <1>1, <1>3 DEF PrintTPGEdge, PrintLines, SharedLine
  <2>2. l \in L
    <3>1. x.programID[e.prog] \in Nat
      BY <1>1, <1>3, NumbersAre
    <3> QED BY <1>1, <3>1 DEF LineSet, SharedLine
  <2> HIDE DEF l, L
  <2>3. new \in Seq(L) /\ Len(new) = k + 1 /\ new[k + 1] = l /\ \A i \in 1 .. k : new[i] = s[i]
    BY <1>1, <2>2, OneLine
  <2> HIDE DEF new
  <2>4. y \in Exporters({id}, S)
    BY <2>1, <2>3 DEF Exporters, L
  <2>5. y.lines = new /\ y.programID = x.programID /\ y.nbPrograms = n /\ y.nbActions = a
    BY <2>1 DEF Exporters
  <2>6. Extends(s, new)
    BY <1>1, <2>3 DEF Extends
  <2> QED BY <1>3, <2>3, <2>4, <2>5, <2>6 DEF EdgeWritten, BlockAt, l
<1>4. CASE e.prog \notin DOMAIN x.programID
  <2> DEFINE s3 == s \o <<ConstantsLine(n, e.prog), InstructionsLine(n, e.prog), ProgramLine(n)>>
  <2>1. p \in Exporters({id}, S)
    <3> DEFINE M == {id}
    <3>1. x \in Exporters(M, S) /\ e.prog \in S
      BY <1>1
    <3> HIDE DEF M
    <3>2. p \in Exporters(M, S)
      BY <3>1, ProgramPrinted
    <3> QED BY <3>2 DEF M
  <2>2. /\ p.lines = s3 /\ p.programID = Insert(x.programID, e.prog, n) /\ p.nbPrograms = n + 1
        /\ p.nbActions = a
    <3> DEFINE M == {id}
               c == e.prog
    <3>1. x \in Exporters(M, S) /\ c \in S /\ p = PrintProgram(x, c)
      BY <1>1
    <3> HIDE DEF M, c, p
    <3>2. ProgramWritten(x, c, p)
      BY <3>1, ProgramPrinted
    <3> QED BY <3>2 DEF ProgramWritten, c
  <2>3. /\ s3 \in Seq(L) /\ Len(s3) = k + 3 /\ \A i \in 1 .. k : s3[i] = s[i]
        /\ s3[k + 1] = ConstantsLine(n, e.prog) /\ s3[k + 2] = InstructionsLine(n, e.prog)
        /\ s3[k + 3] = ProgramLine(n)
    <3>1. ConstantsLine(n, e.prog) \in L /\ InstructionsLine(n, e.prog) \in L /\ ProgramLine(n) \in L
      BY <1>1 DEF LineSet, ConstantsLine, InstructionsLine, ProgramLine
    <3> HIDE DEF L
    <3> QED BY <1>1, <3>1, ThreeLines
  <2>4. p.programID[e.prog] = n
    <3> DEFINE m == x.programID
               c == e.prog
    <3>1. c \notin DOMAIN m
      BY <1>4
    <3> HIDE DEF m, c
    <3>2. Insert(m, c, n)[c] = n
      BY <3>1, Inserted DEF InsertedIn
    <3> QED BY <2>2, <3>2 DEF m, c
  <2> HIDE DEF s3, p
  <2>5. CASE IsAction(g, e.dst)
    <3> DEFINE la == ActionLine(a, g.kind[e.dst])
               s4 == s3 \o <<la>>
               q == PrintTPGAction(p, g.kind[e.dst])
               lt == ToActionLine(t, n, a)
               s5 == s4 \o <<lt>>
    <3>1. la \in L /\ lt \in L /\ g.kind[e.dst] \in S
      BY <1>1, <2>5 DEF LineSet, ActionLine, ToActionLine, KnownEdge
    <3>2. /\ q \in Exporters({id}, S) /\ q.lines = s4 /\ q.nbActions = a + 1
          /\ q.programID = p.programID /\ q.nbPrograms = p.nbPrograms
      <4> DEFINE M == {id}
                 c == g.kind[e.dst]
      <4>1. p \in Exporters(M, S) /\ c \in S /\ q = PrintTPGAction(p, c)
        BY <2>1, <3>1
      <4> HIDE DEF M, c, q
      <4>2. q \in Exporters(M, S) /\ ActionWritten(p, c, q)
        BY <4>1, ActionPrinted
      <4> QED BY <2>2, <4>2 DEF M, c, ActionWritten
    <3>3. y = [q EXCEPT !.lines = s5]
      <4>2. y = PrintLines(q, <<[shape |-> "T->P->A", team |-> t, prog |-> n, action |-> p.nbActions]>>)
        BY <1>1, <1>4, <2>4, <2>5 DEF PrintTPGEdge, p
      <4> QED BY <2>2, <3>2, <4>2 DEF PrintLines, ToActionLine
    <3> HIDE DEF la, lt, q, L
    <3>4. s4 \in Seq(L) /\ Len(s4) = k + 4 /\ s4[k + 4] = la /\ \A i \in 1 .. k + 3 : s4[i] = s3[i]
      <4>1. (k + 3) + 1 = k + 4
        BY <1>1
      <4> QED BY <2>3, <3>1, <4>1, OneLine
    <3> HIDE DEF s4
    <3>5. s5 \in Seq(L) /\ Len(s5) = k + 5 /\ s5[k + 5] = lt /\ \A i \in 1 .. k + 4 : s5[i] = s4[i]
      <4>1. (k + 4) + 1 = k + 5
        BY <1>1
      <4> QED BY <3>1, <3>4, <4>1, OneLine
    <3> HIDE DEF s5
    <3>6. /\ y.lines = s5 /\ y.programID = p.programID /\ y.nbPrograms = n + 1 /\ y.nbActions = a + 1
          /\ y \in Exporters({id}, S)
      BY <2>1, <2>2, <3>2, <3>3, <3>5 DEF Exporters, L
    <3>7. \A i \in 1 .. k : s5[i] = s[i]
      <4>1. \A i \in 1 .. k : i \in 1 .. k + 3 /\ i \in 1 .. k + 4
        BY <1>1
      <4> TAKE i \in 1 .. k
      <4>2. s3[i] = s[i]
        BY <2>3
      <4>3. s4[i] = s3[i]
        BY <3>4, <4>1
      <4>4. s5[i] = s4[i]
        BY <3>5, <4>1
      <4> QED BY <4>2, <4>3, <4>4
    <3>8. s5[k + 1] = s3[k + 1] /\ s5[k + 2] = s3[k + 2] /\ s5[k + 3] = s3[k + 3] /\ s5[k + 4] = s4[k + 4]
      <4>1. /\ k + 1 \in 1 .. k + 3 /\ k + 2 \in 1 .. k + 3 /\ k + 3 \in 1 .. k + 3
            /\ k + 1 \in 1 .. k + 4 /\ k + 2 \in 1 .. k + 4 /\ k + 3 \in 1 .. k + 4 /\ k + 4 \in 1 .. k + 4
        BY <1>1
      <4> QED BY <3>4, <3>5, <4>1
    <3>9. Extends(s, s5)
      BY <1>1, <3>5, <3>7 DEF Extends
    <3>10. FirstUseLines(g, id, n, a, e, s5, k + 1)
      <4>1. (k + 1) + 1 = k + 2 /\ (k + 1) + 2 = k + 3 /\ (k + 1) + 3 = k + 4 /\ (k + 1) + 4 = k + 5
        BY <1>1
      <4> QED BY <1>2, <2>3, <2>5, <3>4, <3>5, <3>8, <4>1 DEF FirstUseLines, la, lt
    <3> QED BY <1>4, <2>2, <2>5, <3>5, <3>6, <3>9, <3>10 DEF EdgeWritten, BlockAt, FirstWidth
  <2>6. CASE ~ IsAction(g, e.dst)
    <3> DEFINE lt == ToTeamLine(t, n, id[e.dst])
               s4 == s3 \o <<lt>>
    <3>1. IsTeam(g, e.dst) /\ e.dst \in DOMAIN id /\ id[e.dst] \in Nat
      BY <1>2, <2>6 DEF KnownEdge, Numbers
    <3>2. FindVertexID(p, e.dst) = p /\ p.vertexID = id
      BY <2>1, <3>1, VertexKnown DEF Exporters
    <3>3. y = [p EXCEPT !.lines = s4]
      <4>1. y = PrintLines(p, <<[shape |-> "T->P->T", team |-> t, prog |-> n, dest |-> id[e.dst]]>>)
        BY <1>1, <1>4, <2>4, <2>6, <3>2 DEF PrintTPGEdge, p
      <4> QED BY <2>2, <4>1 DEF PrintLines, ToTeamLine
    <3>4. lt \in L
      BY <1>1, <3>1 DEF LineSet, ToTeamLine
    <3> HIDE DEF lt, L
    <3>5. s4 \in Seq(L) /\ Len(s4) = k + 4 /\ s4[k + 4] = lt /\ \A i \in 1 .. k + 3 : s4[i] = s3[i]
      <4>1. (k + 3) + 1 = k + 4
        BY <1>1
      <4> QED BY <2>3, <3>4, <4>1, OneLine
    <3> HIDE DEF s4
    <3>6. /\ y.lines = s4 /\ y.programID = p.programID /\ y.nbPrograms = n + 1 /\ y.nbActions = a
          /\ y \in Exporters({id}, S)
      BY <2>1, <2>2, <3>3, <3>5 DEF Exporters, L
    <3>7. Extends(s, s4)
      <4>1. k <= k + 4 /\ \A i \in 1 .. k : i \in 1 .. k + 3
        BY <1>1
      <4>2. \A i \in 1 .. k : s4[i] = s[i]
        BY <2>3, <3>5, <4>1
      <4> QED BY <3>5, <4>1, <4>2 DEF Extends
    <3>8. s4[k + 1] = s3[k + 1] /\ s4[k + 2] = s3[k + 2] /\ s4[k + 3] = s3[k + 3]
      <4>1. k + 1 \in 1 .. k + 3 /\ k + 2 \in 1 .. k + 3 /\ k + 3 \in 1 .. k + 3
        BY <1>1
      <4> QED BY <3>5, <4>1
    <3>9. FirstUseLines(g, id, n, a, e, s4, k + 1)
      <4>1. (k + 1) + 1 = k + 2 /\ (k + 1) + 2 = k + 3 /\ (k + 1) + 3 = k + 4
        BY <1>1
      <4> QED BY <2>3, <2>6, <3>5, <3>8, <4>1 DEF FirstUseLines, lt
    <3> QED BY <1>4, <2>2, <2>6, <3>5, <3>6, <3>7, <3>9 DEF EdgeWritten, BlockAt, FirstWidth
  <2> QED BY <2>5, <2>6
<1> QED BY <1>3, <1>4

-----------------------------------------------------------------------------
(* The folds of the exporter, as chains: each value is computed from the one before. *)

TeamsSteps(U, S, base, q, c) ==
    /\ \A i \in 0 .. Len(q) : c[i] \in Exporters(MapsOf(U, Nat), S)
    /\ c[0] = base /\ \A i \in 1 .. Len(q) : c[i] = PrintTPGTeam(c[i - 1], q[i])
    /\ PrintTeams(base, q) = c[Len(q)]

LEMMA TeamsChain ==
    ASSUME NEW U, IsFiniteSet(U), NEW S, NEW q \in Seq(U), NEW base \in Exporters(MapsOf(U, Nat), S)
    PROVE  \E c : TeamsSteps(U, S, base, q, c)
<1> DEFINE n == Len(q)
           X == Exporters(MapsOf(U, Nat), S)
           F(y, k) == PrintTPGTeam(y, q[k])
           Step(g0) == [s \in SUBSET DOMAIN q |->
                         IF s = {} THEN base ELSE PrintTPGTeam(g0[s \ {Max(s)}], q[Max(s)])]
           f == CHOOSE g0 : g0 = Step(g0)
           H == [i \in 1 .. n |-> [y \in X |-> F(y, i)]]
<1>1. PrintTeams(base, q) = f[DOMAIN q]
  BY DEF PrintTeams, FoldLeft, MapThenFoldSet
<1>2. n \in Nat /\ DOMAIN q = 1 .. n /\ base \in X /\ \A i \in 1 .. n : q[i] \in U
  BY LenProperties, ElementOfSeq
<1>3. H \in [1 .. n -> [X -> X]]
  <2>1. ASSUME NEW i \in 1 .. n, NEW y \in X PROVE F(y, i) \in X
    <3> DEFINE z == PrintTPGTeam(y, q[i])
    <3>1. q[i] \in U /\ z = PrintTPGTeam(y, q[i])
      BY <1>2
    <3> HIDE DEF z
    <3>2. z \in Exporters(MapsOf(U, Nat), S)
      BY <3>1, TeamPrinted
    <3> QED BY <3>2 DEF z
  <2> HIDE DEF X, n, F
  <2> QED BY <2>1
<1> HIDE DEF X, H, n, F
<1>4. PICK v \in [SUBSET (1 .. n) -> X] : IsSeqFold(v, n, base, H)
  BY <1>2, <1>3, SeqFoldExists
<1>5. v = Step(v)
  <2>1. ASSUME NEW s \in SUBSET (1 .. n), s # {} PROVE v[s] = F(v[s \ {Max(s)}], Max(s))
    <3>1. Max(s) \in 1 .. n /\ v[s \ {Max(s)}] \in X
      BY <1>2, <2>1, LastOfSubset
    <3> QED BY <1>4, <2>1, <3>1 DEF H, IsSeqFold
  <2>2. v[{}] = base
    BY <1>4 DEF IsSeqFold
  <2>3. \A s \in SUBSET (1 .. n) : v[s] = IF s = {} THEN base ELSE F(v[s \ {Max(s)}], Max(s))
    BY <2>1, <2>2
  <2> QED BY <1>2, <2>3 DEF F
<1>6. f = Step(f)
  BY <1>5
<1> HIDE DEF f
<1>7. ASSUME NEW s \in SUBSET (1 .. n) PROVE f[s] = IF s = {} THEN base ELSE F(f[s \ {Max(s)}], Max(s))
  BY <1>2, <1>6 DEF F
<1> DEFINE c == [i \in 0 .. n |-> f[1 .. i]]
<1>8. c[0] = base /\ PrintTeams(base, q) = c[n] /\ n \in 0 .. n
  BY <1>1, <1>2, <1>7, StepsOfInterval
<1>9. ASSUME NEW i \in 1 .. n PROVE c[i] = F(c[i - 1], i)
  <2>1. /\ (1 .. i) \in SUBSET (1 .. n) /\ 1 .. i # {} /\ i \in 0 .. n /\ i - 1 \in 0 .. n
        /\ Max(1 .. i) = i /\ (1 .. i) \ {i} = 1 .. (i - 1)
    BY <1>2, StepsOfInterval
  <2> QED BY <1>7, <2>1
<1> HIDE DEF c
<1>10. TypedSteps(c, n, base, H, X)
  BY <1>8, <1>9 DEF H, TypedSteps
<1>11. \A i \in 0 .. n : c[i] \in X
  BY <1>2, <1>3, <1>8, <1>10, TypedChain
<1> QED BY <1>8, <1>9, <1>11 DEF n, X, F, TeamsSteps

EdgesSteps(g, id, S, base, q, c) ==
    /\ \A i \in 0 .. Len(q) : c[i] \in Exporters({id}, S)
    /\ c[0] = base /\ \A i \in 1 .. Len(q) : c[i] = PrintTPGEdge(g, c[i - 1], q[i])
    /\ PrintEdges(g, base, q) = c[Len(q)]

LEMMA EdgesChain ==
    ASSUME NEW g, NEW id, Numbers(id), NEW S, NEW E, \A e \in E : KnownEdge(g, id, S, e), NEW q \in Seq(E),
           NEW base \in Exporters({id}, S)
    PROVE  \E c : EdgesSteps(g, id, S, base, q, c)
<1> DEFINE n == Len(q)
           X == Exporters({id}, S)
           F(y, k) == PrintTPGEdge(g, y, q[k])
           Step(g0) == [s \in SUBSET DOMAIN q |->
                         IF s = {} THEN base ELSE PrintTPGEdge(g, g0[s \ {Max(s)}], q[Max(s)])]
           f == CHOOSE g0 : g0 = Step(g0)
           H == [i \in 1 .. n |-> [y \in X |-> F(y, i)]]
<1>1. PrintEdges(g, base, q) = f[DOMAIN q]
  BY DEF PrintEdges, FoldLeft, MapThenFoldSet
<1>2. n \in Nat /\ DOMAIN q = 1 .. n /\ base \in X /\ \A i \in 1 .. n : q[i] \in E
  BY LenProperties, ElementOfSeq
<1>3. H \in [1 .. n -> [X -> X]]
  <2>1. ASSUME NEW i \in 1 .. n, NEW y \in X PROVE F(y, i) \in X
    <3> DEFINE z == PrintTPGEdge(g, y, q[i])
    <3>1. KnownEdge(g, id, S, q[i]) /\ z = PrintTPGEdge(g, y, q[i])
      BY <1>2
    <3> HIDE DEF z
    <3>2. z \in Exporters({id}, S)
      BY <3>1, EdgePrinted
    <3> QED BY <3>2 DEF z
  <2> HIDE DEF X, n, F
  <2> QED BY <2>1
<1> HIDE DEF X, H, n, F
<1>4. PICK v \in [SUBSET (1 .. n) -> X] : IsSeqFold(v, n, base, H)
  BY <1>2, <1>3, SeqFoldExists
<1>5. v = Step(v)
  <2>1. ASSUME NEW s \in SUBSET (1 .. n), s # {} PROVE v[s] = F(v[s \ {Max(s)}], Max(s))
    <3>1. Max(s) \in 1 .. n /\ v[s \ {Max(s)}] \in X
      BY <1>2, <2>1, LastOfSubset
    <3> QED BY <1>4, <2>1, <3>1 DEF H, IsSeqFold
  <2>2. v[{}] = base
    BY <1>4 DEF IsSeqFold
  <2>3. \A s \in SUBSET (1 .. n) : v[s] = IF s = {} THEN base ELSE F(v[s \ {Max(s)}], Max(s))
    BY <2>1, <2>2
  <2> QED BY <1>2, <2>3 DEF F
<1>6. f = Step(f)
  BY <1>5
<1> HIDE DEF f
<1>7. ASSUME NEW s \in SUBSET (1 .. n) PROVE f[s] = IF s = {} THEN base ELSE F(f[s \ {Max(s)}], Max(s))
  BY <1>2, <1>6 DEF F
<1> DEFINE c == [i \in 0 .. n |-> f[1 .. i]]
<1>8. c[0] = base /\ PrintEdges(g, base, q) = c[n] /\ n \in 0 .. n
  BY <1>1, <1>2, <1>7, StepsOfInterval
<1>9. ASSUME NEW i \in 1 .. n PROVE c[i] = F(c[i - 1], i)
  <2>1. /\ (1 .. i) \in SUBSET (1 .. n) /\ 1 .. i # {} /\ i \in 0 .. n /\ i - 1 \in 0 .. n
        /\ Max(1 .. i) = i /\ (1 .. i) \ {i} = 1 .. (i - 1)
    BY <1>2, StepsOfInterval
  <2> QED BY <1>7, <2>1
<1> HIDE DEF c
<1>10. TypedSteps(c, n, base, H, X)
  BY <1>8, <1>9 DEF H, TypedSteps
<1>11. \A i \in 0 .. n : c[i] \in X
  BY <1>2, <1>3, <1>8, <1>10, TypedChain
<1> QED BY <1>8, <1>9, <1>11 DEF n, X, F, EdgesSteps

PrintActions(g, base, q) == FoldLeft(LAMBDA y, v : PrintTPGAction(y, g.kind[v]), base, q)

ActionsSteps(g, id, S, base, q, c) ==
    /\ \A i \in 0 .. Len(q) : c[i] \in Exporters({id}, S)
    /\ c[0] = base /\ \A i \in 1 .. Len(q) : c[i] = PrintTPGAction(c[i - 1], g.kind[q[i]])
    /\ PrintActions(g, base, q) = c[Len(q)]

LEMMA ActionsChain ==
    ASSUME NEW g, NEW id, NEW S, NEW E, \A v \in E : g.kind[v] \in S, NEW q \in Seq(E),
           NEW base \in Exporters({id}, S)
    PROVE  \E c : ActionsSteps(g, id, S, base, q, c)
<1> DEFINE n == Len(q)
           X == Exporters({id}, S)
           F(y, k) == PrintTPGAction(y, g.kind[q[k]])
           Step(g0) == [s \in SUBSET DOMAIN q |->
                         IF s = {} THEN base ELSE PrintTPGAction(g0[s \ {Max(s)}], g.kind[q[Max(s)]])]
           f == CHOOSE g0 : g0 = Step(g0)
           H == [i \in 1 .. n |-> [y \in X |-> F(y, i)]]
<1>1. PrintActions(g, base, q) = f[DOMAIN q]
  BY DEF PrintActions, FoldLeft, MapThenFoldSet
<1>2. n \in Nat /\ DOMAIN q = 1 .. n /\ base \in X /\ \A i \in 1 .. n : q[i] \in E
  BY LenProperties, ElementOfSeq
<1>3. H \in [1 .. n -> [X -> X]]
  <2>1. ASSUME NEW i \in 1 .. n, NEW y \in X PROVE F(y, i) \in X
    <3> DEFINE z == PrintTPGAction(y, g.kind[q[i]])
               k == g.kind[q[i]]
               M == {id}
    <3>1. k \in S /\ z = PrintTPGAction(y, k) /\ y \in Exporters(M, S)
      BY <1>2
    <3> HIDE DEF z, k, M
    <3>2. z \in Exporters(M, S)
      BY <3>1, ActionPrinted
    <3> QED BY <3>2 DEF z, M
  <2> HIDE DEF X, n, F
  <2> QED BY <2>1
<1> HIDE DEF X, H, n, F
<1>4. PICK v \in [SUBSET (1 .. n) -> X] : IsSeqFold(v, n, base, H)
  BY <1>2, <1>3, SeqFoldExists
<1>5. v = Step(v)
  <2>1. ASSUME NEW s \in SUBSET (1 .. n), s # {} PROVE v[s] = F(v[s \ {Max(s)}], Max(s))
    <3>1. Max(s) \in 1 .. n /\ v[s \ {Max(s)}] \in X
      BY <1>2, <2>1, LastOfSubset
    <3> QED BY <1>4, <2>1, <3>1 DEF H, IsSeqFold
  <2>2. v[{}] = base
    BY <1>4 DEF IsSeqFold
  <2>3. \A s \in SUBSET (1 .. n) : v[s] = IF s = {} THEN base ELSE F(v[s \ {Max(s)}], Max(s))
    BY <2>1, <2>2
  <2> QED BY <1>2, <2>3 DEF F
<1>6. f = Step(f)
  BY <1>5
<1> HIDE DEF f
<1>7. ASSUME NEW s \in SUBSET (1 .. n) PROVE f[s] = IF s = {} THEN base ELSE F(f[s \ {Max(s)}], Max(s))
  BY <1>2, <1>6 DEF F
<1> DEFINE c == [i \in 0 .. n |-> f[1 .. i]]
<1>8. c[0] = base /\ PrintActions(g, base, q) = c[n] /\ n \in 0 .. n
  BY <1>1, <1>2, <1>7, StepsOfInterval
<1>9. ASSUME NEW i \in 1 .. n PROVE c[i] = F(c[i - 1], i)
  <2>1. /\ (1 .. i) \in SUBSET (1 .. n) /\ 1 .. i # {} /\ i \in 0 .. n /\ i - 1 \in 0 .. n
        /\ Max(1 .. i) = i /\ (1 .. i) \ {i} = 1 .. (i - 1)
    BY <1>2, StepsOfInterval
  <2> QED BY <1>7, <2>1
<1> HIDE DEF c
<1>10. TypedSteps(c, n, base, H, X)
  BY <1>8, <1>9 DEF H, TypedSteps
<1>11. \A i \in 0 .. n : c[i] \in X
  BY <1>2, <1>3, <1>8, <1>10, TypedChain
<1> QED BY <1>8, <1>9, <1>11 DEF n, X, F, ActionsSteps

(* NextTeams and BreadthFirst *)
AddTeam(g, s, v) == IF IsTeam(g, v) /\ ~ Contains(s, v) THEN Append(s, v) ELSE s
Scan(g, s, i) == IF i \in DOMAIN s THEN NextTeams(g, s, s[i]) ELSE s

AddTeams(g, base, q) ==
    FoldLeft(LAMBDA s, e : IF IsTeam(g, e.dst) /\ ~ Contains(s, e.dst) THEN Append(s, e.dst) ELSE s, base, q)
Scans(g, base, q) ==
    FoldLeft(LAMBDA scan, i : IF i \in DOMAIN scan THEN NextTeams(g, scan, scan[i]) ELSE scan, base, q)

AddTeamsSteps(g, V, base, q, c) ==
    /\ \A i \in 0 .. Len(q) : c[i] \in Seq(V)
    /\ c[0] = base /\ \A i \in 1 .. Len(q) : c[i] = AddTeam(g, c[i - 1], q[i].dst)
    /\ AddTeams(g, base, q) = c[Len(q)]

LEMMA AddTeamsChain ==
    ASSUME NEW g, NEW V, NEW E, \A e \in E : e.dst \in V, NEW q \in Seq(E), NEW base \in Seq(V)
    PROVE  \E c : AddTeamsSteps(g, V, base, q, c)
<1> DEFINE n == Len(q)
           X == Seq(V)
           F(y, k) == AddTeam(g, y, q[k].dst)
           Step(g0) == [s \in SUBSET DOMAIN q |->
                         IF s = {} THEN base ELSE AddTeam(g, g0[s \ {Max(s)}], q[Max(s)].dst)]
           f == CHOOSE g0 : g0 = Step(g0)
           H == [i \in 1 .. n |-> [y \in X |-> F(y, i)]]
<1>1. AddTeams(g, base, q) = f[DOMAIN q]
  BY DEF AddTeams, AddTeam, FoldLeft, MapThenFoldSet
<1>2. n \in Nat /\ DOMAIN q = 1 .. n /\ base \in X /\ \A i \in 1 .. n : q[i] \in E
  BY LenProperties, ElementOfSeq
<1>3. H \in [1 .. n -> [X -> X]]
  <2>1. ASSUME NEW i \in 1 .. n, NEW y \in X PROVE F(y, i) \in X
    <3>1. q[i].dst \in V
      BY <1>2
    <3> QED BY <3>1, AppendProperties DEF AddTeam
  <2> HIDE DEF X, n, F
  <2> QED BY <2>1
<1> HIDE DEF X, H, n, F
<1>4. PICK v \in [SUBSET (1 .. n) -> X] : IsSeqFold(v, n, base, H)
  BY <1>2, <1>3, SeqFoldExists
<1>5. v = Step(v)
  <2>1. ASSUME NEW s \in SUBSET (1 .. n), s # {} PROVE v[s] = F(v[s \ {Max(s)}], Max(s))
    <3>1. Max(s) \in 1 .. n /\ v[s \ {Max(s)}] \in X
      BY <1>2, <2>1, LastOfSubset
    <3> QED BY <1>4, <2>1, <3>1 DEF H, IsSeqFold
  <2>2. v[{}] = base
    BY <1>4 DEF IsSeqFold
  <2>3. \A s \in SUBSET (1 .. n) : v[s] = IF s = {} THEN base ELSE F(v[s \ {Max(s)}], Max(s))
    BY <2>1, <2>2
  <2> QED BY <1>2, <2>3 DEF F
<1>6. f = Step(f)
  BY <1>5
<1> HIDE DEF f
<1>7. ASSUME NEW s \in SUBSET (1 .. n) PROVE f[s] = IF s = {} THEN base ELSE F(f[s \ {Max(s)}], Max(s))
  BY <1>2, <1>6 DEF F
<1> DEFINE c == [i \in 0 .. n |-> f[1 .. i]]
<1>8. c[0] = base /\ AddTeams(g, base, q) = c[n] /\ n \in 0 .. n
  BY <1>1, <1>2, <1>7, StepsOfInterval
<1>9. ASSUME NEW i \in 1 .. n PROVE c[i] = F(c[i - 1], i)
  <2>1. /\ (1 .. i) \in SUBSET (1 .. n) /\ 1 .. i # {} /\ i \in 0 .. n /\ i - 1 \in 0 .. n
        /\ Max(1 .. i) = i /\ (1 .. i) \ {i} = 1 .. (i - 1)
    BY <1>2, StepsOfInterval
  <2> QED BY <1>7, <2>1
<1> HIDE DEF c
<1>10. TypedSteps(c, n, base, H, X)
  BY <1>8, <1>9 DEF H, TypedSteps
<1>11. \A i \in 0 .. n : c[i] \in X
  BY <1>2, <1>3, <1>8, <1>10, TypedChain
<1> QED BY <1>8, <1>9, <1>11 DEF n, X, F, AddTeamsSteps

LEMMA TeamsFollow ==
    ASSUME NEW g, NEW V, NEW s \in Seq(V), NEW v, OutgoingEdges(g, v) \in Seq(ToSet(g.edges)),
           \A e \in ToSet(g.edges) : e.dst \in V
    PROVE  NextTeams(g, s, v) \in Seq(V) /\ NextTeams(g, s, v) = AddTeams(g, s, OutgoingEdges(g, v))
<1> DEFINE q == OutgoingEdges(g, v)
           E == ToSet(g.edges)
<1>1. NextTeams(g, s, v) = AddTeams(g, s, q)
  BY DEF NextTeams, AddTeams
<1>2. q \in Seq(E) /\ (\A e \in E : e.dst \in V) /\ Len(q) \in Nat
  BY LenProperties
<1> HIDE DEF q, E
<1>3. AddTeams(g, s, q) \in Seq(V)
  <2>1. PICK c : AddTeamsSteps(g, V, s, q, c)
    BY <1>2, AddTeamsChain
  <2> QED BY <1>2, <2>1 DEF AddTeamsSteps
<1> QED BY <1>1, <1>3 DEF q

ScansSteps(g, V, base, q, c) ==
    /\ \A i \in 0 .. Len(q) : c[i] \in Seq(V)
    /\ c[0] = base /\ \A i \in 1 .. Len(q) : c[i] = Scan(g, c[i - 1], q[i])
    /\ Scans(g, base, q) = c[Len(q)]

LEMMA ScansChain ==
    ASSUME NEW g, NEW V, NEW q \in Seq(Nat), NEW base \in Seq(V),
           \A v : OutgoingEdges(g, v) \in Seq(ToSet(g.edges)),
           \A e \in ToSet(g.edges) : e.dst \in V
    PROVE  \E c : ScansSteps(g, V, base, q, c)
<1> DEFINE n == Len(q)
           X == Seq(V)
           F(y, k) == Scan(g, y, q[k])
           Step(g0) == [s \in SUBSET DOMAIN q |->
                         IF s = {} THEN base ELSE Scan(g, g0[s \ {Max(s)}], q[Max(s)])]
           f == CHOOSE g0 : g0 = Step(g0)
           H == [i \in 1 .. n |-> [y \in X |-> F(y, i)]]
<1>1. Scans(g, base, q) = f[DOMAIN q]
  BY DEF Scans, Scan, FoldLeft, MapThenFoldSet
<1>2. n \in Nat /\ DOMAIN q = 1 .. n /\ base \in X /\ \A i \in 1 .. n : q[i] \in Nat
  BY LenProperties, ElementOfSeq
<1>3. H \in [1 .. n -> [X -> X]]
  <2>1. ASSUME NEW i \in 1 .. n, NEW y \in X PROVE F(y, i) \in X
    <3> QED BY TeamsFollow DEF Scan
  <2> HIDE DEF X, n, F
  <2> QED BY <2>1
<1> HIDE DEF X, H, n, F
<1>4. PICK v \in [SUBSET (1 .. n) -> X] : IsSeqFold(v, n, base, H)
  BY <1>2, <1>3, SeqFoldExists
<1>5. v = Step(v)
  <2>1. ASSUME NEW s \in SUBSET (1 .. n), s # {} PROVE v[s] = F(v[s \ {Max(s)}], Max(s))
    <3>1. Max(s) \in 1 .. n /\ v[s \ {Max(s)}] \in X
      BY <1>2, <2>1, LastOfSubset
    <3> QED BY <1>4, <2>1, <3>1 DEF H, IsSeqFold
  <2>2. v[{}] = base
    BY <1>4 DEF IsSeqFold
  <2>3. \A s \in SUBSET (1 .. n) : v[s] = IF s = {} THEN base ELSE F(v[s \ {Max(s)}], Max(s))
    BY <2>1, <2>2
  <2> QED BY <1>2, <2>3 DEF F
<1>6. f = Step(f)
  BY <1>5
<1> HIDE DEF f
<1>7. ASSUME NEW s \in SUBSET (1 .. n) PROVE f[s] = IF s = {} THEN base ELSE F(f[s \ {Max(s)}], Max(s))
  BY <1>2, <1>6 DEF F
<1> DEFINE c == [i \in 0 .. n |-> f[1 .. i]]
<1>8. c[0] = base /\ Scans(g, base, q) = c[n] /\ n \in 0 .. n
  BY <1>1, <1>2, <1>7, StepsOfInterval
<1>9. ASSUME NEW i \in 1 .. n PROVE c[i] = F(c[i - 1], i)
  <2>1. /\ (1 .. i) \in SUBSET (1 .. n) /\ 1 .. i # {} /\ i \in 0 .. n /\ i - 1 \in 0 .. n
        /\ Max(1 .. i) = i /\ (1 .. i) \ {i} = 1 .. (i - 1)
    BY <1>2, StepsOfInterval
  <2> QED BY <1>7, <2>1
<1> HIDE DEF c
<1>10. TypedSteps(c, n, base, H, X)
  BY <1>8, <1>9 DEF H, TypedSteps
<1>11. \A i \in 0 .. n : c[i] \in X
  BY <1>2, <1>3, <1>8, <1>10, TypedChain
<1> QED BY <1>8, <1>9, <1>11 DEF n, X, F, ScansSteps

-----------------------------------------------------------------------------
(* The numbers of the teams: distinct, and below the number of those that have one *)

Ranks(id) ==
    /\ IsFiniteSet(DOMAIN id) /\ Numbers(id)
    /\ \A v, w \in DOMAIN id : id[v] = id[w] => v = w
    /\ \A v \in DOMAIN id : id[v] < Cardinality(DOMAIN id)

RankAdded(id, v, new) ==
    Ranks(new) /\ DOMAIN new = DOMAIN id \cup {v} /\ \A w \in DOMAIN id : new[w] = id[w]

LEMMA RankInserted ==
    ASSUME NEW id, Ranks(id), NEW v, NEW new, new = Insert(id, v, Cardinality(DOMAIN id))
    PROVE  RankAdded(id, v, new)
<1> DEFINE n == Cardinality(DOMAIN id)
<1>1. n \in Nat /\ IsFiniteSet(DOMAIN id)
  BY FS_CardinalityType DEF Ranks
<1>2. /\ DOMAIN new = DOMAIN id \cup {v} /\ IsMap(new)
      /\ \A w \in DOMAIN id : new[w] = id[w]
      /\ v \notin DOMAIN id => new[v] = n
      /\ v \in DOMAIN id /\ IsMap(id) => new = id
  <2> HIDE DEF n
  <2>1. InsertedIn(id, v, n, Insert(id, v, n))
    BY Inserted
  <2>2. new = Insert(id, v, n)
    BY DEF n
  <2> QED BY <2>1, <2>2 DEF InsertedIn
<1>3. CASE v \in DOMAIN id
  <2>1. IsMap(id)
    BY DEF Ranks, Numbers, IsMap
  <2>2. new = id
    BY <1>2, <1>3, <2>1
  <2> QED BY <1>2, <2>2 DEF RankAdded
<1>4. CASE v \notin DOMAIN id
  <2>1. IsFiniteSet(DOMAIN new) /\ Cardinality(DOMAIN new) = n + 1
    BY <1>1, <1>2, <1>4, FS_AddElement
  <2> HIDE DEF n
  <2>2. \A w \in DOMAIN id : id[w] < n /\ id[w] \in Nat /\ new[w] = id[w]
    BY <1>2 DEF Ranks, Numbers, n
  <2>3. \A w \in DOMAIN new : new[w] \in Nat /\ new[w] < n + 1 /\ (w = v \/ new[w] < n)
    BY <1>1, <1>2, <1>4, <2>2
  <2>4. Numbers(new)
    BY <1>2, <2>3 DEF Numbers, IsMap
  <2>5. ASSUME NEW a \in DOMAIN new, NEW b \in DOMAIN new, new[a] = new[b] PROVE a = b
    <3>1. CASE a \in DOMAIN id /\ b \in DOMAIN id
      BY <2>2, <2>5, <3>1 DEF Ranks
    <3>2. CASE a = v \/ b = v
      <4>1. new[a] \in Nat /\ new[b] \in Nat /\ new[v] = n
        BY <1>2, <1>4, <2>3
      <4> QED BY <1>1, <2>3, <2>5, <3>2, <4>1
    <3> QED BY <1>2, <3>1, <3>2
  <2>6. Ranks(new)
    BY <2>1, <2>3, <2>4, <2>5 DEF Ranks
  <2> QED BY <1>2, <2>6 DEF RankAdded
<1> QED BY <1>3, <1>4

ExporterOK(x, S) == x \in Exporters({x.vertexID}, S) /\ Ranks(x.vertexID)

(* Lines that name the first teams of vs *)
TeamLines(id, vs, lines, n) ==
    \A k \in 1 .. n : vs[k] \in DOMAIN id /\ lines[k] = TeamLine(id, vs[k])

TeamsWritten(x, vs, y, n) ==
    /\ Ranks(y.vertexID) /\ Len(y.lines) = n /\ TeamLines(y.vertexID, vs, y.lines, n)
    /\ y.programID = x.programID /\ y.nbPrograms = x.nbPrograms /\ y.nbActions = x.nbActions

LEMMA TeamsPrinted ==
    ASSUME NEW S, NEW x, ExporterOK(x, S), x.lines = <<>>, NEW V, IsFiniteSet(V), NEW vs \in Seq(V),
           NEW y, y = PrintTeams(x, vs)
    PROVE  ExporterOK(y, S) /\ TeamsWritten(x, vs, y, Len(vs))
<1> DEFINE U == DOMAIN x.vertexID \cup V
           n == Len(vs)
<1>1. IsFiniteSet(U) /\ vs \in Seq(U) /\ n \in Nat /\ \A i \in 1 .. n : vs[i] \in U
  <2>1. IsFiniteSet(U)
    BY FS_Union DEF ExporterOK, Ranks
  <2>2. n \in Nat /\ DOMAIN vs = 1 .. n /\ \A i \in 1 .. n : vs[i] \in V
    BY LenProperties, ElementOfSeq
  <2> QED BY <2>1, <2>2
<1>2. x \in Exporters(MapsOf(U, Nat), S)
  <2>1. x.vertexID \in MapsOf(U, Nat)
    BY DEF ExporterOK, Ranks, Numbers, MapsOf
  <2> QED BY <2>1 DEF ExporterOK, Exporters
<1> HIDE DEF U
<1>3. PICK c : TeamsSteps(U, S, x, vs, c)
  BY <1>1, <1>2, TeamsChain
<1>4. /\ \A i \in 0 .. n : c[i] \in Exporters(MapsOf(U, Nat), S)
      /\ c[0] = x /\ \A i \in 1 .. n : c[i] = PrintTPGTeam(c[i - 1], vs[i])
      /\ y = c[n]
  BY <1>3 DEF TeamsSteps
<1> HIDE DEF n
<1> DEFINE B == {i \in 0 .. n : ~ TeamsWritten(x, vs, c[i], i)}
<1>5. 0 \notin B
  <2>1. Len(x.lines) = 0
    OBVIOUS
  <2> QED BY <1>4, <2>1 DEF TeamsWritten, TeamLines, ExporterOK
<1>6. ASSUME NEW i \in 1 .. n, i \in B PROVE i - 1 \in B
  <2> SUFFICES ASSUME TeamsWritten(x, vs, c[i - 1], i - 1) PROVE TeamsWritten(x, vs, c[i], i)
    BY <1>1, <1>6
  <2> DEFINE p == c[i - 1]
             q == c[i]
             v == vs[i]
             m == Cardinality(DOMAIN p.vertexID)
  <2>1. p \in Exporters(MapsOf(U, Nat), S) /\ v \in U /\ q = PrintTPGTeam(p, v)
    BY <1>1, <1>4
  <2>2. TeamsWritten(x, vs, p, i - 1)
    OBVIOUS
  <2> HIDE DEF p, q
  <2>3. /\ q \in Exporters(MapsOf(U, Nat), S)
        /\ q.vertexID = Insert(p.vertexID, v, m)
        /\ q.lines = p.lines \o <<TeamLine(q.vertexID, v)>>
        /\ q.programID = p.programID /\ q.nbPrograms = p.nbPrograms /\ q.nbActions = p.nbActions
    <3> HIDE DEF v
    <3> QED BY <1>1, <2>1, TeamPrinted
  <2>4. /\ Ranks(q.vertexID) /\ DOMAIN q.vertexID = DOMAIN p.vertexID \cup {v}
        /\ \A w \in DOMAIN p.vertexID : q.vertexID[w] = p.vertexID[w]
    <3> DEFINE a == p.vertexID
               b == q.vertexID
    <3>1. Ranks(a) /\ b = Insert(a, v, Cardinality(DOMAIN a))
      BY <2>2, <2>3 DEF TeamsWritten
    <3> HIDE DEF a, b, v
    <3>2. RankAdded(a, v, b)
      BY <3>1, RankInserted
    <3> QED BY <3>2 DEF a, b, RankAdded
  <2>5. Len(p.lines) = i - 1 /\ p.lines \in Seq(LineSet(S))
    BY <2>1, <2>2 DEF TeamsWritten, Exporters
  <2>6. /\ Len(q.lines) = i /\ q.lines[i] = TeamLine(q.vertexID, v)
        /\ \A k \in 1 .. i - 1 : q.lines[k] = p.lines[k]
    <3> DEFINE l == TeamLine(q.vertexID, v)
               s == p.lines
               T == LineSet(S)
    <3>1. s \in Seq(T) /\ l \in T /\ q.lines = s \o <<l>> /\ Len(s) = i - 1 /\ (i - 1) + 1 = i
      <4>1. q.vertexID[v] \in Nat
        BY <2>4 DEF Ranks, Numbers
      <4> QED BY <2>3, <2>5, <4>1 DEF TeamLine, LineSet
    <3> HIDE DEF s, l, T
    <3>2. /\ Len(s \o <<l>>) = Len(s) + 1 /\ (s \o <<l>>)[Len(s) + 1] = l
          /\ \A k \in 1 .. Len(s) : (s \o <<l>>)[k] = s[k]
      BY <3>1, OneLine
    <3> QED BY <3>1, <3>2 DEF l, s
  <2>7. ASSUME NEW k \in 1 .. i PROVE vs[k] \in DOMAIN q.vertexID /\ q.lines[k] = TeamLine(q.vertexID, vs[k])
    <3>1. CASE k = i
      BY <2>4, <2>6, <3>1
    <3>2. CASE k # i
      <4>1. k \in 1 .. i - 1
        BY <3>2
      <4>2. vs[k] \in DOMAIN p.vertexID /\ p.lines[k] = TeamLine(p.vertexID, vs[k])
        BY <2>2, <4>1 DEF TeamsWritten, TeamLines
      <4> QED BY <2>4, <2>6, <4>1, <4>2 DEF TeamLine
    <3> QED BY <3>1, <3>2
  <2>8. q.programID = x.programID /\ q.nbPrograms = x.nbPrograms /\ q.nbActions = x.nbActions
    BY <2>2, <2>3 DEF TeamsWritten
  <2> QED BY <2>4, <2>6, <2>7, <2>8 DEF TeamsWritten, TeamLines, q
<1>7. B = {}
  <2>1. B \in SUBSET (0 .. n)
    OBVIOUS
  <2> HIDE DEF B
  <2> QED BY <1>1, <1>5, <1>6, <2>1, NoFirstFailure
<1>8. n \in 0 .. n
  BY <1>1
<1>9. TeamsWritten(x, vs, y, n) /\ y \in Exporters(MapsOf(U, Nat), S)
  BY <1>4, <1>7, <1>8
<1>10. ExporterOK(y, S)
  BY <1>9 DEF ExporterOK, Exporters, TeamsWritten
<1> QED BY <1>9, <1>10 DEF n

-----------------------------------------------------------------------------
(* The programs of the first i edges of q have numbers from n on. *)
ProgramsNumbered(n, x, q, i) ==
    /\ DOMAIN x.programID = {q[k].prog : k \in 1 .. i} /\ n <= x.nbPrograms
    /\ \A p \in DOMAIN x.programID : n <= x.programID[p] /\ x.programID[p] < x.nbPrograms
    /\ \A p, r \in DOMAIN x.programID : x.programID[p] = x.programID[r] => p = r

LEMMA OneMoreProgram ==
    ASSUME NEW g, NEW id, NEW S, NEW lines, NEW x \in Exporters({id}, S), NEW y \in Exporters({id}, S),
           NEW n \in Nat, NEW q, NEW i \in Nat \ {0},
           ProgramsNumbered(n, x, q, i - 1), BlockAt(g, id, lines, x, q[i], y)
    PROVE  ProgramsNumbered(n, y, q, i)
<1> DEFINE p == q[i].prog
           A == x.programID
           m == x.nbPrograms
<1>1. A \in MapsOf(S, Nat) /\ m \in Nat
  BY DEF Exporters
<1>2. DOMAIN A \cup {p} = {q[k].prog : k \in 1 .. i}
  <2>1. 1 .. i = (1 .. i - 1) \cup {i}
    OBVIOUS
  <2> QED BY <2>1 DEF ProgramsNumbered
<1>3. CASE p \in DOMAIN A
  <2>1. y.programID = A /\ y.nbPrograms = m /\ DOMAIN A \cup {p} = DOMAIN A
    BY <1>3 DEF BlockAt
  <2> QED BY <1>2, <2>1 DEF ProgramsNumbered
<1>4. CASE p \notin DOMAIN A
  <2> DEFINE B == y.programID
  <2>1. y.programID = Insert(A, p, m) /\ y.nbPrograms = m + 1
    BY <1>4 DEF BlockAt
  <2>2. DOMAIN B = DOMAIN A \cup {p} /\ (\A r \in DOMAIN A : B[r] = A[r]) /\ B[p] = m
    <3> HIDE DEF p, A, m
    <3>1. InsertedIn(A, p, m, Insert(A, p, m))
      BY Inserted
    <3> QED BY <1>4, <2>1, <3>1 DEF InsertedIn
  <2>3. \A r \in DOMAIN A : A[r] \in Nat /\ n <= A[r] /\ A[r] < m
    BY <1>1, NumbersAre DEF ProgramsNumbered
  <2>4. n <= m /\ \A r, t \in DOMAIN A : A[r] = A[t] => r = t
    BY DEF ProgramsNumbered
  <2> HIDE DEF p, A, B, m
  <2>5. n <= m + 1 /\ \A r \in DOMAIN B : n <= B[r] /\ B[r] < m + 1
    BY <1>1, <2>2, <2>3, <2>4
  <2>6. \A r, t \in DOMAIN B : B[r] = B[t] => r = t
    BY <1>1, <2>2, <2>3, <2>4
  <2> QED BY <1>2, <2>1, <2>2, <2>5, <2>6 DEF ProgramsNumbered, B
<1> QED BY <1>3, <1>4

LEMMA ExtendsFacts ==
    ASSUME NEW T, NEW s \in Seq(T), NEW t \in Seq(T), NEW u \in Seq(T)
    PROVE  Extends(s, s) /\ (Extends(s, t) /\ Extends(t, u) => Extends(s, u))
<1>1. Len(s) \in Nat /\ Len(t) \in Nat /\ Len(u) \in Nat
  BY LenProperties
<1> QED BY <1>1 DEF Extends

EdgesWritten(g, id, S, x, q, c) ==
    /\ c[0] = x /\ c[Len(q)] = PrintEdges(g, x, q)
    /\ \A i \in 0 .. Len(q) : /\ c[i] \in Exporters({id}, S) /\ Extends(c[i].lines, c[Len(q)].lines)
                              /\ Extends(x.lines, c[i].lines)
                              /\ ProgramsNumbered(x.nbPrograms, c[i], q, i)
    /\ \A i \in 1 .. Len(q) : EdgeWritten(g, id, c[i - 1], q[i], c[i])

LEMMA EdgesPrinted ==
    ASSUME NEW g, NEW id, Numbers(id), NEW S, NEW E, \A e \in E : KnownEdge(g, id, S, e), NEW q \in Seq(E),
           NEW x \in Exporters({id}, S), DOMAIN x.programID = {}
    PROVE  \E c : EdgesWritten(g, id, S, x, q, c)
<1> DEFINE n == Len(q)
           T == LineSet(S)
           m == x.nbPrograms
<1>1. PICK c : EdgesSteps(g, id, S, x, q, c)
  BY EdgesChain
<1>2. n \in Nat /\ \A i \in 1 .. n : q[i] \in E
  BY LenProperties, ElementOfSeq
<1>3. /\ c[0] = x /\ c[n] = PrintEdges(g, x, q) /\ \A i \in 0 .. n : c[i] \in Exporters({id}, S)
      /\ \A i \in 1 .. n : c[i] = PrintTPGEdge(g, c[i - 1], q[i])
  BY <1>1 DEF EdgesSteps
<1> HIDE DEF n
<1>4. ASSUME NEW i \in 1 .. n PROVE EdgeWritten(g, id, c[i - 1], q[i], c[i])
  <2> DEFINE a == c[i - 1]
             b == c[i]
             e == q[i]
  <2>1. a \in Exporters({id}, S) /\ KnownEdge(g, id, S, e) /\ b = PrintTPGEdge(g, a, e)
    <3>1. i - 1 \in 0 .. n
      BY <1>2
    <3> QED BY <1>2, <1>3, <3>1 DEF InsertedIn
  <2> HIDE DEF a, b, e
  <2>2. EdgeWritten(g, id, a, e, b)
    BY <2>1, EdgePrinted
  <2> QED BY <2>2 DEF a, b, e
<1>5. \A i \in 0 .. n : c[i].lines \in Seq(T)
  BY <1>3 DEF Exporters
<1> HIDE DEF T
<1>6. ASSUME NEW k \in 0 .. n, NEW i \in k .. n PROVE Extends(c[k].lines, c[i].lines)
  <2> DEFINE B == {j \in 0 .. n : k <= j /\ ~ Extends(c[k].lines, c[j].lines)}
  <2>1. 0 \notin B
    <3>1. k <= 0 => k = 0
      OBVIOUS
    <3> QED BY <1>5, <3>1, ExtendsFacts
  <2>2. ASSUME NEW j \in 1 .. n, j \in B PROVE j - 1 \in B
    <3>1. k # j
      BY <1>5, <2>2, ExtendsFacts
    <3>2. k <= j - 1 /\ j - 1 \in 0 .. n /\ j \in 0 .. n
      BY <1>2, <2>2, <3>1
    <3>3. Extends(c[j - 1].lines, c[j].lines)
      BY <1>4 DEF EdgeWritten
    <3>4. ~ Extends(c[k].lines, c[j].lines)
      BY <2>2
    <3>5. ~ Extends(c[k].lines, c[j - 1].lines)
      <4> DEFINE s == c[k].lines
                 t == c[j - 1].lines
                 u == c[j].lines
      <4>1. s \in Seq(T) /\ t \in Seq(T) /\ u \in Seq(T) /\ Extends(t, u) /\ ~ Extends(s, u)
        BY <1>5, <3>2, <3>3, <3>4
      <4> HIDE DEF s, t, u
      <4>2. ~ Extends(s, t)
        BY <4>1, ExtendsFacts
      <4> QED BY <4>2 DEF s, t
    <3> QED BY <3>2, <3>5
  <2>3. B = {}
    <3>1. B \in SUBSET (0 .. n)
      OBVIOUS
    <3> HIDE DEF B
    <3> QED BY <1>2, <2>1, <2>2, <3>1, NoFirstFailure
  <2>4. i \in 0 .. n /\ k <= i
    BY <1>2
  <2> QED BY <2>3, <2>4
<1>7. \A i \in 0 .. n : ProgramsNumbered(m, c[i], q, i)
  <2> DEFINE B == {i \in 0 .. n : ~ ProgramsNumbered(m, c[i], q, i)}
  <2>1. 0 \notin B
    <3>1. m \in Nat /\ 1 .. 0 = {}
      BY DEF Exporters
    <3>2. {q[k].prog : k \in 1 .. 0} = {}
      BY <3>1
    <3> QED BY <1>3, <3>1, <3>2 DEF ProgramsNumbered
  <2>2. ASSUME NEW i \in 1 .. n, i \in B PROVE i - 1 \in B
    <3> DEFINE a == c[i - 1]
               b == c[i]
    <3>1. /\ a \in Exporters({id}, S) /\ b \in Exporters({id}, S) /\ BlockAt(g, id, b.lines, a, q[i], b)
          /\ m \in Nat /\ i \in Nat \ {0}
      BY <1>2, <1>3, <1>4 DEF EdgeWritten, Exporters
    <3>2. ~ ProgramsNumbered(m, b, q, i) /\ i - 1 \in 0 .. n
      BY <1>2, <2>2
    <3> HIDE DEF a, b, m
    <3>3. ~ ProgramsNumbered(m, a, q, i - 1)
      <4> DEFINE l == b.lines
      <4>1. BlockAt(g, id, l, a, q[i], b)
        BY <3>1
      <4> HIDE DEF l
      <4> QED BY <3>1, <3>2, <4>1, OneMoreProgram
    <3> QED BY <3>2, <3>3 DEF a
  <2>3. B = {}
    <3>1. B \in SUBSET (0 .. n)
      OBVIOUS
    <3> HIDE DEF B
    <3> QED BY <1>2, <2>1, <2>2, <3>1, NoFirstFailure
  <2> QED BY <2>3
<1>8. ASSUME NEW i \in 0 .. n PROVE Extends(c[i].lines, c[n].lines) /\ Extends(x.lines, c[i].lines)
  <2>1. n \in i .. n /\ 0 \in 0 .. n /\ i \in 0 .. n
    BY <1>2
  <2> QED BY <1>3, <1>6, <2>1
<1> QED BY <1>3, <1>4, <1>7, <1>8 DEF EdgesWritten, n

LEMMA BlockKept ==
    ASSUME NEW g, NEW id, NEW S, NEW x \in Exporters({id}, S), NEW y \in Exporters({id}, S), NEW e,
           EdgeWritten(g, id, x, e, y), NEW lines, Extends(y.lines, lines)
    PROVE  BlockAt(g, id, lines, x, e, y)
<1> DEFINE k == Len(x.lines)
           b == k + 1
<1>1. k \in Nat /\ Len(y.lines) \in Nat
  BY LenProperties DEF Exporters
<1>2. \A i \in 1 .. Len(y.lines) : lines[i] = y.lines[i]
  BY DEF Extends
<1>3. BlockAt(g, id, y.lines, x, e, y)
  BY DEF EdgeWritten
<1>4. CASE e.prog \in DOMAIN x.programID
  <2>1. Len(y.lines) = b /\ b \in 1 .. b
    BY <1>1, <1>3, <1>4 DEF BlockAt
  <2>2. lines[b] = y.lines[b]
    BY <1>2, <2>1
  <2> QED BY <1>3, <1>4, <2>2 DEF BlockAt
<1>5. CASE e.prog \notin DOMAIN x.programID
  <2>1. Len(y.lines) = k + FirstWidth(g, e) /\ FirstUseLines(g, id, x.nbPrograms, x.nbActions, e, y.lines, b)
    BY <1>3, <1>5 DEF BlockAt
  <2>2. lines[b] = y.lines[b] /\ lines[b + 1] = y.lines[b + 1] /\ lines[b + 2] = y.lines[b + 2]
        /\ lines[b + 3] = y.lines[b + 3]
    <3>1. b \in 1 .. Len(y.lines) /\ b + 1 \in 1 .. Len(y.lines) /\ b + 2 \in 1 .. Len(y.lines)
          /\ b + 3 \in 1 .. Len(y.lines)
      <4>1. FirstWidth(g, e) \in {4, 5}
        BY DEF FirstWidth
      <4>2. Len(y.lines) = k + 4 \/ Len(y.lines) = k + 5
        BY <2>1, <4>1
      <4> QED BY <1>1, <4>2
    <3> QED BY <1>2, <3>1
  <2>3. IsAction(g, e.dst) => lines[b + 4] = y.lines[b + 4]
    <3>1. IsAction(g, e.dst) => b + 4 \in 1 .. Len(y.lines)
      <4> SUFFICES ASSUME IsAction(g, e.dst) PROVE b + 4 \in 1 .. Len(y.lines)
        OBVIOUS
      <4>1. Len(y.lines) = k + 5
        BY <2>1 DEF FirstWidth
      <4> QED BY <1>1, <4>1
    <3> QED BY <1>2, <3>1
  <2>4. FirstUseLines(g, id, x.nbPrograms, x.nbActions, e, lines, b)
    BY <2>1, <2>2, <2>3 DEF FirstUseLines
  <2> QED BY <1>3, <1>5, <2>4 DEF BlockAt
<1> QED BY <1>4, <1>5

-----------------------------------------------------------------------------
(* The footer: one line for each root action, in order *)

ActionsWritten(g, x, roots, y, n) ==
    /\ Len(y.lines) = Len(x.lines) + n /\ Extends(x.lines, y.lines)
    /\ \A j \in 1 .. n : y.lines[Len(x.lines) + j] = ActionLine(x.nbActions + (j - 1), g.kind[roots[j]])
    /\ y.nbActions = x.nbActions + n

LEMMA ActionsPrinted ==
    ASSUME NEW g, NEW id, NEW S, NEW A, \A v \in A : g.kind[v] \in S, NEW roots \in Seq(A),
           NEW x \in Exporters({id}, S)
    PROVE  /\ PrintActions(g, x, roots) \in Exporters({id}, S)
           /\ ActionsWritten(g, x, roots, PrintActions(g, x, roots), Len(roots))
<1> DEFINE n == Len(roots)
           T == LineSet(S)
           a == x.nbActions
           m == Len(x.lines)
           y == PrintActions(g, x, roots)
<1>1. PICK c : ActionsSteps(g, id, S, x, roots, c)
  BY ActionsChain
<1>2. n \in Nat /\ \A i \in 1 .. n : roots[i] \in A
  BY LenProperties, ElementOfSeq
<1>3. /\ c[0] = x /\ c[n] = y /\ \A i \in 0 .. n : c[i] \in Exporters({id}, S)
      /\ \A i \in 1 .. n : c[i] = PrintTPGAction(c[i - 1], g.kind[roots[i]])
  BY <1>1 DEF ActionsSteps
<1>4. m \in Nat /\ a \in Nat /\ x.lines \in Seq(T)
  BY LenProperties DEF Exporters
<1> HIDE DEF n, T, y
<1> DEFINE B == {i \in 0 .. n : ~ ActionsWritten(g, x, roots, c[i], i)}
<1>5. 0 \notin B
  <2>1. Extends(x.lines, x.lines)
    BY <1>4, ExtendsFacts
  <2> QED BY <1>3, <1>4, <2>1 DEF ActionsWritten
<1>6. ASSUME NEW i \in 1 .. n, i \in B PROVE i - 1 \in B
  <2> DEFINE p == c[i - 1]
             q == c[i]
             k == g.kind[roots[i]]
             l == ActionLine(p.nbActions, k)
  <2> SUFFICES ASSUME ActionsWritten(g, x, roots, p, i - 1) PROVE ActionsWritten(g, x, roots, q, i)
    BY <1>2, <1>6
  <2>1. p \in Exporters({id}, S) /\ k \in S /\ q = PrintTPGAction(p, k) /\ i \in Nat /\ i - 1 \in 0 .. n
    <3>1. i - 1 \in 0 .. n /\ i \in Nat
      BY <1>2
    <3>2. k \in S
      BY <1>2
    <3> HIDE DEF k
    <3>3. q = PrintTPGAction(p, k)
      BY <1>3 DEF k
    <3> QED BY <1>3, <3>1, <3>2, <3>3
  <2> HIDE DEF p, q
  <2>2. q \in Exporters({id}, S) /\ ActionWritten(p, k, q)
    <3> DEFINE M == {id}
    <3>1. p \in Exporters(M, S)
      BY <2>1
    <3> HIDE DEF M, k
    <3>2. q \in Exporters(M, S) /\ ActionWritten(p, k, q)
      BY <2>1, <3>1, ActionPrinted
    <3> QED BY <3>2 DEF M
  <2>3. p.lines \in Seq(T) /\ p.nbActions \in Nat
    BY <2>1 DEF Exporters, T
  <2>4. l \in T
    BY <2>1, <2>3 DEF T, LineSet, ActionLine
  <2> DEFINE s == p.lines
             t == q.lines
  <2>5. t = s \o <<l>> /\ q.nbActions = p.nbActions + 1
    BY <2>2 DEF ActionWritten
  <2> HIDE DEF l
  <2>6. /\ Len(t) = Len(s) + 1 /\ t[Len(s) + 1] = l /\ t \in Seq(T)
        /\ \A j \in 1 .. Len(s) : t[j] = s[j]
    <3> HIDE DEF s, t
    <3> QED BY <2>3, <2>4, <2>5, OneLine DEF s
  <2>7. /\ Len(s) = m + (i - 1) /\ Extends(x.lines, s) /\ p.nbActions = a + (i - 1)
        /\ \A j \in 1 .. i - 1 : s[m + j] = ActionLine(a + (j - 1), g.kind[roots[j]])
    BY DEF ActionsWritten
  <2>8. Len(t) = m + i /\ q.nbActions = a + i
    <3> HIDE DEF s, t, a, m
    <3>1. Len(t) = (m + (i - 1)) + 1 /\ q.nbActions = (a + (i - 1)) + 1
      BY <2>5, <2>6, <2>7
    <3> QED BY <1>4, <2>1, <3>1
  <2>9. Extends(x.lines, t)
    <3>1. Extends(s, t)
      BY <1>4, <2>1, <2>6, <2>7 DEF Extends
    <3> DEFINE u == x.lines
    <3>2. u \in Seq(T) /\ s \in Seq(T) /\ t \in Seq(T) /\ Extends(u, s)
      BY <1>4, <2>3, <2>6, <2>7
    <3> HIDE DEF s, t, u
    <3> QED BY <3>1, <3>2, ExtendsFacts DEF u
  <2>10. ASSUME NEW j \in 1 .. i PROVE t[m + j] = ActionLine(a + (j - 1), g.kind[roots[j]])
    <3>1. CASE j = i
      <4>1. Len(s) + 1 = m + i
        BY <1>4, <2>1, <2>7
      <4>2. t[m + i] = l
        BY <2>6, <4>1
      <4> QED BY <2>7, <3>1, <4>2 DEF l
    <3>2. CASE j # i
      <4>1. j \in 1 .. i - 1 /\ m + j \in 1 .. Len(s)
        <5> DEFINE z == Len(s)
        <5>1. z = m + (i - 1) /\ m \in Nat /\ i \in Nat /\ j \in 1 .. i /\ j # i
          BY <1>4, <2>1, <2>7, <3>2
        <5> HIDE DEF z, s, m
        <5>2. j \in 1 .. i - 1 /\ m + j \in 1 .. z
          BY <5>1
        <5> QED BY <5>2 DEF z
      <4> QED BY <2>6, <2>7, <4>1
    <3> QED BY <3>1, <3>2
  <2> QED BY <2>8, <2>9, <2>10 DEF ActionsWritten
<1>7. B = {}
  <2>1. B \in SUBSET (0 .. n)
    OBVIOUS
  <2> HIDE DEF B
  <2> QED BY <1>2, <1>5, <1>6, <2>1, NoFirstFailure
<1>8. n \in 0 .. n
  BY <1>2
<1> QED BY <1>3, <1>7, <1>8 DEF n, y

-----------------------------------------------------------------------------
(* A file w: its teams, its edges, the root actions of its footer, the numbers of its teams, and what
   the exporter was after each of the edges *)

FileTeams(w, lines) ==
    /\ Ranks(w.id) /\ Len(w.at[0].lines) = Len(w.teams)
    /\ TeamLines(w.id, w.teams, lines, Len(w.teams))

FileEdges(g, S, w, lines) ==
    /\ \A i \in 0 .. Len(w.edges) :
          /\ w.at[i] \in Exporters({w.id}, S) /\ Len(w.teams) <= Len(w.at[i].lines)
          /\ ProgramsNumbered(w.at[0].nbPrograms, w.at[i], w.edges, i)
    /\ \A i \in 1 .. Len(w.edges) : BlockAt(g, w.id, lines, w.at[i - 1], w.edges[i], w.at[i])

FileFooter(g, w, lines) ==
    LET x == w.at[Len(w.edges)]
    IN  /\ Len(lines) = Len(x.lines) + Len(w.roots) + 1 /\ lines[Len(lines)] = [shape |-> "end"]
        /\ \A j \in 1 .. Len(w.roots) :
              lines[Len(x.lines) + j] = ActionLine(x.nbActions + (j - 1), g.kind[w.roots[j]])

IsFile(g, S, w, lines) == FileTeams(w, lines) /\ FileEdges(g, S, w, lines) /\ FileFooter(g, w, lines)

(* The exporter when only the teams of a file are printed *)
TeamsReady(x, S, vs) ==
    /\ ExporterOK(x, S) /\ DOMAIN x.programID = {}
    /\ Len(x.lines) = Len(vs) /\ TeamLines(x.vertexID, vs, x.lines, Len(vs))

PrintRest(g, x, q, roots) == PrintLines(PrintActions(g, PrintEdges(g, x, q), roots), <<[shape |-> "end"]>>)

HasFile(g, S, vs, q, roots, lines) ==
    \E w : w.teams = vs /\ w.edges = q /\ w.roots = roots /\ IsFile(g, S, w, lines)

LEMMA FileWritten ==
    ASSUME NEW g, NEW S, NEW x, NEW V, NEW vs \in Seq(V), TeamsReady(x, S, vs),
           NEW E, \A e \in E : KnownEdge(g, x.vertexID, S, e), NEW q \in Seq(E),
           NEW A, \A v \in A : g.kind[v] \in S, NEW roots \in Seq(A),
           NEW y, y = PrintRest(g, x, q, roots)
    PROVE  ExporterOK(y, S) /\ HasFile(g, S, vs, q, roots, y.lines)
<1> DEFINE id == x.vertexID
           n == Len(q)
           T == LineSet(S)
<1>1. /\ x \in Exporters({id}, S) /\ Ranks(id) /\ Numbers(id) /\ DOMAIN x.programID = {}
      /\ Len(x.lines) = Len(vs) /\ TeamLines(id, vs, x.lines, Len(vs))
  BY DEF TeamsReady, ExporterOK, Ranks
<1>2. n \in Nat /\ Len(vs) \in Nat /\ Len(roots) \in Nat
  BY LenProperties
<1> HIDE DEF id
<1>3. PICK c : EdgesWritten(g, id, S, x, q, c)
  BY <1>1, EdgesPrinted DEF id
<1> HIDE DEF n
<1>4. /\ c[0] = x /\ c[n] = PrintEdges(g, x, q)
      /\ \A i \in 0 .. n : /\ c[i] \in Exporters({id}, S) /\ Extends(c[i].lines, c[n].lines)
                           /\ Extends(x.lines, c[i].lines)
                           /\ ProgramsNumbered(x.nbPrograms, c[i], q, i)
      /\ \A i \in 1 .. n : EdgeWritten(g, id, c[i - 1], q[i], c[i])
  BY <1>3 DEF EdgesWritten, n
<1> DEFINE r == c[n]
           z == PrintActions(g, r, roots)
           end == [shape |-> "end"]
<1>5. r \in Exporters({id}, S) /\ n \in 0 .. n
  <2>1. n \in 0 .. n
    BY <1>2 DEF n
  <2> QED BY <1>4, <2>1
<1>6. z \in Exporters({id}, S) /\ ActionsWritten(g, r, roots, z, Len(roots))
  <2> HIDE DEF r
  <2> QED BY <1>5, ActionsPrinted
<1>7. y = PrintLines(z, <<end>>)
  BY <1>4 DEF PrintRest
<1> HIDE DEF z, r
<1>8. z.lines \in Seq(T) /\ end \in T
  BY <1>6 DEF Exporters, LineSet
<1>9. y = [z EXCEPT !.lines = z.lines \o <<end>>]
  BY <1>7 DEF PrintLines
<1> DEFINE s == z.lines
           t == y.lines
<1>10. t = s \o <<end>>
  BY <1>6, <1>9 DEF Exporters
<1>11. /\ t \in Seq(T) /\ Len(t) = Len(s) + 1 /\ t[Len(s) + 1] = end /\ \A i \in 1 .. Len(s) : t[i] = s[i]
  <2> HIDE DEF s, t, T, end
  <2> QED BY <1>8, <1>10, OneLine DEF s
<1>12. y \in Exporters({id}, S) /\ y.vertexID = id
  <2>1. s \o <<end>> \in Seq(T)
    BY <1>10, <1>11
  <2> QED BY <1>6, <1>9, <2>1 DEF Exporters
<1>13. ExporterOK(y, S)
  BY <1>1, <1>12 DEF ExporterOK
<1>14. /\ Len(s) = Len(r.lines) + Len(roots) /\ Extends(r.lines, s)
       /\ \A j \in 1 .. Len(roots) : s[Len(r.lines) + j] = ActionLine(r.nbActions + (j - 1), g.kind[roots[j]])
  BY <1>6 DEF ActionsWritten
<1>15. \A i \in 0 .. n : c[i].lines \in Seq(T)
  BY <1>4 DEF Exporters
<1>16. Len(s) \in Nat /\ Len(r.lines) \in Nat
  BY <1>5, <1>8, LenProperties DEF Exporters
<1>17. Extends(s, t)
  BY <1>11, <1>16 DEF Extends
<1>18. ASSUME NEW i \in 0 .. n PROVE Extends(c[i].lines, t)
  <2> DEFINE a == c[i].lines
             b == r.lines
  <2>1. a \in Seq(T) /\ b \in Seq(T) /\ s \in Seq(T) /\ t \in Seq(T) /\ Extends(a, b) /\ Extends(b, s)
        /\ Extends(s, t)
    BY <1>4, <1>5, <1>8, <1>11, <1>14, <1>15, <1>17 DEF r
  <2> HIDE DEF a, b, s, t, T
  <2>2. Extends(a, s)
    BY <2>1, ExtendsFacts
  <2>3. Extends(a, t)
    BY <2>1, <2>2, ExtendsFacts
  <2> QED BY <2>3 DEF a, t
<1> DEFINE w == [teams |-> vs, edges |-> q, roots |-> roots, id |-> id, at |-> c]
<1>19. FileTeams(w, t)
  <2>1. 0 \in 0 .. n /\ Extends(x.lines, t)
    BY <1>2, <1>4, <1>18
  <2>2. TeamLines(id, vs, t, Len(vs))
    BY <1>1, <2>1 DEF TeamLines, Extends
  <2> QED BY <1>1, <1>4, <2>2 DEF FileTeams
<1>20. FileEdges(g, S, w, t)
  <2>1. \A i \in 0 .. n : /\ c[i] \in Exporters({id}, S) /\ Len(vs) <= Len(c[i].lines)
                          /\ ProgramsNumbered(c[0].nbPrograms, c[i], q, i)
    BY <1>1, <1>4 DEF Extends
  <2>2. ASSUME NEW i \in 1 .. n PROVE BlockAt(g, id, t, c[i - 1], q[i], c[i])
    <3> DEFINE a == c[i - 1]
               b == c[i]
               e == q[i]
    <3>1. i - 1 \in 0 .. n /\ i \in 0 .. n
      BY <1>2
    <3>2. a \in Exporters({id}, S) /\ b \in Exporters({id}, S) /\ EdgeWritten(g, id, a, e, b) /\ Extends(b.lines, t)
      BY <1>4, <1>18, <3>1
    <3> HIDE DEF a, b, e, t
    <3>3. BlockAt(g, id, t, a, e, b)
      BY <3>2, BlockKept
    <3> QED BY <3>3 DEF a, b, e
  <2> QED BY <2>1, <2>2 DEF FileEdges, n
<1>21. FileFooter(g, w, t)
  <2>1. Len(t) = Len(r.lines) + Len(roots) + 1 /\ t[Len(t)] = end
    BY <1>2, <1>11, <1>14, <1>16
  <2>2. ASSUME NEW j \in 1 .. Len(roots)
        PROVE  t[Len(r.lines) + j] = ActionLine(r.nbActions + (j - 1), g.kind[roots[j]])
    <3>1. Len(r.lines) + j \in 1 .. Len(s)
      BY <1>2, <1>14, <1>16
    <3> QED BY <1>11, <1>14, <3>1
  <2> QED BY <2>1, <2>2 DEF FileFooter, r, n
<1>22. IsFile(g, S, w, t)
  BY <1>19, <1>20, <1>21 DEF IsFile
<1>23. w.teams = vs /\ w.edges = q /\ w.roots = roots
  OBVIOUS
<1> HIDE DEF w
<1> QED BY <1>13, <1>22, <1>23 DEF HasFile

-----------------------------------------------------------------------------
(* What the importer has read of the file w.  The place r: teams and edges read, lines read of the edge
   that comes next, and lines read of the footer *)

EdgeRecords == [id : Nat, src : Nat, dst : Nat, prog : Nat]

ReadGraphs(S) == [vertices : Seq(Nat), kind : MapsOf(Nat, S \cup {Team}), edges : Seq(EdgeRecords)]

Importers(S) ==
    [graph : ReadGraphs(S),
     vertexID : MapsOf(Nat, Nat), programID : MapsOf(Nat, Nat), actionID : MapsOf(S, Nat),
     actionLabel : MapsOf(Nat, S), content : Seq([constants : S, lines : SUBSET S])]

(* The edges of a file, as they can be read, are between its teams or go to an action, and edges of a
   program have the same destination. *)
FileSense(g, S, w) ==
    /\ Distinct(w.teams) /\ Len(w.teams) \in Nat /\ Len(w.edges) \in Nat /\ Len(w.roots) \in Nat
    /\ DOMAIN w.teams = 1 .. Len(w.teams)
    /\ \A i \in 1 .. Len(w.edges) :
          LET e == w.edges[i]
          IN  /\ e.src \in ToSet(w.teams) /\ IsTeam(g, e.src) /\ e.prog \in S
              /\ IsAction(g, e.dst) => g.kind[e.dst] \in S
              /\ IsTeam(g, e.dst) => e.dst \in ToSet(w.teams)
    /\ \A i, j \in 1 .. Len(w.edges) : w.edges[i].prog = w.edges[j].prog => w.edges[i].dst = w.edges[j].dst
    /\ \A j \in 1 .. Len(w.roots) : IsAction(g, w.roots[j]) /\ g.kind[w.roots[j]] \in S

Before(w, r) == w.at[r.edges]
Coming(w, r) == w.edges[r.edges + 1]

IsPlace(g, w, r) ==
    /\ r \in [teams : 0 .. Len(w.teams), edges : 0 .. Len(w.edges), lines : 0 .. 4, roots : 0 .. Len(w.roots)]
    /\ r.teams < Len(w.teams) => r.edges = 0 /\ r.lines = 0 /\ r.roots = 0
    /\ r.roots > 0 => r.edges = Len(w.edges) /\ r.lines = 0
    /\ r.lines > 0 => /\ r.edges < Len(w.edges) /\ Coming(w, r).prog \notin DOMAIN Before(w, r).programID
                      /\ r.lines < FirstWidth(g, Coming(w, r))

Position(w, r) ==
    IF r.teams < Len(w.teams) THEN r.teams + 1 ELSE Len(Before(w, r).lines) + 1 + r.lines + r.roots

(* The lines a reader meets *)
AtTeam(w, r, line) ==
    r.teams < Len(w.teams) /\ line = TeamLine(w.id, w.teams[r.teams + 1])

AtEdge(w, r) == r.teams = Len(w.teams) /\ r.edges < Len(w.edges) /\ r.roots = 0

AtShared(w, r, line) ==
    /\ AtEdge(w, r) /\ r.lines = 0 /\ Coming(w, r).prog \in DOMAIN Before(w, r).programID
    /\ line = SharedLine(w.id[Coming(w, r).src], Before(w, r).programID[Coming(w, r).prog])

AtFirst(w, r, k) ==
    AtEdge(w, r) /\ r.lines = k /\ Coming(w, r).prog \notin DOMAIN Before(w, r).programID

AtConstants(w, r, line) ==
    AtFirst(w, r, 0) /\ line = ConstantsLine(Before(w, r).nbPrograms, Coming(w, r).prog)

AtInstructions(w, r, line) ==
    AtFirst(w, r, 1) /\ line = InstructionsLine(Before(w, r).nbPrograms, Coming(w, r).prog)

AtProgram(w, r, line) == AtFirst(w, r, 2) /\ line = ProgramLine(Before(w, r).nbPrograms)

AtAction(g, w, r, line) ==
    /\ AtFirst(w, r, 3) /\ IsAction(g, Coming(w, r).dst)
    /\ line = ActionLine(Before(w, r).nbActions, g.kind[Coming(w, r).dst])

AtToAction(g, w, r, line) ==
    /\ AtFirst(w, r, 4) /\ IsAction(g, Coming(w, r).dst)
    /\ line = ToActionLine(w.id[Coming(w, r).src], Before(w, r).nbPrograms, Before(w, r).nbActions)

AtToTeam(g, w, r, line) ==
    /\ AtFirst(w, r, 3) /\ IsTeam(g, Coming(w, r).dst)
    /\ line = ToTeamLine(w.id[Coming(w, r).src], Before(w, r).nbPrograms, w.id[Coming(w, r).dst])

AtFooter(w, r) == r.teams = Len(w.teams) /\ r.edges = Len(w.edges) /\ r.lines = 0

AtRoot(g, w, r, line) ==
    /\ AtFooter(w, r) /\ r.roots < Len(w.roots)
    /\ line = ActionLine(Before(w, r).nbActions + r.roots, g.kind[w.roots[r.roots + 1]])

AtEnd(w, r, line) == AtFooter(w, r) /\ r.roots = Len(w.roots) /\ line = [shape |-> "end"]

AtALine(g, w, r, line) ==
    \/ AtTeam(w, r, line) \/ AtShared(w, r, line) \/ AtConstants(w, r, line) \/ AtInstructions(w, r, line)
    \/ AtProgram(w, r, line) \/ AtAction(g, w, r, line) \/ AtToAction(g, w, r, line)
    \/ AtToTeam(g, w, r, line) \/ AtRoot(g, w, r, line) \/ AtEnd(w, r, line)

LEMMA LineMet ==
    ASSUME NEW g, NEW S, NEW w, NEW lines, FileSense(g, S, w), IsFile(g, S, w, lines),
           NEW r, IsPlace(g, w, r)
    PROVE  AtALine(g, w, r, lines[Position(w, r)])
<1> DEFINE m == Len(w.teams)
           n == Len(w.edges)
           x == Before(w, r)
           e == Coming(w, r)
           line == lines[Position(w, r)]
<1>1. /\ m \in Nat /\ n \in Nat /\ Len(w.roots) \in Nat
      /\ r.teams \in 0 .. m /\ r.edges \in 0 .. n /\ r.lines \in 0 .. 4 /\ r.roots \in 0 .. Len(w.roots)
  BY DEF FileSense, IsPlace
<1>2. CASE r.teams < m
  <2>1. line = lines[r.teams + 1] /\ r.teams + 1 \in 1 .. m
    BY <1>1, <1>2 DEF Position
  <2>2. line = TeamLine(w.id, w.teams[r.teams + 1])
    BY <2>1 DEF IsFile, FileTeams, TeamLines
  <2> QED BY <1>2, <2>2 DEF AtTeam, AtALine
<1>3. CASE r.teams = m /\ r.edges < n
  <2>1. r.roots = 0 /\ AtEdge(w, r)
    BY <1>1, <1>3 DEF IsPlace, AtEdge
  <2>2. /\ r.edges + 1 \in 1 .. n /\ (r.edges + 1) - 1 = r.edges /\ r.edges \in 0 .. n
    BY <1>1, <1>3
  <2>3. x \in Exporters({w.id}, S) /\ Len(x.lines) \in Nat
    BY <2>2, LenProperties DEF IsFile, FileEdges, Before, Exporters
  <2> DEFINE b == Len(x.lines) + 1
  <2>4. Position(w, r) = b + r.lines
    BY <1>1, <1>3, <2>1, <2>3 DEF Position
  <2>5. BlockAt(g, w.id, lines, x, e, w.at[r.edges + 1])
    BY <2>2 DEF IsFile, FileEdges, Before, Coming
  <2>6. CASE e.prog \in DOMAIN x.programID
    <3>1. r.lines = 0 /\ Position(w, r) = b
      BY <1>1, <2>3, <2>4, <2>6 DEF IsPlace
    <3>2. line = SharedLine(w.id[e.src], x.programID[e.prog])
      BY <2>5, <2>6, <3>1 DEF BlockAt
    <3> QED BY <2>1, <2>6, <3>1, <3>2 DEF AtShared, AtALine
  <2>7. CASE e.prog \notin DOMAIN x.programID
    <3>1. FirstUseLines(g, w.id, x.nbPrograms, x.nbActions, e, lines, b)
      BY <2>5, <2>7 DEF BlockAt
    <3>2. AtFirst(w, r, r.lines)
      BY <2>1, <2>7 DEF AtFirst
    <3>3. CASE r.lines = 0
      <4>1. line = ConstantsLine(x.nbPrograms, e.prog)
        BY <2>3, <2>4, <3>1, <3>3 DEF FirstUseLines
      <4> QED BY <3>2, <3>3, <4>1 DEF AtConstants, AtALine
    <3>4. CASE r.lines = 1
      <4>1. line = InstructionsLine(x.nbPrograms, e.prog)
        BY <2>3, <2>4, <3>1, <3>4 DEF FirstUseLines
      <4> QED BY <3>2, <3>4, <4>1 DEF AtInstructions, AtALine
    <3>5. CASE r.lines = 2
      <4>1. line = ProgramLine(x.nbPrograms)
        BY <2>3, <2>4, <3>1, <3>5 DEF FirstUseLines
      <4> QED BY <3>2, <3>5, <4>1 DEF AtProgram, AtALine
    <3>6. CASE r.lines = 3 /\ IsAction(g, e.dst)
      <4>1. line = ActionLine(x.nbActions, g.kind[e.dst])
        BY <2>3, <2>4, <3>1, <3>6 DEF FirstUseLines
      <4> QED BY <3>2, <3>6, <4>1 DEF AtAction, AtALine
    <3>7. CASE r.lines = 3 /\ ~ IsAction(g, e.dst)
      <4>1. IsTeam(g, e.dst)
        BY <3>7 DEF IsAction, IsTeam
      <4>2. line = ToTeamLine(w.id[e.src], x.nbPrograms, w.id[e.dst])
        BY <2>3, <2>4, <3>1, <3>7, <4>1 DEF FirstUseLines
      <4> QED BY <3>2, <3>7, <4>1, <4>2 DEF AtToTeam, AtALine
    <3>8. CASE r.lines = 4
      <4>1. IsAction(g, e.dst)
        BY <1>1, <3>8 DEF IsPlace, FirstWidth
      <4>2. line = ToActionLine(w.id[e.src], x.nbPrograms, x.nbActions)
        BY <2>3, <2>4, <3>1, <3>8, <4>1 DEF FirstUseLines
      <4> QED BY <3>2, <3>8, <4>1, <4>2 DEF AtToAction, AtALine
    <3>9. r.lines \in {0, 1, 2, 3, 4}
      BY <1>1
    <3> QED BY <3>3, <3>4, <3>5, <3>6, <3>7, <3>8, <3>9
  <2> QED BY <2>6, <2>7
<1>4. CASE r.teams = m /\ r.edges = n
  <2>1. r.lines = 0 /\ AtFooter(w, r) /\ n \in 0 .. n
    BY <1>1, <1>4 DEF IsPlace, AtFooter
  <2>2. x = w.at[n] /\ x \in Exporters({w.id}, S) /\ Len(x.lines) \in Nat
    BY <1>4, <2>1, LenProperties DEF IsFile, FileEdges, Before, Exporters
  <2>3. /\ Len(lines) = Len(x.lines) + Len(w.roots) + 1 /\ lines[Len(lines)] = [shape |-> "end"]
        /\ \A j \in 1 .. Len(w.roots) :
              lines[Len(x.lines) + j] = ActionLine(x.nbActions + (j - 1), g.kind[w.roots[j]])
    BY <2>2 DEF IsFile, FileFooter
  <2>4. Position(w, r) = Len(x.lines) + (r.roots + 1)
    <3> DEFINE k == Len(x.lines)
               h == Len(w.roots)
               j == r.roots
    <3>1. Position(w, r) = k + 1 + r.lines + j /\ r.lines = 0
      BY <1>1, <1>4, <2>1 DEF Position
    <3>2. k \in Nat /\ h \in Nat /\ j \in 0 .. h
      BY <1>1, <2>2
    <3> HIDE DEF k, h, j
    <3>3. Position(w, r) = k + (j + 1)
      BY <3>1, <3>2
    <3> QED BY <3>3 DEF k, j
  <2>5. CASE r.roots < Len(w.roots)
    <3>1. r.roots + 1 \in 1 .. Len(w.roots) /\ (r.roots + 1) - 1 = r.roots
      BY <1>1, <2>5
    <3>2. line = ActionLine(x.nbActions + r.roots, g.kind[w.roots[r.roots + 1]])
      BY <2>3, <2>4, <3>1
    <3> QED BY <2>1, <2>5, <3>2 DEF AtRoot, AtALine
  <2>6. CASE ~ (r.roots < Len(w.roots))
    <3>1. r.roots = Len(w.roots) /\ Position(w, r) = Len(lines)
      <4> DEFINE k == Len(x.lines)
                 h == Len(w.roots)
                 j == r.roots
      <4>1. k \in Nat /\ h \in Nat /\ j \in 0 .. h /\ ~ (j < h) /\ Position(w, r) = k + (j + 1)
            /\ Len(lines) = k + h + 1
        BY <1>1, <2>2, <2>3, <2>4, <2>6
      <4> HIDE DEF k, h, j
      <4>2. j = h /\ Position(w, r) = Len(lines)
        BY <4>1
      <4> QED BY <4>2 DEF h, j
    <3> QED BY <2>1, <2>3, <3>1 DEF AtEnd, AtALine
  <2> QED BY <2>5, <2>6
<1>5. r.teams < m \/ (r.teams = m /\ r.edges < n) \/ (r.teams = m /\ r.edges = n)
  BY <1>1
<1> QED BY <1>2, <1>3, <1>4, <1>5

-----------------------------------------------------------------------------
(* What the importer knows at the place r *)

VerticesKnown(w, G, r) ==
    /\ DOMAIN G.kind = 1 .. Len(G.vertices) /\ r.teams <= Len(G.vertices)
    /\ r.teams < Len(w.teams) => Len(G.vertices) = r.teams
    /\ \A v \in 1 .. Len(G.vertices) : G.vertices[v] = v /\ (G.kind[v] = Team <=> v <= r.teams)

TeamsKnown(w, m, r) ==
    /\ DOMAIN m.vertexID = {w.id[w.teams[t]] : t \in 1 .. r.teams}
    /\ \A t \in 1 .. r.teams : m.vertexID[w.id[w.teams[t]]] = t

PrintedLabels(g, w) ==
    {g.kind[w.edges[i].dst] : i \in {j \in 1 .. Len(w.edges) : IsAction(g, w.edges[j].dst)}}
        \cup {g.kind[w.roots[j]] : j \in 1 .. Len(w.roots)}

ActionsKnown(g, w, G, ids, r) ==
    /\ DOMAIN ids \subseteq PrintedLabels(g, w)
    /\ \A l \in DOMAIN ids : ids[l] \in r.teams + 1 .. Len(G.vertices) /\ G.kind[ids[l]] = l
    /\ \A v \in r.teams + 1 .. Len(G.vertices) : G.kind[v] \in DOMAIN ids /\ ids[G.kind[v]] = v
    /\ \A j \in 1 .. r.roots : g.kind[w.roots[j]] \in DOMAIN ids

LabelsKnown(g, w, labels, ids, r) ==
    LET a == Before(w, r).nbActions
        l == g.kind[Coming(w, r).dst]
    IN  /\ \A n \in DOMAIN labels : n < a + IF r.lines = 4 THEN 1 ELSE r.roots
        /\ r.lines = 4 => a \in DOMAIN labels /\ labels[a] = l /\ l \in DOMAIN ids

FirstProgram(w) == w.at[0].nbPrograms

NumberOf(w, r, p) == Before(w, r).programID[p] - FirstProgram(w) + 1

ProgramsKnown(w, m, r) ==
    LET b == Before(w, r).nbPrograms
        n == IF r.lines > 0 THEN b + 1 ELSE b
        p == Coming(w, r).prog
    IN  /\ Len(m.content) = n - FirstProgram(w)
        /\ DOMAIN m.programID = FirstProgram(w) .. n - 1
        /\ \A k \in FirstProgram(w) .. n - 1 : m.programID[k] = k - FirstProgram(w) + 1
        /\ \A q \in DOMAIN Before(w, r).programID :
              m.content[NumberOf(w, r, q)] = [constants |-> q, lines |-> {q}]
        /\ r.lines > 0 => m.content[b - FirstProgram(w) + 1]
                             = [constants |-> p, lines |-> IF r.lines = 1 THEN {} ELSE {p}]

EndRead(g, w, G, a, v) ==
    IF IsTeam(g, v) THEN a \in 1 .. Len(w.teams) /\ w.teams[a] = v
    ELSE a \in 1 .. Len(G.vertices) /\ G.kind[a] = g.kind[v]

EdgeRead(g, w, G, n, e, f) ==
    /\ e.src \in 1 .. Len(w.teams) /\ w.teams[e.src] = f.src
    /\ EndRead(g, w, G, e.dst, f.dst) /\ e.prog = n

EdgesKnown(g, w, G, r) ==
    /\ Len(G.edges) = r.edges
    /\ \A t \in 1 .. r.edges : EdgeRead(g, w, G, NumberOf(w, r, w.edges[t].prog), G.edges[t], w.edges[t])

Progress(g, S, w, m, p, r) ==
    /\ IsPlace(g, w, r) /\ p = Position(w, r) /\ m \in Importers(S)
    /\ VerticesKnown(w, m.graph, r) /\ TeamsKnown(w, m, r)
    /\ ActionsKnown(g, w, m.graph, m.actionID, r) /\ LabelsKnown(g, w, m.actionLabel, m.actionID, r)
    /\ ProgramsKnown(w, m, r) /\ EdgesKnown(g, w, m.graph, r)

AtWork(g, S, w, lines, m, p, r) ==
    FileSense(g, S, w) /\ IsFile(g, S, w, lines) /\ Progress(g, S, w, m, p, r)

VertexAdd(G, k, H) ==
    LET n == Len(G.vertices)
    IN  /\ n \in Nat /\ Len(H.vertices) = n + 1 /\ DOMAIN H.kind = 1 .. n + 1 /\ H.edges = G.edges
        /\ \A v \in 1 .. n : H.vertices[v] = G.vertices[v] /\ H.kind[v] = G.kind[v]
        /\ H.vertices[n + 1] = n + 1 /\ H.kind[n + 1] = k

LEMMA VertexAdded ==
    ASSUME NEW S, NEW G \in ReadGraphs(S), DOMAIN G.kind = 1 .. Len(G.vertices), NEW k \in S \cup {Team},
           NEW H, H = AddVertex(G, Len(G.vertices) + 1, k)
    PROVE  H \in ReadGraphs(S) /\ VertexAdd(G, k, H)
<1> DEFINE n == Len(G.vertices)
           vs == Append(G.vertices, n + 1)
           K == [w \in DOMAIN G.kind \cup {n + 1} |-> IF w = n + 1 THEN k ELSE G.kind[w]]
<1>1. G.vertices \in Seq(Nat) /\ n \in Nat /\ G.kind \in MapsOf(Nat, S \cup {Team}) /\ G.edges \in Seq(EdgeRecords)
  BY LenProperties DEF ReadGraphs
<1>2. /\ vs \in Seq(Nat) /\ Len(vs) = n + 1 /\ vs[n + 1] = n + 1
      /\ \A i \in 1 .. n : vs[i] = G.vertices[i]
  <2> DEFINE s == G.vertices
             x == n + 1
  <2>1. s \in Seq(Nat) /\ x \in Nat /\ n = Len(s)
    BY <1>1
  <2> HIDE DEF s, x, n
  <2>2. /\ Append(s, x) \in Seq(Nat) /\ Len(Append(s, x)) = Len(s) + 1 /\ Append(s, x)[Len(s) + 1] = x
        /\ \A i \in 1 .. Len(s) : Append(s, x)[i] = s[i]
    BY <2>1, AppendProperties
  <2> QED BY <2>1, <2>2 DEF s, x
<1>3. H.vertices = vs /\ H.kind = K /\ H.edges = G.edges /\ H = [vertices |-> vs, kind |-> K, edges |-> G.edges]
  BY DEF AddVertex, ReadGraphs
<1>4. DOMAIN K = 1 .. n + 1 /\ K[n + 1] = k /\ \A v \in 1 .. n : K[v] = G.kind[v]
  <2>1. DOMAIN K = (1 .. n) \cup {n + 1}
    OBVIOUS
  <2>2. (1 .. n) \cup {n + 1} = 1 .. n + 1 /\ n + 1 \notin 1 .. n
    BY <1>1
  <2> QED BY <2>1, <2>2
<1>5. K \in MapsOf(Nat, S \cup {Team})
  <2>1. \A v \in 1 .. n : G.kind[v] \in S \cup {Team}
    BY <1>1, MapFacts
  <2>2. K \in [1 .. n + 1 -> S \cup {Team}] /\ 1 .. n + 1 \subseteq Nat
    <3>1. \A v \in 1 .. n + 1 : K[v] \in S \cup {Team}
      <4>1. \A v \in 1 .. n + 1 : v \in 1 .. n \/ v = n + 1
        BY <1>1
      <4> QED BY <1>4, <2>1, <4>1
    <3>2. K = [v \in DOMAIN K |-> K[v]]
      OBVIOUS
    <3> HIDE DEF K
    <3> QED BY <1>1, <1>4, <3>1, <3>2
  <2> QED BY <2>2 DEF MapsOf
<1> HIDE DEF vs, K
<1>6. H \in ReadGraphs(S)
  BY <1>1, <1>2, <1>3, <1>5 DEF ReadGraphs
<1> QED BY <1>1, <1>2, <1>3, <1>4, <1>6 DEF VertexAdd

-----------------------------------------------------------------------------
(* The shape of a line tells what it is. *)

LEMMA LineShapes ==
    ASSUME NEW g, NEW w, NEW r, NEW line, AtALine(g, w, r, line)
    PROVE  /\ line.shape = "T" => AtTeam(w, r, line)
           /\ line.shape = "P" => AtConstants(w, r, line)
           /\ line.shape = "I" => AtInstructions(w, r, line)
           /\ line.shape = "P->I" => AtProgram(w, r, line)
           /\ line.shape = "A" => AtAction(g, w, r, line) \/ AtRoot(g, w, r, line)
           /\ line.shape = "T->P->A" => AtToAction(g, w, r, line)
           /\ line.shape = "T->P->T" => AtToTeam(g, w, r, line)
           /\ line.shape = "T->P" => AtShared(w, r, line)
           /\ line.shape = "end" => AtEnd(w, r, line)
<1>1. /\ AtTeam(w, r, line) => line.shape = "T"
      /\ AtConstants(w, r, line) => line.shape = "P"
      /\ AtInstructions(w, r, line) => line.shape = "I"
      /\ AtProgram(w, r, line) => line.shape = "P->I"
  BY DEF AtTeam, AtConstants, AtInstructions, AtProgram, TeamLine, ConstantsLine, InstructionsLine, ProgramLine
<1>2. /\ AtAction(g, w, r, line) \/ AtRoot(g, w, r, line) => line.shape = "A"
      /\ AtToAction(g, w, r, line) => line.shape = "T->P->A"
      /\ AtToTeam(g, w, r, line) => line.shape = "T->P->T"
  BY DEF AtAction, AtRoot, AtToAction, AtToTeam, ActionLine, ToActionLine, ToTeamLine
<1>3. /\ AtShared(w, r, line) => line.shape = "T->P"
      /\ AtEnd(w, r, line) => line.shape = "end"
  BY DEF AtShared, AtEnd, SharedLine
<1> QED BY <1>1, <1>2, <1>3 DEF AtALine

LEMMA LineRead ==
    ASSUME NEW g, NEW S, NEW w, NEW r, AtWork(g, S, w, exporter.lines, importer, pos, r)
    PROVE  AtALine(g, w, r, Line)
BY LineMet DEF AtWork, Progress, Line

LEMMA PlaceFacts ==
    ASSUME NEW g, NEW S, NEW w, NEW r, NEW lines, FileSense(g, S, w), IsFile(g, S, w, lines), IsPlace(g, w, r)
    PROVE  /\ Len(w.teams) \in Nat /\ Len(w.edges) \in Nat /\ Len(w.roots) \in Nat
           /\ r.teams \in 0 .. Len(w.teams) /\ r.edges \in 0 .. Len(w.edges) /\ r.lines \in 0 .. 4
           /\ r.roots \in 0 .. Len(w.roots)
           /\ Before(w, r) \in Exporters({w.id}, S) /\ Len(Before(w, r).lines) \in Nat
           /\ Len(w.at[0].lines) = Len(w.teams) /\ FirstProgram(w) \in Nat
           /\ ProgramsNumbered(FirstProgram(w), Before(w, r), w.edges, r.edges)
<1>1. /\ Len(w.teams) \in Nat /\ Len(w.edges) \in Nat /\ Len(w.roots) \in Nat
      /\ r.teams \in 0 .. Len(w.teams) /\ r.edges \in 0 .. Len(w.edges) /\ r.lines \in 0 .. 4
      /\ r.roots \in 0 .. Len(w.roots)
  BY DEF FileSense, IsPlace
<1>2. /\ Before(w, r) \in Exporters({w.id}, S)
      /\ ProgramsNumbered(FirstProgram(w), Before(w, r), w.edges, r.edges)
  BY <1>1 DEF IsFile, FileEdges, Before, FirstProgram
<1>3. 0 \in 0 .. Len(w.edges)
  BY <1>1
<1>4. w.at[0] \in Exporters({w.id}, S)
  BY <1>3 DEF IsFile, FileEdges
<1>5. FirstProgram(w) \in Nat
  BY <1>4 DEF FirstProgram, Exporters
<1>6. Len(w.at[0].lines) = Len(w.teams)
  BY DEF IsFile, FileTeams
<1>7. Len(Before(w, r).lines) \in Nat
  BY <1>2, LenProperties DEF Exporters
<1> QED BY <1>1, <1>2, <1>5, <1>6, <1>7

LEMMA ReadTeamStep ==
    ASSUME NEW g, NEW S, NEW w, NEW r, AtWork(g, S, w, exporter.lines, importer, pos, r), ReadTeam
    PROVE  \E s : Progress(g, S, w, importer', pos', s)
<1> DEFINE m == importer
           G == m.graph
           n == Len(w.teams)
           k == r.teams + 1
           v == w.teams[k]
           s == [teams |-> k, edges |-> 0, lines |-> 0, roots |-> 0]
           H == AddVertex(G, Len(G.vertices) + 1, Team)
           ids == Insert(m.vertexID, w.id[v], Len(G.vertices) + 1)
<1>1. AtTeam(w, r, Line)
  <2>1. Line.shape = "T"
    BY DEF ReadTeam, Reading
  <2> QED BY <2>1, LineRead, LineShapes
<1>2. /\ r.teams < n /\ Line.team = w.id[v]
  BY <1>1 DEF AtTeam, TeamLine
<1>3. /\ IsPlace(g, w, r) /\ pos = Position(w, r) /\ m \in Importers(S) /\ FileSense(g, S, w)
      /\ IsFile(g, S, w, exporter.lines)
      /\ VerticesKnown(w, G, r) /\ TeamsKnown(w, m, r)
      /\ ActionsKnown(g, w, G, m.actionID, r) /\ LabelsKnown(g, w, m.actionLabel, m.actionID, r)
      /\ ProgramsKnown(w, m, r) /\ EdgesKnown(g, w, G, r)
  BY DEF AtWork, Progress
<1>4. /\ n \in Nat /\ Len(w.edges) \in Nat /\ Len(w.roots) \in Nat /\ r.teams \in 0 .. n
      /\ r.edges = 0 /\ r.lines = 0 /\ r.roots = 0 /\ Len(w.at[0].lines) = n
  BY <1>2, <1>3, PlaceFacts DEF IsPlace
<1>5. k \in 1 .. n /\ Len(G.vertices) = r.teams /\ k \in Nat /\ k = Len(G.vertices) + 1
  BY <1>2, <1>3, <1>4 DEF VerticesKnown
<1>6. importer' = [m EXCEPT !.vertexID = ids, !.graph = H] /\ pos' = pos + 1
  BY <1>2 DEF ReadTeam, Read, NewVertex
<1>7. /\ G \in ReadGraphs(S) /\ m.vertexID \in MapsOf(Nat, Nat) /\ w.id[v] \in Nat
  <2>1. w.id[v] \in Nat
    BY <1>3, <1>5 DEF IsFile, FileTeams, TeamLines, Ranks, Numbers
  <2> QED BY <1>3, <2>1 DEF Importers
<1>8. H \in ReadGraphs(S) /\ VertexAdd(G, Team, H)
  BY <1>3, <1>7, VertexAdded DEF VerticesKnown
<1>9. ids \in MapsOf(Nat, Nat) /\ DOMAIN ids = DOMAIN m.vertexID \cup {w.id[v]}
      /\ (\A y \in DOMAIN m.vertexID : ids[y] = m.vertexID[y])
      /\ (w.id[v] \notin DOMAIN m.vertexID => ids[w.id[v]] = k)
  <2> DEFINE a == m.vertexID
             b == w.id[v]
             c == Len(G.vertices) + 1
  <2>1. a \in MapsOf(Nat, Nat) /\ b \in Nat /\ c \in Nat /\ c = k
    BY <1>5, <1>7
  <2> HIDE DEF a, b, c
  <2>2. Insert(a, b, c) \in MapsOf(Nat, Nat)
    BY <2>1, NumberInserted
  <2>3. InsertedIn(a, b, c, Insert(a, b, c))
    BY Inserted
  <2> QED BY <2>1, <2>2, <2>3 DEF InsertedIn, a, b, c
<1> HIDE DEF H, ids
<1>10. /\ importer'.graph = H /\ importer'.vertexID = ids /\ importer'.actionID = m.actionID
       /\ importer'.actionLabel = m.actionLabel /\ importer'.programID = m.programID
       /\ importer'.content = m.content /\ importer' \in Importers(S)
  BY <1>3, <1>6, <1>8, <1>9 DEF Importers
<1>11. IsPlace(g, w, s) /\ pos' = Position(w, s)
  <2>1. IsPlace(g, w, s)
    BY <1>4, <1>5 DEF IsPlace
  <2>2. pos = k
    BY <1>2, <1>3 DEF Position
  <2>3. Before(w, s) = w.at[0]
    BY DEF Before
  <2>4. pos' = k + 1
    BY <1>6, <2>2
  <2>5. Position(w, s) = IF k < n THEN k + 1 ELSE Len(w.at[0].lines) + 1 + 0 + 0
    BY <2>3 DEF Position
  <2>6. Position(w, s) = k + 1
    <3>1. k < n \/ k = n
      BY <1>4, <1>5
    <3> QED BY <1>4, <2>5, <3>1
  <2> QED BY <2>1, <2>4, <2>6
<1>12. VerticesKnown(w, H, s)
  <2>1. \A x \in 1 .. k : x \in 1 .. r.teams \/ x = k
    BY <1>4, <1>5
  <2>2. Len(H.vertices) = k /\ DOMAIN H.kind = 1 .. k
    BY <1>5, <1>8 DEF VertexAdd
  <2>3. \A x \in 1 .. k : H.vertices[x] = x /\ H.kind[x] = Team
    <3>1. H.vertices[k] = k /\ H.kind[k] = Team
      BY <1>5, <1>8 DEF VertexAdd
    <3>2. \A x \in 1 .. r.teams : G.vertices[x] = x /\ G.kind[x] = Team
      BY <1>3, <1>4, <1>5 DEF VerticesKnown
    <3>3. \A x \in 1 .. r.teams : H.vertices[x] = G.vertices[x] /\ H.kind[x] = G.kind[x]
      BY <1>5, <1>8 DEF VertexAdd
    <3> QED BY <2>1, <3>1, <3>2, <3>3
  <2>4. s.teams = k /\ k <= k /\ \A x \in 1 .. k : x <= k
    BY <1>5
  <2> HIDE DEF s, k
  <2> QED BY <2>2, <2>3, <2>4 DEF VerticesKnown
<1>13. TeamsKnown(w, importer', s)
  <2>1. 1 .. k = (1 .. r.teams) \cup {k}
    BY <1>4, <1>5
  <2>2. ASSUME NEW t \in 1 .. r.teams PROVE w.id[w.teams[t]] # w.id[v]
    <3>1. t \in 1 .. n /\ t # k
      BY <1>4, <1>5
    <3>2. w.teams[t] # w.teams[k]
      BY <1>3, <1>5, <3>1 DEF FileSense, Distinct
    <3>3. w.teams[t] \in DOMAIN w.id /\ w.teams[k] \in DOMAIN w.id
      BY <1>3, <1>5, <3>1 DEF IsFile, FileTeams, TeamLines
    <3> QED BY <1>3, <3>2, <3>3 DEF IsFile, FileTeams, Ranks
  <2>3. w.id[v] \notin DOMAIN m.vertexID
    BY <1>3, <2>2 DEF TeamsKnown
  <2>4. DOMAIN ids = {w.id[w.teams[t]] : t \in 1 .. k}
    <3>1. DOMAIN m.vertexID = {w.id[w.teams[t]] : t \in 1 .. r.teams}
      BY <1>3 DEF TeamsKnown
    <3>2. DOMAIN ids = DOMAIN m.vertexID \cup {w.id[w.teams[k]]}
      BY <1>9
    <3> HIDE DEF k
    <3>3. {w.id[w.teams[t]] : t \in (1 .. r.teams) \cup {k}} =
              {w.id[w.teams[t]] : t \in 1 .. r.teams} \cup {w.id[w.teams[k]]}
      OBVIOUS
    <3> QED BY <2>1, <3>1, <3>2, <3>3
  <2>5. ASSUME NEW t \in 1 .. k PROVE ids[w.id[w.teams[t]]] = t
    <3>1. CASE t = k
      BY <1>9, <2>3, <3>1
    <3>2. CASE t \in 1 .. r.teams
      BY <1>3, <1>9, <3>2 DEF TeamsKnown
    <3> QED BY <2>1, <3>1, <3>2
  <2> QED BY <1>10, <2>4, <2>5 DEF TeamsKnown
<1>14. ActionsKnown(g, w, H, m.actionID, s)
  <2>1. r.teams + 1 .. Len(G.vertices) = {} /\ k + 1 .. Len(H.vertices) = {}
    BY <1>4, <1>5, <1>8 DEF VertexAdd
  <2>2. DOMAIN m.actionID = {}
    BY <1>3, <2>1 DEF ActionsKnown
  <2> QED BY <2>1, <2>2 DEF ActionsKnown
<1>15. LabelsKnown(g, w, m.actionLabel, m.actionID, s)
  <2>1. Before(w, s) = Before(w, r)
    BY <1>4 DEF Before
  <2> QED BY <1>3, <1>4, <2>1 DEF LabelsKnown
<1>16. ProgramsKnown(w, importer', s)
  <2>1. Before(w, s) = Before(w, r) /\ \A p : NumberOf(w, s, p) = NumberOf(w, r, p)
    BY <1>4 DEF Before, NumberOf
  <2> QED BY <1>3, <1>4, <1>10, <2>1 DEF ProgramsKnown
<1>17. EdgesKnown(g, w, H, s)
  BY <1>3, <1>4, <1>8 DEF EdgesKnown, VertexAdd
<1> HIDE DEF s
<1>18. Progress(g, S, w, importer', pos', s)
  BY <1>10, <1>11, <1>12, <1>13, <1>14, <1>15, <1>16, <1>17 DEF Progress
<1> QED BY <1>18

-----------------------------------------------------------------------------
(* A line of an action *)

LEMMA LabelInserted ==
    ASSUME NEW B, NEW m \in MapsOf(Nat, B), NEW k \in Nat, NEW x \in B
    PROVE  Insert(m, k, x) \in MapsOf(Nat, B)
BY InsertedTyped, Zenon

GraphGrows(G, H) ==
    /\ Len(G.vertices) \in Nat /\ Len(H.vertices) \in Nat /\ Len(G.vertices) <= Len(H.vertices) /\ H.edges = G.edges
    /\ \A v \in 1 .. Len(G.vertices) : H.kind[v] = G.kind[v]

LEMMA EdgesStay ==
    ASSUME NEW g, NEW w, NEW G, NEW H, NEW r, NEW s, EdgesKnown(g, w, G, r), GraphGrows(G, H), s.edges = r.edges
    PROVE  EdgesKnown(g, w, H, s)
<1>1. Len(H.edges) = s.edges /\ H.edges = G.edges
  BY DEF EdgesKnown, GraphGrows
<1>2. ASSUME NEW t \in 1 .. s.edges
      PROVE  EdgeRead(g, w, H, NumberOf(w, s, w.edges[t].prog), H.edges[t], w.edges[t])
  <2> DEFINE e == G.edges[t]
             f == w.edges[t]
             p == NumberOf(w, s, f.prog)
  <2>1. p = NumberOf(w, r, f.prog)
    BY DEF NumberOf, Before
  <2>2. EdgeRead(g, w, G, p, e, f)
    BY <2>1 DEF EdgesKnown
  <2> HIDE DEF e, f, p
  <2>3. e.dst \in 1 .. Len(G.vertices) => e.dst \in 1 .. Len(H.vertices) /\ H.kind[e.dst] = G.kind[e.dst]
    BY DEF GraphGrows
  <2>4. EdgeRead(g, w, H, p, e, f)
    BY <2>2, <2>3 DEF EdgeRead, EndRead
  <2> QED BY <1>1, <2>4 DEF e, f, p
<1> QED BY <1>1, <1>2 DEF EdgesKnown

Learnt(g, S, w, ids, l, s, H, new) ==
    /\ H \in ReadGraphs(S) /\ new \in MapsOf(S, Nat) /\ DOMAIN new = DOMAIN ids \cup {l}
    /\ VerticesKnown(w, H, s) /\ ActionsKnown(g, w, H, new, s) /\ EdgesKnown(g, w, H, s)

LEMMA ActionLearnt ==
    ASSUME NEW g, NEW S, NEW w, NEW G \in ReadGraphs(S), NEW ids \in MapsOf(S, Nat), NEW r, NEW s,
           r.teams = Len(w.teams), s.teams = r.teams, r.teams \in Nat, s.edges = r.edges,
           VerticesKnown(w, G, r), ActionsKnown(g, w, G, ids, r), EdgesKnown(g, w, G, r),
           NEW l \in S, l # Team, l \in PrintedLabels(g, w),
           \A j \in 1 .. s.roots : g.kind[w.roots[j]] \in DOMAIN ids \cup {l},
           NEW H, H = (IF l \in DOMAIN ids THEN G ELSE AddVertex(G, Len(G.vertices) + 1, l)),
           NEW new, new = Insert(ids, l, Len(G.vertices) + 1)
    PROVE  Learnt(g, S, w, ids, l, s, H, new)
<1> DEFINE N == Len(G.vertices)
           k == r.teams
<1>1. /\ N \in Nat /\ k \in Nat /\ k <= N /\ DOMAIN G.kind = 1 .. N
      /\ \A v \in 1 .. N : G.vertices[v] = v /\ (G.kind[v] = Team <=> v <= k)
  BY LenProperties DEF ReadGraphs, VerticesKnown
<1>2. /\ DOMAIN ids \subseteq PrintedLabels(g, w)
      /\ \A a \in DOMAIN ids : ids[a] \in k + 1 .. N /\ G.kind[ids[a]] = a
      /\ \A v \in k + 1 .. N : G.kind[v] \in DOMAIN ids /\ ids[G.kind[v]] = v
  BY DEF ActionsKnown
<1>3. CASE l \in DOMAIN ids
  <2>1. new = ids /\ H = G
    <3> DEFINE x == N + 1
    <3>1. IsMap(ids)
      BY NumbersAre
    <3> HIDE DEF x
    <3>2. InsertedIn(ids, l, x, Insert(ids, l, x))
      BY Inserted
    <3> QED BY <1>3, <3>1, <3>2 DEF InsertedIn, x
  <2>2. DOMAIN ids \cup {l} = DOMAIN ids
    BY <1>3
  <2>3. VerticesKnown(w, H, s)
    BY <2>1 DEF VerticesKnown
  <2>4. ActionsKnown(g, w, H, new, s)
    BY <1>2, <2>1, <2>2 DEF ActionsKnown
  <2>5. EdgesKnown(g, w, H, s)
    <3>1. GraphGrows(G, H)
      BY <1>1, <2>1 DEF GraphGrows
    <3> QED BY <3>1, EdgesStay
  <2> QED BY <2>1, <2>2, <2>3, <2>4, <2>5 DEF Learnt
<1>4. CASE l \notin DOMAIN ids
  <2>1. H \in ReadGraphs(S) /\ VertexAdd(G, l, H)
    <3>1. l \in S \cup {Team} /\ H = AddVertex(G, Len(G.vertices) + 1, l)
      BY <1>4
    <3> QED BY <1>1, <3>1, VertexAdded
  <2>2. /\ Len(H.vertices) = N + 1 /\ DOMAIN H.kind = 1 .. N + 1 /\ H.edges = G.edges
        /\ \A v \in 1 .. N : H.vertices[v] = G.vertices[v] /\ H.kind[v] = G.kind[v]
        /\ H.vertices[N + 1] = N + 1 /\ H.kind[N + 1] = l
    BY <2>1 DEF VertexAdd
  <2>3. /\ new \in MapsOf(S, Nat) /\ DOMAIN new = DOMAIN ids \cup {l} /\ new[l] = N + 1
        /\ \A a \in DOMAIN ids : new[a] = ids[a]
    <3> DEFINE x == N + 1
    <3>1. x \in Nat
      BY <1>1
    <3> HIDE DEF x
    <3>2. InsertedIn(ids, l, x, Insert(ids, l, x))
      BY Inserted
    <3>3. Insert(ids, l, x) \in MapsOf(S, Nat)
      BY <3>1, NumberInserted
    <3> QED BY <1>4, <3>2, <3>3 DEF InsertedIn, x
  <2> HIDE DEF N, k
  <2>4. /\ N + 1 \in 1 .. N + 1 /\ N + 1 \in k + 1 .. N + 1 /\ ~ (N + 1 <= k)
        /\ \A v \in 1 .. N + 1 : v \in 1 .. N \/ v = N + 1
        /\ \A v \in k + 1 .. N + 1 : v \in k + 1 .. N \/ v = N + 1
        /\ \A v \in k + 1 .. N : v \in 1 .. N /\ v \in k + 1 .. N + 1
        /\ k <= N + 1 /\ N \in Nat /\ N + 1 \in Nat /\ N <= N + 1
    BY <1>1
  <2>5. \A v \in 1 .. N + 1 : H.vertices[v] = v /\ (H.kind[v] = Team <=> v <= k)
    BY <1>1, <2>2, <2>4
  <2>6. VerticesKnown(w, H, s)
    BY <2>2, <2>4, <2>5 DEF VerticesKnown, k
  <2>7. \A a \in DOMAIN new : new[a] \in k + 1 .. N + 1 /\ H.kind[new[a]] = a
    BY <1>2, <2>2, <2>3, <2>4
  <2>8. \A v \in k + 1 .. N + 1 : H.kind[v] \in DOMAIN new /\ new[H.kind[v]] = v
    BY <1>2, <2>2, <2>3, <2>4
  <2>9. ActionsKnown(g, w, H, new, s)
    BY <1>2, <2>2, <2>3, <2>7, <2>8 DEF ActionsKnown, k
  <2>10. EdgesKnown(g, w, H, s)
    <3>1. GraphGrows(G, H)
      BY <2>2, <2>4 DEF GraphGrows, N
    <3> QED BY <3>1, EdgesStay
  <2> QED BY <2>1, <2>3, <2>6, <2>9, <2>10 DEF Learnt
<1> QED BY <1>3, <1>4

ReadLabel(w, r, s, line) ==
    /\ line.action = Before(w, r).nbActions + r.roots
    /\ s.teams = r.teams /\ s.edges = r.edges /\ r.lines # 4
    /\ IF s.lines = 4 THEN s.roots = 0 /\ r.roots = 0 /\ r.lines = 3
       ELSE s.roots = r.roots + 1 /\ s.lines = r.lines /\ r.lines = 0

LEMMA ActionLineRead ==
    ASSUME NEW g, NEW S, NEW w, NEW r, AtWork(g, S, w, exporter.lines, importer, pos, r), ReadAction,
           NEW s, IsPlace(g, w, s), ReadLabel(w, r, s, Line), pos + 1 = Position(w, s),
           r.teams = Len(w.teams), Line.label \in S, Line.label # Team, Line.label \in PrintedLabels(g, w),
           s.lines = 4 => Line.label = g.kind[Coming(w, r).dst],
           s.lines # 4 => Line.label = g.kind[w.roots[s.roots]]
    PROVE  Progress(g, S, w, importer', pos', s)
<1> DEFINE m == importer
           G == m.graph
           l == Line.label
           n == Line.action
           H == IF l \in DOMAIN m.actionID THEN G ELSE AddVertex(G, Len(G.vertices) + 1, l)
           ids == Insert(m.actionID, l, Len(G.vertices) + 1)
           labels == Insert(m.actionLabel, n, l)
<1>1. /\ IsPlace(g, w, r) /\ pos = Position(w, r) /\ m \in Importers(S) /\ FileSense(g, S, w)
      /\ IsFile(g, S, w, exporter.lines)
      /\ VerticesKnown(w, G, r) /\ TeamsKnown(w, m, r)
      /\ ActionsKnown(g, w, G, m.actionID, r) /\ LabelsKnown(g, w, m.actionLabel, m.actionID, r)
      /\ ProgramsKnown(w, m, r) /\ EdgesKnown(g, w, G, r)
  BY DEF AtWork, Progress
<1>2. /\ r.teams \in Nat /\ r.roots \in Nat /\ Before(w, r).nbActions \in Nat /\ s.roots \in Nat
      /\ n = Before(w, r).nbActions + r.roots /\ n \in Nat
  <2>1. r.teams \in Nat /\ r.roots \in Nat /\ Before(w, r) \in Exporters({w.id}, S)
    BY <1>1, PlaceFacts
  <2>2. Before(w, r).nbActions \in Nat
    BY <2>1 DEF Exporters
  <2>3. s.roots \in Nat
    BY <1>1 DEF IsPlace, FileSense
  <2>4. n = Before(w, r).nbActions + r.roots
    BY DEF ReadLabel
  <2> QED BY <2>1, <2>2, <2>3, <2>4
<1>3. importer' = [m EXCEPT !.actionLabel = labels, !.actionID = ids, !.graph = H] /\ pos' = pos + 1
  BY DEF ReadAction, Read, NewVertex
<1>4. G \in ReadGraphs(S) /\ m.actionID \in MapsOf(S, Nat) /\ m.actionLabel \in MapsOf(Nat, S)
  BY <1>1 DEF Importers
<1>5. \A j \in 1 .. s.roots : g.kind[w.roots[j]] \in DOMAIN m.actionID \cup {l}
  <2>1. \A j \in 1 .. r.roots : g.kind[w.roots[j]] \in DOMAIN m.actionID
    BY <1>1 DEF ActionsKnown
  <2>2. \A j \in 1 .. s.roots : j \in 1 .. r.roots \/ (s.lines # 4 /\ j = s.roots)
    BY <1>2 DEF ReadLabel
  <2> QED BY <2>1, <2>2
<1>6. Learnt(g, S, w, m.actionID, l, s, H, ids)
  <2> DEFINE a == m.actionID
  <2>1. /\ r.teams = Len(w.teams) /\ s.teams = r.teams /\ r.teams \in Nat /\ s.edges = r.edges
        /\ l \in S /\ l # Team /\ l \in PrintedLabels(g, w)
    BY <1>2 DEF ReadLabel
  <2>2. H = IF l \in DOMAIN a THEN G ELSE AddVertex(G, Len(G.vertices) + 1, l)
    OBVIOUS
  <2>3. ids = Insert(a, l, Len(G.vertices) + 1)
    OBVIOUS
  <2> HIDE DEF a, G, l, H, ids
  <2> QED BY <1>1, <1>4, <1>5, <2>1, <2>2, <2>3, ActionLearnt DEF a
<1>7. /\ labels \in MapsOf(Nat, S) /\ DOMAIN labels = DOMAIN m.actionLabel \cup {n}
      /\ (n \notin DOMAIN m.actionLabel => labels[n] = l)
  <2> DEFINE a == m.actionLabel
  <2>1. a \in MapsOf(Nat, S) /\ l \in S
    BY <1>4
  <2> HIDE DEF a, l, n
  <2>2. Insert(a, n, l) \in MapsOf(Nat, S)
    BY <1>2, <2>1, LabelInserted
  <2>3. InsertedIn(a, n, l, Insert(a, n, l))
    BY Inserted
  <2> QED BY <2>2, <2>3 DEF InsertedIn, a
<1> HIDE DEF H, ids, labels
<1>8. /\ importer'.graph = H /\ importer'.vertexID = m.vertexID /\ importer'.actionID = ids
      /\ importer'.actionLabel = labels /\ importer'.programID = m.programID
      /\ importer'.content = m.content /\ importer' \in Importers(S)
  BY <1>1, <1>3, <1>6, <1>7 DEF Importers, Learnt
<1>9. Before(w, s) = Before(w, r) /\ Coming(w, s) = Coming(w, r) /\ \A p : NumberOf(w, s, p) = NumberOf(w, r, p)
  BY DEF Before, Coming, NumberOf, ReadLabel
<1>10. TeamsKnown(w, importer', s)
  BY <1>1, <1>8 DEF TeamsKnown, ReadLabel
<1>11. ProgramsKnown(w, importer', s)
  <2>1. (s.lines > 0 <=> r.lines > 0) /\ ~ (s.lines = 1) /\ ~ (r.lines = 1)
    BY DEF ReadLabel
  <2> QED BY <1>1, <1>8, <1>9, <2>1 DEF ProgramsKnown
<1>12. LabelsKnown(g, w, labels, ids, s)
  <2> DEFINE a == Before(w, r).nbActions
  <2>1. \A k \in DOMAIN m.actionLabel : k < n /\ k \in Nat
    <3>1. \A k \in DOMAIN m.actionLabel : k < a + IF r.lines = 4 THEN 1 ELSE r.roots
      BY <1>1 DEF LabelsKnown
    <3>2. \A k \in DOMAIN m.actionLabel : k \in Nat
      BY <1>4 DEF MapsOf
    <3> QED BY <1>2, <3>1, <3>2 DEF ReadLabel
  <2>2. n \notin DOMAIN m.actionLabel
    BY <1>2, <2>1
  <2>3. \A k \in DOMAIN labels : k < n + 1
    BY <1>2, <1>7, <2>1
  <2>4. n + 1 = a + IF s.lines = 4 THEN 1 ELSE s.roots
    BY <1>2 DEF ReadLabel
  <2>5. s.lines = 4 => /\ a \in DOMAIN labels /\ labels[a] = g.kind[Coming(w, r).dst]
                       /\ g.kind[Coming(w, r).dst] \in DOMAIN ids
    BY <1>2, <1>6, <1>7, <2>2 DEF ReadLabel, Learnt
  <2> HIDE DEF a
  <2> QED BY <1>9, <2>3, <2>4, <2>5 DEF LabelsKnown, a
<1> QED BY <1>3, <1>6, <1>8, <1>10, <1>11, <1>12 DEF Progress, Learnt

LEMMA NextLine ==
    ASSUME NEW g, NEW S, NEW w, NEW r, NEW lines, FileSense(g, S, w), IsFile(g, S, w, lines), IsPlace(g, w, r),
           AtFirst(w, r, r.lines), r.lines + 1 < FirstWidth(g, Coming(w, r)),
           NEW s, s = [teams |-> r.teams, edges |-> r.edges, lines |-> r.lines + 1, roots |-> r.roots]
    PROVE  IsPlace(g, w, s) /\ Position(w, r) + 1 = Position(w, s)
<1>1. /\ r.teams \in 0 .. Len(w.teams) /\ r.edges \in 0 .. Len(w.edges) /\ r.lines \in 0 .. 4
      /\ r.roots \in 0 .. Len(w.roots) /\ Len(Before(w, r).lines) \in Nat /\ Len(w.roots) \in Nat
      /\ Len(w.teams) \in Nat
  BY PlaceFacts
<1>2. r.teams = Len(w.teams) /\ r.edges < Len(w.edges) /\ r.roots = 0
  BY DEF AtFirst, AtEdge
<1>3. Before(w, s) = Before(w, r) /\ Coming(w, s) = Coming(w, r)
  BY DEF Before, Coming
<1>4. FirstWidth(g, Coming(w, r)) \in {4, 5}
  BY DEF FirstWidth
<1>5. r.lines + 1 \in 0 .. 4
  BY <1>1, <1>4
<1>6. IsPlace(g, w, s)
  <2>1. ~ (r.teams < Len(w.teams)) /\ ~ (r.roots > 0)
    BY <1>1, <1>2
  <2> QED BY <1>1, <1>2, <1>3, <1>5, <2>1 DEF IsPlace, AtFirst
<1>7. Position(w, r) + 1 = Position(w, s)
  <2> DEFINE k == Len(Before(w, r).lines)
  <2>1. Position(w, r) = k + 1 + r.lines + r.roots /\ Position(w, s) = k + 1 + (r.lines + 1) + r.roots
    BY <1>1, <1>2, <1>3 DEF Position
  <2>2. k \in Nat /\ r.lines \in 0 .. 4 /\ r.roots = 0
    BY <1>1, <1>2
  <2> HIDE DEF k
  <2> QED BY <2>1, <2>2
<1> QED BY <1>6, <1>7

LEMMA ReadActionStep ==
    ASSUME NEW g, NEW S, NEW w, NEW r, AtWork(g, S, w, exporter.lines, importer, pos, r), ReadAction
    PROVE  \E s : Progress(g, S, w, importer', pos', s)
<1>1. /\ IsPlace(g, w, r) /\ pos = Position(w, r) /\ FileSense(g, S, w) /\ IsFile(g, S, w, exporter.lines)
  BY DEF AtWork, Progress
<1>2. /\ Len(w.teams) \in Nat /\ Len(w.edges) \in Nat /\ Len(w.roots) \in Nat
      /\ r.teams \in 0 .. Len(w.teams) /\ r.edges \in 0 .. Len(w.edges) /\ r.lines \in 0 .. 4
      /\ r.roots \in 0 .. Len(w.roots) /\ Before(w, r) \in Exporters({w.id}, S)
      /\ Len(Before(w, r).lines) \in Nat
  BY <1>1, PlaceFacts
<1>3. AtAction(g, w, r, Line) \/ AtRoot(g, w, r, Line)
  <2>1. Line.shape = "A"
    BY DEF ReadAction, Reading
  <2> QED BY <2>1, LineRead, LineShapes
<1>4. Before(w, r).nbActions \in Nat
  BY <1>2 DEF Exporters
<1>5. CASE AtAction(g, w, r, Line)
  <2> DEFINE s == [teams |-> r.teams, edges |-> r.edges, lines |-> r.lines + 1, roots |-> r.roots]
             d == Coming(w, r).dst
             i == r.edges + 1
  <2>1. /\ AtFirst(w, r, 3) /\ r.lines = 3 /\ r.teams = Len(w.teams) /\ r.edges < Len(w.edges) /\ r.roots = 0
        /\ IsAction(g, d)
        /\ Line.action = Before(w, r).nbActions /\ Line.label = g.kind[d]
    BY <1>5 DEF AtAction, AtFirst, AtEdge, ActionLine
  <2>2. IsPlace(g, w, s) /\ pos + 1 = Position(w, s)
    <3>1. r.lines + 1 < FirstWidth(g, Coming(w, r))
      BY <2>1 DEF FirstWidth
    <3> HIDE DEF s
    <3> QED BY <1>1, <2>1, <3>1, NextLine DEF s
  <2>3. s.lines = 4 /\ s.roots = 0 /\ s.teams = r.teams /\ s.edges = r.edges
    BY <2>1
  <2> HIDE DEF s
  <2>4. ReadLabel(w, r, s, Line)
    BY <1>4, <2>1, <2>3 DEF ReadLabel
  <2>5. i \in 1 .. Len(w.edges) /\ w.edges[i].dst = d
    BY <1>2, <2>1 DEF Coming
  <2>6. Line.label \in S /\ Line.label # Team /\ Line.label \in PrintedLabels(g, w)
    <3>1. g.kind[d] \in S
      BY <1>1, <2>1, <2>5 DEF FileSense
    <3>2. g.kind[d] # Team
      BY <2>1 DEF IsAction
    <3>3. g.kind[d] \in PrintedLabels(g, w)
      BY <2>1, <2>5 DEF PrintedLabels
    <3> QED BY <2>1, <3>1, <3>2, <3>3
  <2>7. Progress(g, S, w, importer', pos', s)
    BY <2>1, <2>2, <2>3, <2>4, <2>6, ActionLineRead
  <2> QED BY <2>7
<1>6. CASE AtRoot(g, w, r, Line)
  <2> DEFINE j == r.roots + 1
             s == [teams |-> r.teams, edges |-> r.edges, lines |-> 0, roots |-> j]
             k == Len(Before(w, r).lines)
  <2>1. /\ r.lines = 0 /\ r.teams = Len(w.teams) /\ r.edges = Len(w.edges) /\ r.roots < Len(w.roots)
        /\ Line.action = Before(w, r).nbActions + r.roots /\ Line.label = g.kind[w.roots[j]]
    BY <1>6 DEF AtRoot, AtFooter, ActionLine
  <2>2. j \in 1 .. Len(w.roots) /\ j \in 0 .. Len(w.roots)
    BY <1>2, <2>1
  <2>3. Before(w, s) = Before(w, r)
    BY DEF Before
  <2>4. IsPlace(g, w, s)
    BY <1>2, <2>1, <2>2 DEF IsPlace
  <2>5. pos + 1 = Position(w, s)
    <3>1. pos = k + 1 + 0 + r.roots /\ Position(w, s) = k + 1 + 0 + j
      BY <1>1, <1>2, <2>1, <2>3 DEF Position
    <3>2. k \in Nat /\ r.roots \in Nat
      BY <1>2
    <3> HIDE DEF k, s
    <3> QED BY <3>1, <3>2
  <2>6. s.lines = 0 /\ s.roots = j /\ s.teams = r.teams /\ s.edges = r.edges
    BY <2>1
  <2> HIDE DEF s
  <2>7. ReadLabel(w, r, s, Line)
    BY <2>1, <2>6 DEF ReadLabel
  <2>8. Line.label \in S /\ Line.label # Team /\ Line.label \in PrintedLabels(g, w)
    BY <1>1, <2>1, <2>2 DEF FileSense, IsAction, PrintedLabels
  <2>9. Progress(g, S, w, importer', pos', s)
    BY <2>1, <2>4, <2>5, <2>6, <2>7, <2>8, ActionLineRead
  <2> QED BY <2>9
<1> QED BY <1>3, <1>5, <1>6

LEMMA SamePrograms ==
    ASSUME NEW w, NEW r, NEW s, s.edges = r.edges
    PROVE  Before(w, s) = Before(w, r) /\ Coming(w, s) = Coming(w, r) /\ \A p : NumberOf(w, s, p) = NumberOf(w, r, p)
BY DEF Before, Coming, NumberOf

(* The rest of what is known, when only programs are read *)
LEMMA ProgramLineRead ==
    ASSUME NEW g, NEW S, NEW w, NEW r, NEW lines, NEW m, NEW p, AtWork(g, S, w, lines, m, p, r),
           AtFirst(w, r, r.lines), r.lines < 3,
           NEW s, s = [teams |-> r.teams, edges |-> r.edges, lines |-> r.lines + 1, roots |-> r.roots],
           NEW new \in Importers(S), new.graph = m.graph, new.vertexID = m.vertexID,
           new.actionID = m.actionID, new.actionLabel = m.actionLabel, ProgramsKnown(w, new, s)
    PROVE  Progress(g, S, w, new, p + 1, s)
<1>1. /\ IsPlace(g, w, r) /\ p = Position(w, r) /\ FileSense(g, S, w) /\ IsFile(g, S, w, lines)
      /\ VerticesKnown(w, m.graph, r) /\ TeamsKnown(w, m, r)
      /\ ActionsKnown(g, w, m.graph, m.actionID, r) /\ LabelsKnown(g, w, m.actionLabel, m.actionID, r)
      /\ EdgesKnown(g, w, m.graph, r) /\ r.lines \in 0 .. 4
  BY DEF AtWork, Progress, IsPlace
<1>2. IsPlace(g, w, s) /\ p + 1 = Position(w, s)
  <2>1. r.lines + 1 < FirstWidth(g, Coming(w, r))
    <3>1. FirstWidth(g, Coming(w, r)) \in {4, 5}
      BY DEF FirstWidth
    <3> QED BY <1>1, <3>1
  <2> QED BY <1>1, <2>1, NextLine
<1>3. Before(w, s) = Before(w, r) /\ Coming(w, s) = Coming(w, r) /\ \A q : NumberOf(w, s, q) = NumberOf(w, r, q)
  BY SamePrograms
<1>4. s.teams = r.teams /\ s.edges = r.edges /\ s.roots = r.roots /\ s.lines # 4 /\ r.lines # 4
  BY <1>1
<1>5. VerticesKnown(w, new.graph, s) /\ TeamsKnown(w, new, s) /\ ActionsKnown(g, w, new.graph, new.actionID, s)
  BY <1>1, <1>4 DEF VerticesKnown, TeamsKnown, ActionsKnown
<1>6. LabelsKnown(g, w, new.actionLabel, new.actionID, s)
  BY <1>1, <1>3, <1>4 DEF LabelsKnown
<1>7. EdgesKnown(g, w, new.graph, s)
  BY <1>1, <1>3, <1>4 DEF EdgesKnown
<1> QED BY <1>2, <1>5, <1>6, <1>7 DEF Progress

ReadPrograms(S) == [constants : S, lines : SUBSET S]

LEMMA ProgramFacts ==
    ASSUME NEW g, NEW S, NEW w, NEW r, NEW lines, NEW m, NEW p, AtWork(g, S, w, lines, m, p, r)
    PROVE  /\ m.content \in Seq(ReadPrograms(S)) /\ m.programID \in MapsOf(Nat, Nat) /\ m \in Importers(S)
           /\ FirstProgram(w) \in Nat /\ Before(w, r).nbPrograms \in Nat
           /\ FirstProgram(w) <= Before(w, r).nbPrograms
           /\ \A q \in DOMAIN Before(w, r).programID :
                 NumberOf(w, r, q) \in 1 .. Before(w, r).nbPrograms - FirstProgram(w)
           /\ r.edges < Len(w.edges) => Coming(w, r).prog \in S
<1> DEFINE f == FirstProgram(w)
           b == Before(w, r).nbPrograms
           A == Before(w, r).programID
<1>1. /\ IsPlace(g, w, r) /\ FileSense(g, S, w) /\ IsFile(g, S, w, lines) /\ m \in Importers(S)
  BY DEF AtWork, Progress
<1>2. f \in Nat /\ Before(w, r) \in Exporters({w.id}, S) /\ ProgramsNumbered(f, Before(w, r), w.edges, r.edges)
      /\ r.edges \in 0 .. Len(w.edges) /\ Len(w.edges) \in Nat
  BY <1>1, PlaceFacts
<1>3. b \in Nat /\ A \in MapsOf(S, Nat) /\ f <= b /\ \A q \in DOMAIN A : f <= A[q] /\ A[q] < b
  BY <1>2 DEF Exporters, ProgramsNumbered
<1>4. \A q \in DOMAIN A : A[q] \in Nat
  BY <1>3, NumbersAre
<1>5. ASSUME NEW q \in DOMAIN A PROVE NumberOf(w, r, q) \in 1 .. b - f
  <2>1. NumberOf(w, r, q) = A[q] - f + 1
    BY DEF NumberOf
  <2>2. A[q] \in Nat /\ f <= A[q] /\ A[q] < b
    BY <1>3, <1>4
  <2> HIDE DEF A, b, f
  <2> QED BY <1>2, <1>3, <2>1, <2>2
<1>6. r.edges < Len(w.edges) => Coming(w, r).prog \in S
  <2> SUFFICES ASSUME r.edges < Len(w.edges) PROVE Coming(w, r).prog \in S
    OBVIOUS
  <2>1. r.edges + 1 \in 1 .. Len(w.edges)
    BY <1>2
  <2> QED BY <1>1, <2>1 DEF FileSense, Coming
<1>7. m.content \in Seq(ReadPrograms(S)) /\ m.programID \in MapsOf(Nat, Nat)
  BY <1>1 DEF Importers, ReadPrograms
<1> QED BY <1>1, <1>2, <1>3, <1>5, <1>6, <1>7

LEMMA ReadProgramStep ==
    ASSUME NEW g, NEW S, NEW w, NEW r, AtWork(g, S, w, exporter.lines, importer, pos, r), ReadProgram
    PROVE  \E s : Progress(g, S, w, importer', pos', s)
<1> DEFINE m == importer
           e == Coming(w, r)
           p == e.prog
           f == FirstProgram(w)
           b == Before(w, r).nbPrograms
           s == [teams |-> r.teams, edges |-> r.edges, lines |-> r.lines + 1, roots |-> r.roots]
           c == [constants |-> p, lines |-> {}]
           ids == Insert(m.programID, b, Len(m.content) + 1)
           new == Append(m.content, c)
<1>1. AtConstants(w, r, Line)
  <2>1. Line.shape = "P"
    BY DEF ReadProgram, Reading
  <2> QED BY <2>1, LineRead, LineShapes
<1>2. /\ Line.prog = b /\ Line.constants = p /\ r.lines = 0 /\ AtFirst(w, r, 0) /\ r.edges < Len(w.edges)
  BY <1>1 DEF AtConstants, AtFirst, AtEdge, ConstantsLine
<1>3. /\ m.content \in Seq(ReadPrograms(S)) /\ m.programID \in MapsOf(Nat, Nat) /\ f \in Nat /\ b \in Nat
      /\ f <= b /\ p \in S /\ m \in Importers(S)
      /\ \A q \in DOMAIN Before(w, r).programID : NumberOf(w, r, q) \in 1 .. b - f
  BY <1>2, ProgramFacts
<1>4. /\ Len(m.content) = b - f /\ DOMAIN m.programID = f .. b - 1
      /\ \A k \in f .. b - 1 : m.programID[k] = k - f + 1
      /\ \A q \in DOMAIN Before(w, r).programID : m.content[NumberOf(w, r, q)] = [constants |-> q, lines |-> {q}]
  <2>1. ProgramsKnown(w, m, r)
    BY DEF AtWork, Progress
  <2> QED BY <1>2, <2>1 DEF ProgramsKnown
<1>5. importer' = [m EXCEPT !.programID = ids, !.content = new] /\ pos' = pos + 1
  BY <1>2 DEF ReadProgram, Read, NewProgram
<1>6. /\ new \in Seq(ReadPrograms(S)) /\ Len(new) = (b - f) + 1 /\ new[(b - f) + 1] = c
      /\ \A i \in 1 .. b - f : new[i] = m.content[i]
  <2> DEFINE a == m.content
             T == ReadPrograms(S)
  <2>1. a \in Seq(T) /\ c \in T /\ Len(a) = b - f
    BY <1>3, <1>4 DEF ReadPrograms
  <2> HIDE DEF a, T, c
  <2>2. /\ Append(a, c) \in Seq(T) /\ Len(Append(a, c)) = Len(a) + 1 /\ Append(a, c)[Len(a) + 1] = c
        /\ \A i \in 1 .. Len(a) : Append(a, c)[i] = a[i]
    BY <2>1, AppendProperties
  <2> QED BY <2>1, <2>2 DEF a, T
<1>7. /\ ids \in MapsOf(Nat, Nat) /\ DOMAIN ids = f .. b
      /\ \A k \in f .. b : ids[k] = k - f + 1
  <2> DEFINE a == m.programID
             x == Len(m.content) + 1
  <2>1. a \in MapsOf(Nat, Nat) /\ x \in Nat /\ x = b - f + 1
    BY <1>3, <1>4
  <2> HIDE DEF a, b, x, f
  <2>2. Insert(a, b, x) \in MapsOf(Nat, Nat)
    BY <1>3, <2>1, NumberInserted
  <2>3. InsertedIn(a, b, x, Insert(a, b, x))
    BY Inserted
  <2>4. f .. b = (f .. b - 1) \cup {b} /\ b \notin f .. b - 1
    BY <1>3
  <2> QED BY <1>4, <2>1, <2>2, <2>3, <2>4 DEF InsertedIn, a, x
<1> HIDE DEF new, ids
<1>8. /\ importer' \in Importers(S) /\ importer'.graph = m.graph /\ importer'.vertexID = m.vertexID
      /\ importer'.actionID = m.actionID /\ importer'.actionLabel = m.actionLabel
      /\ importer'.programID = ids /\ importer'.content = new
  BY <1>3, <1>5, <1>6, <1>7 DEF Importers, ReadPrograms
<1>9. /\ Before(w, s) = Before(w, r) /\ Coming(w, s) = Coming(w, r)
      /\ \A q : NumberOf(w, s, q) = NumberOf(w, r, q)
  BY DEF Before, Coming, NumberOf
<1>10. s.lines = 1
  BY <1>2
<1> HIDE DEF s
<1>11. ProgramsKnown(w, importer', s)
  <2>1. /\ (b + 1) - f = (b - f) + 1 /\ (b + 1) - 1 = b /\ b - f + 1 = (b - f) + 1
    BY <1>3
  <2>2. \A q \in DOMAIN Before(w, s).programID : new[NumberOf(w, s, q)] = [constants |-> q, lines |-> {q}]
    BY <1>3, <1>4, <1>6, <1>9
  <2>3. new[b - f + 1] = [constants |-> Coming(w, s).prog, lines |-> {}]
    BY <1>6, <1>9, <2>1
  <2> HIDE DEF c
  <2>4. Len(new) = (b + 1) - f /\ DOMAIN ids = f .. (b + 1) - 1 /\ \A k \in f .. (b + 1) - 1 : ids[k] = k - f + 1
    BY <1>6, <1>7, <2>1
  <2> QED BY <1>8, <1>9, <1>10, <2>2, <2>3, <2>4 DEF ProgramsKnown
<1>12. Progress(g, S, w, importer', pos + 1, s)
  <2> DEFINE l == exporter.lines
             n == importer'
             k == pos
  <2>1. AtWork(g, S, w, l, m, k, r) /\ AtFirst(w, r, r.lines) /\ r.lines < 3
    BY <1>2
  <2>2. n \in Importers(S) /\ n.graph = m.graph /\ n.vertexID = m.vertexID /\ n.actionID = m.actionID
        /\ n.actionLabel = m.actionLabel /\ ProgramsKnown(w, n, s)
    BY <1>8, <1>11
  <2>3. s = [teams |-> r.teams, edges |-> r.edges, lines |-> r.lines + 1, roots |-> r.roots]
    BY DEF s
  <2> HIDE DEF l, m, n, k
  <2>4. Progress(g, S, w, n, k + 1, s)
    BY <2>1, <2>2, <2>3, ProgramLineRead
  <2> QED BY <2>4 DEF n, k
<1> QED BY <1>5, <1>12

LEMMA ReadLineStep ==
    ASSUME NEW g, NEW S, NEW w, NEW r, AtWork(g, S, w, exporter.lines, importer, pos, r), ReadLine
    PROVE  \E s : Progress(g, S, w, importer', pos', s)
<1> DEFINE m == importer
           e == Coming(w, r)
           p == e.prog
           f == FirstProgram(w)
           b == Before(w, r).nbPrograms
           h == b - f + 1
           s == [teams |-> r.teams, edges |-> r.edges, lines |-> r.lines + 1, roots |-> r.roots]
           new == [m.content EXCEPT ![h].lines = @ \cup {p}]
<1>1. AtInstructions(w, r, Line)
  <2>1. Line.shape = "I"
    BY DEF ReadLine, Reading
  <2> QED BY <2>1, LineRead, LineShapes
<1>2. /\ Line.prog = b /\ Line.instructions = p /\ r.lines = 1 /\ AtFirst(w, r, 1) /\ r.edges < Len(w.edges)
  BY <1>1 DEF AtInstructions, AtFirst, AtEdge, InstructionsLine
<1>3. /\ m.content \in Seq(ReadPrograms(S)) /\ m.programID \in MapsOf(Nat, Nat) /\ f \in Nat /\ b \in Nat
      /\ f <= b /\ p \in S /\ m \in Importers(S)
      /\ \A q \in DOMAIN Before(w, r).programID : NumberOf(w, r, q) \in 1 .. b - f
  BY <1>2, ProgramFacts
<1>4. /\ Len(m.content) = (b + 1) - f /\ DOMAIN m.programID = f .. (b + 1) - 1
      /\ \A k \in f .. (b + 1) - 1 : m.programID[k] = k - f + 1
      /\ \A q \in DOMAIN Before(w, r).programID : m.content[NumberOf(w, r, q)] = [constants |-> q, lines |-> {q}]
      /\ m.content[h] = [constants |-> p, lines |-> {}]
  <2>1. ProgramsKnown(w, m, r)
    BY DEF AtWork, Progress
  <2> QED BY <1>2, <2>1 DEF ProgramsKnown
<1>5. /\ b \in f .. (b + 1) - 1 /\ h \in 1 .. Len(m.content) /\ (\A i \in 1 .. b - f : i # h)
      /\ m.programID[b] = h /\ b \in DOMAIN m.programID /\ Len(m.content) \in Nat
  <2> HIDE DEF b, f, m
  <2>1. b \in f .. (b + 1) - 1 /\ h \in 1 .. (b + 1) - f /\ (\A i \in 1 .. b - f : i # h) /\ (b + 1) - f \in Nat
    BY <1>3
  <2> QED BY <1>4, <2>1
<1>6. importer' = [m EXCEPT !.content = new] /\ pos' = pos + 1
  <2>1. importer' = [m EXCEPT !.content[m.programID[Line.prog]].lines = @ \cup {Line.instructions}]
        /\ pos' = pos + 1
    BY <1>2, <1>5 DEF ReadLine, Read
  <2> QED BY <1>2, <1>3, <1>5, <2>1 DEF Importers
<1>7. /\ new \in Seq(ReadPrograms(S)) /\ Len(new) = Len(m.content) /\ new[h] = [constants |-> p, lines |-> {p}]
      /\ \A i \in 1 .. b - f : new[i] = m.content[i]
  <2> DEFINE a == m.content
             T == ReadPrograms(S)
             x == [constants |-> p, lines |-> {p}]
             y == [a EXCEPT ![h] = x]
  <2>1. new = y
    <3>1. new = [a EXCEPT ![h] = [a[h] EXCEPT !.lines = @ \cup {p}]]
      OBVIOUS
    <3>2. [a[h] EXCEPT !.lines = @ \cup {p}] = x
      <4>1. ASSUME NEW z, z = [constants |-> p, lines |-> {}]
            PROVE  [z EXCEPT !.lines = @ \cup {p}] = x
        BY <4>1
      <4> HIDE DEF x, h, p
      <4> QED BY <1>4, <4>1, Zenon
    <3> QED BY <3>1, <3>2
  <2>2. a \in Seq(T) /\ x \in T /\ h \in 1 .. Len(a) /\ Len(a) = (b + 1) - f
    BY <1>3, <1>4, <1>5 DEF ReadPrograms
  <2>3. (\A i \in 1 .. b - f : i # h /\ i \in 1 .. (b + 1) - f)
    <3>1. \A i \in 1 .. b - f : i \in 1 .. (b + 1) - f
      BY <1>3
    <3> QED BY <1>5, <3>1
  <2> HIDE DEF a, T, x, h
  <2>4. y \in Seq(T) /\ Len(y) = Len(a) /\ \A i \in 1 .. Len(a) : y[i] = IF i = h THEN x ELSE a[i]
    BY <2>2, ExceptSeq
  <2> QED BY <2>1, <2>2, <2>3, <2>4 DEF a, T, x
<1> HIDE DEF new
<1>8. /\ importer' \in Importers(S) /\ importer'.graph = m.graph /\ importer'.vertexID = m.vertexID
      /\ importer'.actionID = m.actionID /\ importer'.actionLabel = m.actionLabel
      /\ importer'.programID = m.programID /\ importer'.content = new
  BY <1>3, <1>6, <1>7 DEF Importers, ReadPrograms
<1>9. /\ Before(w, s) = Before(w, r) /\ Coming(w, s) = Coming(w, r)
      /\ \A q : NumberOf(w, s, q) = NumberOf(w, r, q)
  BY DEF Before, Coming, NumberOf
<1>10. s.lines = 2
  BY <1>2
<1> HIDE DEF s
<1>11. ProgramsKnown(w, importer', s)
  <2>1. \A q \in DOMAIN Before(w, s).programID : new[NumberOf(w, s, q)] = [constants |-> q, lines |-> {q}]
    BY <1>3, <1>4, <1>7, <1>9
  <2>2. new[b - f + 1] = [constants |-> Coming(w, s).prog, lines |-> {Coming(w, s).prog}]
    BY <1>7, <1>9
  <2>3. Len(new) = (b + 1) - f
    BY <1>4, <1>7
  <2> QED BY <1>4, <1>8, <1>9, <1>10, <2>1, <2>2, <2>3 DEF ProgramsKnown
<1>12. Progress(g, S, w, importer', pos + 1, s)
  <2> DEFINE l == exporter.lines
             n == importer'
             k == pos
  <2>1. AtWork(g, S, w, l, m, k, r) /\ AtFirst(w, r, r.lines) /\ r.lines < 3
    BY <1>2
  <2>2. n \in Importers(S) /\ n.graph = m.graph /\ n.vertexID = m.vertexID /\ n.actionID = m.actionID
        /\ n.actionLabel = m.actionLabel /\ ProgramsKnown(w, n, s)
    BY <1>8, <1>11
  <2>3. s = [teams |-> r.teams, edges |-> r.edges, lines |-> r.lines + 1, roots |-> r.roots]
    BY DEF s
  <2> HIDE DEF l, m, n, k
  <2>4. Progress(g, S, w, n, k + 1, s)
    BY <2>1, <2>2, <2>3, ProgramLineRead
  <2> QED BY <2>4 DEF n, k
<1> QED BY <1>6, <1>12

LEMMA ReadLinkProgramStep ==
    ASSUME NEW g, NEW S, NEW w, NEW r, AtWork(g, S, w, exporter.lines, importer, pos, r),
           ReadLinkProgramInstruction
    PROVE  \E s : Progress(g, S, w, importer', pos', s)
<1> DEFINE m == importer
           s == [teams |-> r.teams, edges |-> r.edges, lines |-> r.lines + 1, roots |-> r.roots]
<1>1. AtProgram(w, r, Line)
  <2>1. Line.shape = "P->I"
    BY DEF ReadLinkProgramInstruction, Reading
  <2> QED BY <2>1, LineRead, LineShapes
<1>2. r.lines = 2 /\ AtFirst(w, r, 2)
  BY <1>1 DEF AtProgram, AtFirst
<1>3. importer' = m /\ pos' = pos + 1 /\ m \in Importers(S) /\ ProgramsKnown(w, m, r)
  BY DEF ReadLinkProgramInstruction, Read, AtWork, Progress
<1>4. /\ Before(w, s) = Before(w, r) /\ Coming(w, s) = Coming(w, r)
      /\ \A q : NumberOf(w, s, q) = NumberOf(w, r, q)
  BY DEF Before, Coming, NumberOf
<1>5. s.lines = 3
  BY <1>2
<1> HIDE DEF s
<1>6. ProgramsKnown(w, m, s)
  BY <1>2, <1>3, <1>4, <1>5 DEF ProgramsKnown
<1>7. Progress(g, S, w, m, pos + 1, s)
  <2> DEFINE l == exporter.lines
             k == pos
  <2>1. AtWork(g, S, w, l, m, k, r) /\ AtFirst(w, r, r.lines) /\ r.lines < 3
    BY <1>2
  <2>2. s = [teams |-> r.teams, edges |-> r.edges, lines |-> r.lines + 1, roots |-> r.roots]
    BY DEF s
  <2> HIDE DEF l, m, k
  <2>3. Progress(g, S, w, m, k + 1, s)
    BY <1>3, <1>6, <2>1, <2>2, ProgramLineRead
  <2> QED BY <2>3 DEF k
<1> QED BY <1>3, <1>7

-----------------------------------------------------------------------------
(* The last line of an edge *)

EndsEdge(g, w, r) ==
    /\ AtEdge(w, r)
    /\ IF Coming(w, r).prog \in DOMAIN Before(w, r).programID THEN r.lines = 0
       ELSE r.lines + 1 = FirstWidth(g, Coming(w, r))

AfterEdge(g, w, r, s) ==
    LET x == Before(w, r)
        y == Before(w, s)
        e == Coming(w, r)
    IN  /\ DOMAIN y.programID = DOMAIN x.programID \cup {e.prog}
        /\ \A q \in DOMAIN x.programID : y.programID[q] = x.programID[q]
        /\ e.prog \in DOMAIN x.programID => y.nbPrograms = x.nbPrograms /\ y.nbActions = x.nbActions
        /\ e.prog \notin DOMAIN x.programID =>
              /\ y.nbPrograms = x.nbPrograms + 1 /\ y.programID[e.prog] = x.nbPrograms
              /\ y.nbActions = IF IsAction(g, e.dst) THEN x.nbActions + 1 ELSE x.nbActions

LEMMA NextEdge ==
    ASSUME NEW g, NEW S, NEW w, NEW r, NEW lines, FileSense(g, S, w), IsFile(g, S, w, lines), IsPlace(g, w, r),
           EndsEdge(g, w, r),
           NEW s, s = [teams |-> r.teams, edges |-> r.edges + 1, lines |-> 0, roots |-> 0]
    PROVE  IsPlace(g, w, s) /\ Position(w, r) + 1 = Position(w, s) /\ AfterEdge(g, w, r, s)
<1> DEFINE x == Before(w, r)
           y == Before(w, s)
           e == Coming(w, r)
           i == r.edges
<1>1. /\ r.teams \in 0 .. Len(w.teams) /\ i \in 0 .. Len(w.edges) /\ r.lines \in 0 .. 4
      /\ Len(w.roots) \in Nat /\ Len(w.teams) \in Nat /\ Len(w.edges) \in Nat
      /\ x \in Exporters({w.id}, S) /\ Len(x.lines) \in Nat
  BY PlaceFacts
<1>2. r.teams = Len(w.teams) /\ i < Len(w.edges) /\ r.roots = 0
  BY DEF EndsEdge, AtEdge
<1>3. i + 1 \in 1 .. Len(w.edges) /\ i + 1 \in 0 .. Len(w.edges) /\ (i + 1) - 1 = i
  BY <1>1, <1>2
<1>4. BlockAt(g, w.id, lines, x, e, y)
  BY <1>3 DEF IsFile, FileEdges, Before, Coming
<1>5. IsPlace(g, w, s)
  <2>1. ~ (r.teams < Len(w.teams)) /\ 0 \in 0 .. Len(w.roots)
    BY <1>1, <1>2
  <2>2. s \in [teams : 0 .. Len(w.teams), edges : 0 .. Len(w.edges), lines : 0 .. 4, roots : 0 .. Len(w.roots)]
    BY <1>1, <1>3, <2>1
  <2>3. s.teams = r.teams /\ s.lines = 0 /\ s.roots = 0
    OBVIOUS
  <2> HIDE DEF x, y, e
  <2> QED BY <2>1, <2>2, <2>3 DEF IsPlace
<1>6. Position(w, r) + 1 = Position(w, s)
  <2> DEFINE k == Len(x.lines)
             h == Len(y.lines)
  <2>1. Position(w, r) = k + 1 + r.lines + r.roots /\ Position(w, s) = h + 1 + 0 + 0
    BY <1>1, <1>2 DEF Position
  <2>2. CASE e.prog \in DOMAIN x.programID
    <3>1. h = k + 1 /\ r.lines = 0
      BY <1>4, <2>2 DEF BlockAt, EndsEdge
    <3> HIDE DEF k, h
    <3> QED BY <1>1, <1>2, <2>1, <3>1 DEF k
  <2>3. CASE e.prog \notin DOMAIN x.programID
    <3>1. h = k + FirstWidth(g, e) /\ r.lines + 1 = FirstWidth(g, e)
      BY <1>4, <2>3 DEF BlockAt, EndsEdge
    <3>2. k \in Nat /\ r.lines \in 0 .. 4 /\ r.roots = 0
      BY <1>1, <1>2
    <3> HIDE DEF k, h
    <3>3. h = k + (r.lines + 1)
      BY <3>1
    <3> QED BY <2>1, <3>2, <3>3
  <2> QED BY <2>2, <2>3
<1>7. AfterEdge(g, w, r, s)
  <2> DEFINE A == x.programID
             n == x.nbPrograms
             p == e.prog
  <2>1. CASE p \in DOMAIN A
    <3>1. y.programID = A /\ y.nbPrograms = n /\ y.nbActions = x.nbActions
      BY <1>4, <2>1 DEF BlockAt
    <3> QED BY <2>1, <3>1 DEF AfterEdge
  <2>2. CASE p \notin DOMAIN A
    <3>1. /\ y.programID = Insert(A, p, n) /\ y.nbPrograms = n + 1
          /\ y.nbActions = IF IsAction(g, e.dst) THEN x.nbActions + 1 ELSE x.nbActions
      BY <1>4, <2>2 DEF BlockAt
    <3>2. InsertedIn(A, p, n, y.programID)
      <4> HIDE DEF A, p, n
      <4>1. InsertedIn(A, p, n, Insert(A, p, n))
        BY Inserted
      <4> QED BY <3>1, <4>1
    <3> QED BY <2>2, <3>1, <3>2 DEF AfterEdge, InsertedIn
  <2> QED BY <2>1, <2>2
<1> QED BY <1>5, <1>6, <1>7

EdgeAdd(G, n, a, d, k, H) ==
    /\ H.vertices = G.vertices /\ H.kind = G.kind /\ Len(H.edges) = n + 1
    /\ \A i \in 1 .. n : H.edges[i] = G.edges[i]
    /\ H.edges[n + 1].src = a /\ H.edges[n + 1].dst = d /\ H.edges[n + 1].prog = k

LEMMA EdgeAdded ==
    ASSUME NEW S, NEW G \in ReadGraphs(S), NEW n, n = Len(G.edges), NEW a \in Nat, NEW d \in Nat, NEW k \in Nat,
           NEW H, H = AddNewEdge(G, Len(G.edges) + 1, a, d, k)
    PROVE  H \in ReadGraphs(S) /\ EdgeAdd(G, n, a, d, k, H)
<1> DEFINE e == [id |-> n + 1, src |-> a, dst |-> d, prog |-> k]
           q == G.edges
<1>1. q \in Seq(EdgeRecords) /\ n \in Nat /\ n = Len(q)
  BY LenProperties DEF ReadGraphs
<1>2. e \in EdgeRecords
  BY <1>1 DEF EdgeRecords
<1>3. H = [G EXCEPT !.edges = Append(q, e)]
  BY DEF AddNewEdge
<1>4. e.src = a /\ e.dst = d /\ e.prog = k
  OBVIOUS
<1> HIDE DEF e, q
<1>5. /\ Append(q, e) \in Seq(EdgeRecords) /\ Len(Append(q, e)) = n + 1 /\ Append(q, e)[n + 1] = e
      /\ \A i \in 1 .. n : Append(q, e)[i] = q[i]
  BY <1>1, <1>2, AppendProperties
<1>6. H \in ReadGraphs(S)
  BY <1>3, <1>5 DEF ReadGraphs
<1>7. H.vertices = G.vertices /\ H.kind = G.kind /\ H.edges = Append(q, e)
  BY <1>3 DEF ReadGraphs
<1> QED BY <1>4, <1>5, <1>6, <1>7 DEF EdgeAdd, q

EdgeLink(g, w, m, r, s, new) ==
    LET G == m.graph
        e == Coming(w, r)
    IN  \E a, d, k \in Nat :
           /\ a \in 1 .. Len(w.teams) /\ w.teams[a] = e.src
           /\ EndRead(g, w, G, d, e.dst) /\ k = NumberOf(w, s, e.prog)
           /\ new = [m EXCEPT !.graph = AddNewEdge(G, Len(G.edges) + 1, a, d, k)]

LEMMA EdgeLinked ==
    ASSUME NEW g, NEW S, NEW w, NEW r, NEW lines, NEW m, NEW p, AtWork(g, S, w, lines, m, p, r),
           EndsEdge(g, w, r),
           NEW s, s = [teams |-> r.teams, edges |-> r.edges + 1, lines |-> 0, roots |-> 0],
           NEW new, EdgeLink(g, w, m, r, s, new)
    PROVE  Progress(g, S, w, new, p + 1, s)
<1> DEFINE G == m.graph
           e == Coming(w, r)
           x == Before(w, r)
           y == Before(w, s)
           f == FirstProgram(w)
           b == x.nbPrograms
           i == r.edges
<1>1. /\ IsPlace(g, w, r) /\ p = Position(w, r) /\ FileSense(g, S, w) /\ IsFile(g, S, w, lines)
      /\ m \in Importers(S)
      /\ VerticesKnown(w, G, r) /\ TeamsKnown(w, m, r)
      /\ ActionsKnown(g, w, G, m.actionID, r) /\ LabelsKnown(g, w, m.actionLabel, m.actionID, r)
      /\ ProgramsKnown(w, m, r) /\ EdgesKnown(g, w, G, r)
  BY DEF AtWork, Progress
<1>2. IsPlace(g, w, s) /\ p + 1 = Position(w, s) /\ AfterEdge(g, w, r, s)
  BY <1>1, NextEdge
<1>3. /\ i \in 0 .. Len(w.edges) /\ r.lines \in 0 .. 4 /\ Len(w.edges) \in Nat /\ i \in Nat
      /\ x \in Exporters({w.id}, S) /\ f \in Nat /\ ProgramsNumbered(f, x, w.edges, i)
      /\ b \in Nat /\ x.nbActions \in Nat
  <2>1. x \in Exporters({w.id}, S)
    BY <1>1, PlaceFacts
  <2>2. b \in Nat /\ x.nbActions \in Nat
    BY <2>1 DEF Exporters
  <2> QED BY <1>1, <2>1, <2>2, PlaceFacts
<1>4. r.teams = Len(w.teams) /\ r.roots = 0 /\ i < Len(w.edges)
  BY DEF EndsEdge, AtEdge
<1>5. PICK a \in Nat, d \in Nat, k \in Nat :
        /\ a \in 1 .. Len(w.teams) /\ w.teams[a] = e.src
        /\ EndRead(g, w, G, d, e.dst) /\ k = NumberOf(w, s, e.prog)
        /\ new = [m EXCEPT !.graph = AddNewEdge(G, Len(G.edges) + 1, a, d, k)]
  BY DEF EdgeLink
<1>6. G \in ReadGraphs(S) /\ Len(G.edges) = i
  BY <1>1 DEF Importers, EdgesKnown
<1> DEFINE H == AddNewEdge(G, Len(G.edges) + 1, a, d, k)
<1>7. H \in ReadGraphs(S) /\ EdgeAdd(G, i, a, d, k, H)
  <2> HIDE DEF G
  <2> QED BY <1>6, EdgeAdded DEF H
<1> HIDE DEF H
<1>8. /\ new \in Importers(S) /\ new.graph = H /\ new.vertexID = m.vertexID /\ new.actionID = m.actionID
      /\ new.actionLabel = m.actionLabel /\ new.programID = m.programID /\ new.content = m.content
  <2>1. new = [m EXCEPT !.graph = H]
    BY <1>5 DEF H
  <2> QED BY <1>1, <1>7, <2>1 DEF Importers
<1>9. s.teams = r.teams /\ s.edges = i + 1 /\ s.roots = r.roots /\ s.lines = 0
  BY <1>4
<1>10. VerticesKnown(w, H, s)
  BY <1>1, <1>7, <1>9 DEF VerticesKnown, EdgeAdd
<1>11. TeamsKnown(w, new, s)
  BY <1>1, <1>8, <1>9 DEF TeamsKnown
<1>12. ActionsKnown(g, w, H, new.actionID, s)
  BY <1>1, <1>7, <1>8, <1>9 DEF ActionsKnown, EdgeAdd
<1>13. LabelsKnown(g, w, new.actionLabel, new.actionID, s)
  <2> DEFINE n == x.nbActions
  <2>1. \A l \in DOMAIN m.actionLabel : l < n + IF r.lines = 4 THEN 1 ELSE r.roots
    BY <1>1 DEF LabelsKnown
  <2>2. y.nbActions = n + IF r.lines = 4 THEN 1 ELSE r.roots
    <3>1. CASE e.prog \in DOMAIN x.programID
      <4>1. r.lines = 0 /\ y.nbActions = n
        BY <1>2, <3>1 DEF EndsEdge, AfterEdge
      <4> QED BY <1>3, <1>4, <4>1
    <3>2. CASE e.prog \notin DOMAIN x.programID
      <4>1. r.lines + 1 = FirstWidth(g, e) /\ y.nbActions = IF IsAction(g, e.dst) THEN n + 1 ELSE n
        BY <1>2, <3>2 DEF EndsEdge, AfterEdge
      <4>2. n \in Nat /\ r.lines \in 0 .. 4 /\ r.roots = 0
        BY <1>3, <1>4
      <4>3. CASE IsAction(g, e.dst)
        <5>1. r.lines + 1 = 5 /\ y.nbActions = n + 1
          BY <4>1, <4>3 DEF FirstWidth
        <5> HIDE DEF n
        <5> QED BY <4>2, <5>1
      <4>4. CASE ~ IsAction(g, e.dst)
        <5>1. r.lines + 1 = 4 /\ y.nbActions = n
          BY <4>1, <4>4 DEF FirstWidth
        <5> HIDE DEF n
        <5> QED BY <4>2, <5>1
      <4> QED BY <4>3, <4>4
    <3> QED BY <3>1, <3>2
  <2> HIDE DEF n
  <2>3. \A l \in DOMAIN m.actionLabel : l < y.nbActions + s.roots
    <3>1. y.nbActions + s.roots = y.nbActions
      BY <1>3, <1>4, <1>9, <2>2 DEF n
    <3> QED BY <2>1, <2>2, <3>1
  <2> QED BY <1>8, <1>9, <2>3 DEF LabelsKnown
<1>14. \A q \in DOMAIN x.programID : q \in DOMAIN y.programID /\ NumberOf(w, s, q) = NumberOf(w, r, q)
  BY <1>2 DEF AfterEdge, NumberOf
<1>15. ProgramsKnown(w, new, s)
  <2> DEFINE c == m.content
             n == y.nbPrograms
  <2>1. n = IF r.lines > 0 THEN b + 1 ELSE b
    <3>1. CASE e.prog \in DOMAIN x.programID
      <4>1. r.lines = 0 /\ n = b
        BY <1>2, <3>1 DEF EndsEdge, AfterEdge
      <4> QED BY <4>1
    <3>2. CASE e.prog \notin DOMAIN x.programID
      <4>1. r.lines + 1 = FirstWidth(g, e) /\ n = b + 1
        BY <1>2, <3>2 DEF EndsEdge, AfterEdge
      <4>2. FirstWidth(g, e) \in {4, 5}
        BY DEF FirstWidth
      <4> QED BY <1>3, <4>1, <4>2
    <3> QED BY <3>1, <3>2
  <2>2. /\ Len(c) = n - f /\ DOMAIN m.programID = f .. n - 1
        /\ \A h \in f .. n - 1 : m.programID[h] = h - f + 1
        /\ \A q \in DOMAIN x.programID : c[NumberOf(w, r, q)] = [constants |-> q, lines |-> {q}]
    BY <1>1, <2>1 DEF ProgramsKnown
  <2>3. ASSUME e.prog \notin DOMAIN x.programID
        PROVE  c[NumberOf(w, s, e.prog)] = [constants |-> e.prog, lines |-> {e.prog}]
    <3>1. r.lines > 0 /\ r.lines # 1
      <4>1. r.lines + 1 = FirstWidth(g, e)
        BY <2>3 DEF EndsEdge
      <4>2. FirstWidth(g, e) \in {4, 5}
        BY DEF FirstWidth
      <4> QED BY <1>3, <4>1, <4>2
    <3>2. c[b - f + 1] = [constants |-> e.prog, lines |-> {e.prog}]
      BY <1>1, <3>1 DEF ProgramsKnown
    <3>3. NumberOf(w, s, e.prog) = b - f + 1
      BY <1>2, <2>3 DEF AfterEdge, NumberOf
    <3> QED BY <3>2, <3>3
  <2>4. \A q \in DOMAIN y.programID : c[NumberOf(w, s, q)] = [constants |-> q, lines |-> {q}]
    <3>1. DOMAIN y.programID = DOMAIN x.programID \cup {e.prog}
      BY <1>2 DEF AfterEdge
    <3> QED BY <1>14, <2>2, <2>3, <3>1
  <2> QED BY <1>8, <1>9, <2>2, <2>4 DEF ProgramsKnown
<1>16. EdgesKnown(g, w, H, s)
  <2>1. Len(H.edges) = i + 1 /\ H.edges[i + 1].src = a /\ H.edges[i + 1].dst = d /\ H.edges[i + 1].prog = k
        /\ H.vertices = G.vertices /\ H.kind = G.kind /\ \A t \in 1 .. i : H.edges[t] = G.edges[t]
    BY <1>7 DEF EdgeAdd
  <2>2. ASSUME NEW t \in 1 .. i
        PROVE  EdgeRead(g, w, H, NumberOf(w, s, w.edges[t].prog), H.edges[t], w.edges[t])
    <3>1. w.edges[t].prog \in DOMAIN x.programID
      BY <1>3 DEF ProgramsNumbered
    <3>2. EdgeRead(g, w, G, NumberOf(w, r, w.edges[t].prog), G.edges[t], w.edges[t])
      BY <1>1 DEF EdgesKnown
    <3>3. NumberOf(w, s, w.edges[t].prog) = NumberOf(w, r, w.edges[t].prog) /\ H.edges[t] = G.edges[t]
      BY <1>14, <2>1, <3>1
    <3> QED BY <2>1, <3>2, <3>3 DEF EdgeRead, EndRead
  <2>3. EdgeRead(g, w, H, NumberOf(w, s, w.edges[i + 1].prog), H.edges[i + 1], w.edges[i + 1])
    <3>1. EndRead(g, w, H, d, e.dst)
      BY <1>5, <2>1 DEF EndRead
    <3> QED BY <1>5, <2>1, <3>1 DEF EdgeRead, Coming
  <2>4. \A t \in 1 .. i + 1 : t \in 1 .. i \/ t = i + 1
    BY <1>3
  <2> QED BY <1>9, <2>1, <2>2, <2>3, <2>4 DEF EdgesKnown
<1> QED BY <1>2, <1>8, <1>10, <1>11, <1>12, <1>13, <1>15, <1>16 DEF Progress

-----------------------------------------------------------------------------
(* The lines that link *)

TeamNumber(w, ids, v, a) == w.id[v] \in DOMAIN ids /\ ids[w.id[v]] = a /\ a \in 1 .. Len(w.teams) /\ w.teams[a] = v

LEMMA TeamRead ==
    ASSUME NEW g, NEW S, NEW w, NEW r, NEW lines, NEW m, NEW p, AtWork(g, S, w, lines, m, p, r),
           r.teams = Len(w.teams), NEW v \in ToSet(w.teams)
    PROVE  \E a \in Nat : TeamNumber(w, m.vertexID, v, a)
<1>1. TeamsKnown(w, m, r) /\ FileSense(g, S, w)
  BY DEF AtWork, Progress
<1>2. Len(w.teams) \in Nat /\ DOMAIN w.teams = 1 .. Len(w.teams)
  BY <1>1 DEF FileSense
<1>3. PICK a \in 1 .. Len(w.teams) : w.teams[a] = v
  BY <1>2 DEF ToSet
<1>4. a \in Nat
  BY <1>2
<1>5. w.id[w.teams[a]] \in DOMAIN m.vertexID /\ m.vertexID[w.id[w.teams[a]]] = a
  BY <1>1 DEF TeamsKnown
<1>6. TeamNumber(w, m.vertexID, v, a)
  BY <1>3, <1>5 DEF TeamNumber
<1> QED BY <1>4, <1>6

LEMMA LinkStep ==
    ASSUME NEW g, NEW S, NEW w, NEW r, AtWork(g, S, w, exporter.lines, importer, pos, r), EndsEdge(g, w, r),
           NEW a \in Nat, TeamNumber(w, importer.vertexID, Coming(w, r).src, a),
           NEW t, t = w.id[Coming(w, r).src], NEW d \in Nat, EndRead(g, w, importer.graph, d, Coming(w, r).dst),
           NEW k \in Nat, NEW s, s = [teams |-> r.teams, edges |-> r.edges + 1, lines |-> 0, roots |-> 0],
           k = NumberOf(w, s, Coming(w, r).prog), Link(t, d, k)
    PROVE  Progress(g, S, w, importer', pos', s)
<1> DEFINE m == importer
           new == [m EXCEPT !.graph = AddNewEdge(m.graph, Len(m.graph.edges) + 1, a, d, k)]
           l == exporter.lines
           p == pos
<1>1. importer.vertexID[t] = a /\ a \in 1 .. Len(w.teams) /\ w.teams[a] = Coming(w, r).src
  BY DEF TeamNumber
<1>2. importer' = new /\ pos' = pos + 1
  BY <1>1 DEF Link, Read
<1>3. EdgeLink(g, w, m, r, s, new)
  <2> HIDE DEF m
  <2> QED BY <1>1 DEF EdgeLink, m
<1>4. Progress(g, S, w, new, p + 1, s)
  <2>1. AtWork(g, S, w, l, m, p, r)
    OBVIOUS
  <2> HIDE DEF m, new, l, p
  <2> QED BY <1>3, <2>1, EdgeLinked
<1> QED BY <1>2, <1>4

(* What the importer knows of the program of an edge whose block it has read *)
LEMMA ProgramRead ==
    ASSUME NEW g, NEW S, NEW w, NEW r, NEW lines, NEW m, NEW p, AtWork(g, S, w, lines, m, p, r),
           EndsEdge(g, w, r), Coming(w, r).prog \notin DOMAIN Before(w, r).programID,
           NEW s, s = [teams |-> r.teams, edges |-> r.edges + 1, lines |-> 0, roots |-> 0]
    PROVE  LET b == Before(w, r).nbPrograms
           IN  /\ b \in DOMAIN m.programID /\ m.programID[b] = NumberOf(w, s, Coming(w, r).prog)
               /\ m.programID[b] \in Nat
<1> DEFINE b == Before(w, r).nbPrograms
           f == FirstProgram(w)
<1>1. /\ IsPlace(g, w, r) /\ FileSense(g, S, w) /\ IsFile(g, S, w, lines) /\ ProgramsKnown(w, m, r)
  BY DEF AtWork, Progress
<1>2. AfterEdge(g, w, r, s)
  BY <1>1, NextEdge
<1>3. r.lines > 0
  <2>1. r.lines + 1 \in {4, 5} /\ r.lines \in 0 .. 4
    BY <1>1 DEF EndsEdge, FirstWidth, IsPlace
  <2> QED BY <2>1
<1>4. /\ m.programID \in MapsOf(Nat, Nat) /\ f \in Nat /\ b \in Nat /\ f <= b
  BY ProgramFacts
<1>5. DOMAIN m.programID = f .. (b + 1) - 1 /\ \A k \in f .. (b + 1) - 1 : m.programID[k] = k - f + 1
  BY <1>1, <1>3 DEF ProgramsKnown
<1>6. NumberOf(w, s, Coming(w, r).prog) = b - f + 1
  BY <1>2 DEF AfterEdge, NumberOf
<1> HIDE DEF b, f
<1>7. b \in f .. (b + 1) - 1 /\ b - f + 1 \in Nat
  BY <1>4
<1> QED BY <1>5, <1>6, <1>7 DEF b

LEMMA ReadToActionStep ==
    ASSUME NEW g, NEW S, NEW w, NEW r, AtWork(g, S, w, exporter.lines, importer, pos, r),
           ReadLinkTeamProgramAction
    PROVE  \E s : Progress(g, S, w, importer', pos', s)
<1> DEFINE m == importer
           e == Coming(w, r)
           x == Before(w, r)
           s == [teams |-> r.teams, edges |-> r.edges + 1, lines |-> 0, roots |-> 0]
<1>1. AtToAction(g, w, r, Line)
  <2>1. Line.shape = "T->P->A"
    BY DEF ReadLinkTeamProgramAction, Reading
  <2> QED BY <2>1, LineRead, LineShapes
<1>2. /\ Line.team = w.id[e.src] /\ Line.prog = x.nbPrograms /\ Line.action = x.nbActions
      /\ AtFirst(w, r, 4) /\ AtEdge(w, r) /\ r.lines = 4 /\ IsAction(g, e.dst) /\ e.prog \notin DOMAIN x.programID
      /\ r.teams = Len(w.teams) /\ r.edges < Len(w.edges)
  BY <1>1 DEF AtToAction, AtFirst, AtEdge, ToActionLine
<1>3. EndsEdge(g, w, r)
  BY <1>2 DEF EndsEdge, FirstWidth
<1>4. /\ IsPlace(g, w, r) /\ FileSense(g, S, w) /\ m \in Importers(S) /\ VerticesKnown(w, m.graph, r)
      /\ ActionsKnown(g, w, m.graph, m.actionID, r) /\ LabelsKnown(g, w, m.actionLabel, m.actionID, r)
  BY DEF AtWork, Progress
<1>5. e.src \in ToSet(w.teams)
  <2>1. r.edges + 1 \in 1 .. Len(w.edges)
    BY <1>2, <1>4 DEF IsPlace, FileSense
  <2> QED BY <1>4, <2>1 DEF FileSense, Coming
<1>6. PICK a \in Nat : TeamNumber(w, m.vertexID, e.src, a)
  BY <1>2, <1>5, TeamRead
<1> DEFINE k == m.programID[x.nbPrograms]
           l == g.kind[e.dst]
           d == m.actionID[l]
<1>7. x.nbPrograms \in DOMAIN m.programID /\ k = NumberOf(w, s, e.prog) /\ k \in Nat
  <2> HIDE DEF s
  <2>1. s = [teams |-> r.teams, edges |-> r.edges + 1, lines |-> 0, roots |-> 0]
    BY DEF s
  <2> QED BY <1>2, <1>3, <2>1, ProgramRead
<1>8. x.nbActions \in DOMAIN m.actionLabel /\ m.actionLabel[x.nbActions] = l /\ l \in DOMAIN m.actionID
  BY <1>2, <1>4 DEF LabelsKnown
<1>9. d \in r.teams + 1 .. Len(m.graph.vertices) /\ m.graph.kind[d] = l
  BY <1>4, <1>8 DEF ActionsKnown
<1>10. d \in Nat /\ EndRead(g, w, m.graph, d, e.dst)
  <2>1. r.teams \in Nat
    BY <1>4 DEF IsPlace, FileSense
  <2>2. d \in 1 .. Len(m.graph.vertices) /\ d \in Nat
    BY <1>9, <2>1
  <2>3. ~ IsTeam(g, e.dst)
    BY <1>2 DEF IsAction, IsTeam
  <2> QED BY <1>9, <2>2, <2>3 DEF EndRead
<1>11. Link(w.id[e.src], d, k)
  <2>1. Knows(Line) /\ Line.action \in DOMAIN m.actionLabel
    BY <1>2, <1>6, <1>7, <1>8 DEF Knows, TeamNumber
  <2> QED BY <1>2, <1>8, <2>1 DEF ReadLinkTeamProgramAction
<1>12. Progress(g, S, w, importer', pos', s)
  <2> DEFINE t == w.id[e.src]
  <2>1. Link(t, d, k) /\ t = w.id[Coming(w, r).src]
    BY <1>11
  <2>2. s = [teams |-> r.teams, edges |-> r.edges + 1, lines |-> 0, roots |-> 0]
    BY DEF s
  <2> HIDE DEF s, t, d, k
  <2> QED BY <1>3, <1>6, <1>7, <1>10, <2>1, <2>2, LinkStep
<1> QED BY <1>12

LEMMA ReadToTeamStep ==
    ASSUME NEW g, NEW S, NEW w, NEW r, AtWork(g, S, w, exporter.lines, importer, pos, r),
           ReadLinkTeamProgramTeam
    PROVE  \E s : Progress(g, S, w, importer', pos', s)
<1> DEFINE m == importer
           e == Coming(w, r)
           x == Before(w, r)
           s == [teams |-> r.teams, edges |-> r.edges + 1, lines |-> 0, roots |-> 0]
<1>1. AtToTeam(g, w, r, Line)
  <2>1. Line.shape = "T->P->T"
    BY DEF ReadLinkTeamProgramTeam, Reading
  <2> QED BY <2>1, LineRead, LineShapes
<1>2. /\ Line.team = w.id[e.src] /\ Line.prog = x.nbPrograms /\ Line.dest = w.id[e.dst]
      /\ AtFirst(w, r, 3) /\ AtEdge(w, r) /\ r.lines = 3 /\ IsTeam(g, e.dst) /\ e.prog \notin DOMAIN x.programID
      /\ r.teams = Len(w.teams) /\ r.edges < Len(w.edges)
  BY <1>1 DEF AtToTeam, AtFirst, AtEdge, ToTeamLine
<1>3. EndsEdge(g, w, r)
  BY <1>2 DEF EndsEdge, FirstWidth, IsTeam, IsAction
<1>4. /\ IsPlace(g, w, r) /\ FileSense(g, S, w)
  BY DEF AtWork, Progress
<1>5. e.src \in ToSet(w.teams) /\ e.dst \in ToSet(w.teams)
  <2>1. r.edges + 1 \in 1 .. Len(w.edges)
    BY <1>2, <1>4 DEF IsPlace, FileSense
  <2> QED BY <1>2, <1>4, <2>1 DEF FileSense, Coming
<1>6. PICK a \in Nat : TeamNumber(w, m.vertexID, e.src, a)
  BY <1>2, <1>5, TeamRead
<1>7. PICK d \in Nat : TeamNumber(w, m.vertexID, e.dst, d)
  BY <1>2, <1>5, TeamRead
<1> DEFINE k == m.programID[x.nbPrograms]
<1>8. x.nbPrograms \in DOMAIN m.programID /\ k = NumberOf(w, s, e.prog) /\ k \in Nat
  <2> HIDE DEF s
  <2>1. s = [teams |-> r.teams, edges |-> r.edges + 1, lines |-> 0, roots |-> 0]
    BY DEF s
  <2> QED BY <1>2, <1>3, <2>1, ProgramRead
<1>9. EndRead(g, w, m.graph, d, e.dst)
  BY <1>2, <1>7 DEF EndRead, TeamNumber
<1>10. Link(w.id[e.src], d, k)
  <2>1. Knows(Line) /\ Line.dest \in DOMAIN m.vertexID /\ m.vertexID[Line.dest] = d
    BY <1>2, <1>6, <1>7, <1>8 DEF Knows, TeamNumber
  <2> QED BY <1>2, <2>1 DEF ReadLinkTeamProgramTeam
<1>11. Progress(g, S, w, importer', pos', s)
  <2> DEFINE t == w.id[e.src]
  <2>1. Link(t, d, k) /\ t = w.id[Coming(w, r).src]
    BY <1>10
  <2>2. s = [teams |-> r.teams, edges |-> r.edges + 1, lines |-> 0, roots |-> 0]
    BY DEF s
  <2> HIDE DEF s, t, k
  <2> QED BY <1>3, <1>6, <1>8, <1>9, <2>1, <2>2, LinkStep
<1> QED BY <1>11

-----------------------------------------------------------------------------
(* The edges that share a program have one destination as they are read, that of the first one. *)

LEMMA FirstSharing ==
    ASSUME NEW T, NEW q \in Seq(T), NEW Q, NEW i \in DOMAIN q, q[i] \in Q
    PROVE  SelectIn(q, Q) # <<>> /\ \E t \in DOMAIN q : Head(SelectIn(q, Q)) = q[t] /\ q[t] \in Q
<1> DEFINE s == SelectIn(q, Q)
<1>1. s \in Seq(T) /\ ToSet(s) = ToSet(q) \cap Q
  BY SelectedElements
<1>2. q[i] \in ToSet(s)
  BY <1>1 DEF ToSet
<1>3. s # <<>> /\ Len(s) \in Nat /\ DOMAIN s = 1 .. Len(s) /\ 1 \in DOMAIN s
  <2> HIDE DEF s
  <2>1. Len(s) \in Nat /\ DOMAIN s = 1 .. Len(s)
    BY <1>1, LenProperties
  <2>2. PICK j \in 1 .. Len(s) : s[j] = q[i]
    BY <1>2, <2>1 DEF ToSet
  <2> QED BY <2>1, <2>2
<1>4. s[1] \in ToSet(q) /\ s[1] \in Q
  BY <1>1, <1>3 DEF ToSet
<1>5. Head(s) = s[1]
  <2> HIDE DEF s
  <2> QED BY <1>1, <1>3
<1>6. \E t \in DOMAIN q : s[1] = q[t]
  BY <1>4 DEF ToSet
<1> QED BY <1>3, <1>4, <1>5, <1>6

LEMMA ReadSharedStep ==
    ASSUME NEW g, NEW S, NEW w, NEW r, AtWork(g, S, w, exporter.lines, importer, pos, r),
           ReadLinkTeamProgram
    PROVE  \E s : Progress(g, S, w, importer', pos', s)
<1> DEFINE m == importer
           G == m.graph
           e == Coming(w, r)
           x == Before(w, r)
           f == FirstProgram(w)
           b == x.nbPrograms
           h == x.programID[e.prog]
           i == r.edges
           s == [teams |-> r.teams, edges |-> r.edges + 1, lines |-> 0, roots |-> 0]
<1>1. AtShared(w, r, Line)
  <2>1. Line.shape = "T->P"
    BY DEF ReadLinkTeamProgram, Reading
  <2> QED BY <2>1, LineRead, LineShapes
<1>2. /\ Line.team = w.id[e.src] /\ Line.prog = h /\ AtEdge(w, r) /\ r.lines = 0 /\ e.prog \in DOMAIN x.programID
      /\ r.teams = Len(w.teams) /\ i < Len(w.edges)
  BY <1>1 DEF AtShared, AtEdge, SharedLine
<1>3. EndsEdge(g, w, r)
  BY <1>2 DEF EndsEdge
<1>4. /\ IsPlace(g, w, r) /\ FileSense(g, S, w) /\ IsFile(g, S, w, exporter.lines) /\ m \in Importers(S)
      /\ ProgramsKnown(w, m, r) /\ EdgesKnown(g, w, G, r)
  BY DEF AtWork, Progress
<1>5. i \in 0 .. Len(w.edges) /\ Len(w.edges) \in Nat /\ i + 1 \in 1 .. Len(w.edges)
      /\ ProgramsNumbered(f, x, w.edges, i) /\ x \in Exporters({w.id}, S)
  <2>1. i \in 0 .. Len(w.edges) /\ Len(w.edges) \in Nat
    BY <1>4 DEF IsPlace, FileSense
  <2> QED BY <1>2, <1>4, <2>1, PlaceFacts
<1>6. e.src \in ToSet(w.teams)
  BY <1>4, <1>5 DEF FileSense, Coming
<1>7. PICK a \in Nat : TeamNumber(w, m.vertexID, e.src, a)
  BY <1>2, <1>6, TeamRead
<1> DEFINE k == m.programID[h]
<1>8. h \in DOMAIN m.programID /\ k = h - f + 1 /\ k \in Nat
  <2>1. DOMAIN m.programID = f .. b - 1 /\ \A n \in f .. b - 1 : m.programID[n] = n - f + 1
    BY <1>2, <1>4 DEF ProgramsKnown
  <2>2. f \in Nat /\ b \in Nat /\ f <= b
    BY ProgramFacts
  <2>3. x.programID \in MapsOf(S, Nat)
    BY <1>5 DEF Exporters
  <2>4. h \in Nat /\ f <= h /\ h < b
    BY <1>2, <1>5, <2>3, NumbersAre DEF ProgramsNumbered
  <2> HIDE DEF f, b, h
  <2>5. h \in f .. b - 1 /\ h - f + 1 \in Nat
    BY <2>2, <2>4
  <2> QED BY <2>1, <2>5
<1>9. k = NumberOf(w, r, e.prog)
  BY <1>8 DEF NumberOf
<1>10. k = NumberOf(w, s, e.prog)
  <2>1. AfterEdge(g, w, r, s)
    <3> HIDE DEF s
    <3>1. s = [teams |-> r.teams, edges |-> r.edges + 1, lines |-> 0, roots |-> 0]
      BY DEF s
    <3> QED BY <1>3, <1>4, <3>1, NextEdge
  <2> QED BY <1>2, <1>8, <2>1 DEF AfterEdge, NumberOf
<1>11. /\ G.edges \in Seq(EdgeRecords) /\ Len(G.edges) = i /\ DOMAIN G.edges = 1 .. i
       /\ \A t \in 1 .. i : EdgeRead(g, w, G, NumberOf(w, r, w.edges[t].prog), G.edges[t], w.edges[t])
  BY <1>4, LenProperties DEF Importers, ReadGraphs, EdgesKnown
<1>12. PICK t0 \in 1 .. i : w.edges[t0].prog = e.prog
  BY <1>2, <1>5 DEF ProgramsNumbered
<1>13. G.edges[t0].prog = k
  BY <1>9, <1>11, <1>12 DEF EdgeRead
<1>14. EdgesSharing(k) # <<>> /\ \E t \in 1 .. i : Head(EdgesSharing(k)) = G.edges[t] /\ G.edges[t].prog = k
  <2> DEFINE q == G.edges
             Q == {y \in ToSet(q) : y.prog = k}
             T == EdgeRecords
             u == SelectIn(q, Q)
  <2>1. EdgesSharing(k) = u
    BY DEF EdgesSharing
  <2>2. q \in Seq(T) /\ t0 \in DOMAIN q /\ q[t0] \in Q /\ DOMAIN q = 1 .. i
    BY <1>11, <1>13 DEF ToSet
  <2>3. u # <<>> /\ \E t \in DOMAIN q : Head(u) = q[t] /\ q[t] \in Q
    <3> HIDE DEF q, Q, T, k
    <3> QED BY <2>2, FirstSharing
  <2> QED BY <2>1, <2>2, <2>3
<1>15. PICK t \in 1 .. i : Head(EdgesSharing(k)) = G.edges[t] /\ G.edges[t].prog = k
  BY <1>14
<1> DEFINE d == G.edges[t].dst
<1>16. w.edges[t].dst = e.dst
  <2>1. t \in 1 .. Len(w.edges) /\ w.edges[t].prog \in DOMAIN x.programID
    BY <1>5 DEF ProgramsNumbered
  <2>2. NumberOf(w, r, w.edges[t].prog) = k
    BY <1>11, <1>15 DEF EdgeRead
  <2>3. x.programID[w.edges[t].prog] = h
    <3> DEFINE h1 == x.programID[w.edges[t].prog]
    <3>1. h1 - f + 1 = h - f + 1
      BY <1>9, <2>2 DEF NumberOf
    <3>2. x.programID \in MapsOf(S, Nat)
      BY <1>5 DEF Exporters
    <3>3. h1 \in Nat /\ h \in Nat /\ f \in Nat
      BY <1>2, <2>1, <3>2, NumbersAre, ProgramFacts
    <3> HIDE DEF h1, h, f
    <3>4. h1 = h
      BY <3>1, <3>3
    <3> QED BY <3>4 DEF h1
  <2>4. w.edges[t].prog = e.prog
    BY <1>2, <1>5, <2>1, <2>3 DEF ProgramsNumbered
  <2>5. w.edges[i + 1].prog = w.edges[t].prog
    BY <2>4 DEF Coming
  <2> QED BY <1>4, <1>5, <2>1, <2>5 DEF FileSense, Coming
<1>17. d \in Nat /\ EndRead(g, w, G, d, e.dst)
  <2>1. EndRead(g, w, G, d, w.edges[t].dst)
    BY <1>11 DEF EdgeRead
  <2>2. G.edges[t] \in EdgeRecords
    BY <1>11, ElementOfSeq
  <2> QED BY <1>16, <2>1, <2>2 DEF EdgeRecords
<1>18. Link(w.id[e.src], d, k)
  <2>1. Knows(Line) /\ EdgesSharing(k) # <<>>
    BY <1>2, <1>7, <1>8, <1>14 DEF Knows, TeamNumber
  <2>2. DestinationOf(k) = d
    BY <1>15 DEF DestinationOf
  <2>3. IF Knows(Line) /\ EdgesSharing(k) # <<>> THEN Link(Line.team, DestinationOf(k), k) ELSE Read(importer)
    BY <1>2 DEF ReadLinkTeamProgram
  <2> QED BY <1>2, <2>1, <2>2, <2>3
<1>19. Progress(g, S, w, importer', pos', s)
  <2> DEFINE t1 == w.id[e.src]
  <2>1. Link(t1, d, k) /\ t1 = w.id[Coming(w, r).src] /\ EndRead(g, w, importer.graph, d, Coming(w, r).dst) /\ d \in Nat
    BY <1>17, <1>18
  <2>2. s = [teams |-> r.teams, edges |-> r.edges + 1, lines |-> 0, roots |-> 0]
    BY DEF s
  <2>3. k = NumberOf(w, s, Coming(w, r).prog) /\ k \in Nat
    BY <1>8, <1>10
  <2> HIDE DEF s, t1, k, d
  <2> QED BY <1>3, <1>7, <2>1, <2>2, <2>3, LinkStep
<1> QED BY <1>19

-----------------------------------------------------------------------------
(* The breadth-first scan of the policy of a vertex *)

TeamsAdded(s, t, A) == Distinct(t) /\ Extends(s, t) /\ ToSet(t) = ToSet(s) \cup A

LEMMA TeamAdded ==
    ASSUME NEW g, NEW V, NEW s \in Seq(V), Distinct(s), NEW v \in V
    PROVE  /\ AddTeam(g, s, v) \in Seq(V)
           /\ TeamsAdded(s, AddTeam(g, s, v), {u \in {v} : IsTeam(g, u)})
<1> DEFINE n == Len(s)
           t == AddTeam(g, s, v)
           a == Append(s, v)
           A == {u \in {v} : IsTeam(g, u)}
<1>1. n \in Nat /\ DOMAIN s = 1 .. n
  BY LenProperties
<1>2. Contains(s, v) <=> v \in ToSet(s)
  BY <1>1 DEF Contains, ToSet
<1>3. CASE IsTeam(g, v) /\ v \notin ToSet(s)
  <2>1. t = a /\ A = {v}
    BY <1>2, <1>3 DEF AddTeam
  <2>2. /\ a \in Seq(V) /\ Len(a) = n + 1 /\ a[n + 1] = v /\ DOMAIN a = 1 .. n + 1
        /\ \A i \in 1 .. n : a[i] = s[i]
    BY <1>1, AppendProperties, LenProperties
  <2> HIDE DEF a, t
  <2>3. \A i \in 1 .. n + 1 : i \in 1 .. n \/ i = n + 1
    BY <1>1
  <2>4. n + 1 \in 1 .. n + 1 /\ n <= n + 1 /\ \A i \in 1 .. n : i \in 1 .. n + 1
    BY <1>1
  <2> HIDE DEF n
  <2>5. ToSet(a) = ToSet(s) \cup {v}
    <3>1. ToSet(a) = {a[i] : i \in 1 .. n + 1}
      BY <2>2 DEF ToSet
    <3>2. ToSet(s) = {s[i] : i \in 1 .. n}
      BY <1>1 DEF ToSet
    <3> QED BY <2>2, <2>3, <2>4, <3>1, <3>2
  <2>6. Distinct(a)
    <3>1. \A i \in 1 .. n : s[i] # v
      BY <1>1, <1>3 DEF ToSet
    <3>2. \A i, j \in 1 .. n : s[i] = s[j] => i = j
      BY <1>1 DEF Distinct
    <3>3. \A i, j \in 1 .. n + 1 : a[i] = a[j] => i = j
      BY <2>2, <2>3, <3>1, <3>2
    <3> QED BY <2>2, <3>3 DEF Distinct
  <2>7. Extends(s, a)
    BY <2>2, <2>4 DEF Extends, n
  <2> QED BY <2>1, <2>2, <2>5, <2>6, <2>7 DEF TeamsAdded, t
<1>4. CASE ~ (IsTeam(g, v) /\ v \notin ToSet(s))
  <2>1. t = s /\ A \subseteq ToSet(s)
    BY <1>2, <1>4 DEF AddTeam
  <2>2. Extends(s, s)
    BY <1>1 DEF Extends
  <2> QED BY <2>1, <2>2 DEF TeamsAdded
<1> QED BY <1>3, <1>4

LEMMA AddedTwice ==
    ASSUME NEW T, NEW s \in Seq(T), NEW t \in Seq(T), NEW u \in Seq(T), NEW A, NEW B, NEW C, C = A \cup B,
           TeamsAdded(s, t, A), TeamsAdded(t, u, B)
    PROVE  TeamsAdded(s, u, C)
<1>1. Extends(s, u)
  BY ExtendsFacts DEF TeamsAdded
<1> QED BY <1>1 DEF TeamsAdded

TeamsAmong(g, q, i) == {v \in {q[k].dst : k \in 1 .. i} : IsTeam(g, v)}

LEMMA TeamsAllAdded ==
    ASSUME NEW g, NEW V, NEW E, \A e \in E : e.dst \in V, NEW q \in Seq(E), NEW s \in Seq(V), Distinct(s)
    PROVE  /\ AddTeams(g, s, q) \in Seq(V)
           /\ TeamsAdded(s, AddTeams(g, s, q), TeamsAmong(g, q, Len(q)))
<1> DEFINE n == Len(q)
<1>1. PICK c : AddTeamsSteps(g, V, s, q, c)
  BY AddTeamsChain
<1>2. n \in Nat /\ \A i \in 1 .. n : q[i] \in E
  BY LenProperties, ElementOfSeq
<1>3. /\ \A i \in 0 .. n : c[i] \in Seq(V)
      /\ c[0] = s /\ \A i \in 1 .. n : c[i] = AddTeam(g, c[i - 1], q[i].dst)
      /\ AddTeams(g, s, q) = c[n]
  BY <1>1 DEF AddTeamsSteps
<1> DEFINE Good(i) == TeamsAdded(s, c[i], TeamsAmong(g, q, i))
           B == {i \in 0 .. n : ~ Good(i)}
<1>4. Good(0)
  <2>1. TeamsAmong(g, q, 0) = {} /\ Extends(s, s)
    BY LenProperties DEF TeamsAmong, Extends
  <2> QED BY <1>3, <2>1 DEF TeamsAdded
<1>5. ASSUME NEW i \in 1 .. n, Good(i - 1) PROVE Good(i)
  <2> DEFINE t == c[i - 1]
             u == c[i]
             v == q[i].dst
             X == TeamsAmong(g, q, i - 1)
             Y == {y \in {v} : IsTeam(g, y)}
             Z == TeamsAmong(g, q, i)
  <2>1. i - 1 \in 0 .. n /\ i \in 0 .. n /\ 1 .. i = 1 .. i - 1 \cup {i}
    BY <1>2
  <2>2. t \in Seq(V) /\ u \in Seq(V) /\ v \in V /\ u = AddTeam(g, t, v)
    BY <1>2, <1>3, <2>1
  <2>3. TeamsAdded(s, t, X) /\ Distinct(t)
    BY <1>5 DEF TeamsAdded
  <2>4. Z = X \cup Y
    BY <2>1 DEF TeamsAmong
  <2> HIDE DEF t, u, v, X, Y, Z
  <2>5. TeamsAdded(t, u, Y)
    BY <2>2, <2>3, TeamAdded DEF Y
  <2>6. TeamsAdded(s, u, Z)
    BY <2>2, <2>3, <2>4, <2>5, AddedTwice
  <2> QED BY <2>6 DEF u, Z
<1>6. B = {}
  <2>1. B \in SUBSET (0 .. n)
    OBVIOUS
  <2>2. \A i \in 1 .. n : i \in B => i - 1 \in B
    <3>1. \A i \in 1 .. n : i - 1 \in 0 .. n
      BY <1>2
    <3> HIDE DEF Good
    <3> QED BY <1>5, <3>1
  <2>3. 0 \notin B
    BY <1>4
  <2> HIDE DEF B
  <2> QED BY <1>2, <2>1, <2>2, <2>3, NoFirstFailure
<1>7. n \in 0 .. n
  BY <1>2
<1>8. Good(n)
  BY <1>6, <1>7
<1> QED BY <1>3, <1>7, <1>8 DEF n

(* The edges that leave a vertex, in order *)
LEMMA OutgoingFacts ==
    ASSUME NEW g, IsOrderedGraph(g), NEW v
    PROVE  LET out == OutgoingEdges(g, v)
           IN  /\ out \in Seq(ToSet(g.edges)) /\ Distinct(out)
               /\ ToSet(out) = {e \in ToSet(g.edges) : e.src = v}
<1> DEFINE T == ToSet(g.edges)
           q == g.edges
           S == {e \in T : e.src = v}
<1>1. q \in Seq(T) /\ \A i, j \in DOMAIN q : q[i] = q[j] => i = j
  BY OrderedGraphFacts
<1>2. OutgoingEdges(g, v) = SelectIn(q, S) /\ T = ToSet(q)
  BY DEF OutgoingEdges
<1>3. S \subseteq T
  OBVIOUS
<1> HIDE DEF T, q, S
<1>4. SelectIn(q, S) \in Seq(T) /\ ToSet(SelectIn(q, S)) = ToSet(q) \cap S /\ Distinct(SelectIn(q, S))
  BY <1>1, SelectedElements DEF Distinct
<1> QED BY <1>2, <1>3, <1>4 DEF T, S

TeamsAfter(g, v) == {d \in {e.dst : e \in {x \in ToSet(g.edges) : x.src = v}} : IsTeam(g, d)}

LEMMA NextTeamsAdded ==
    ASSUME NEW g, IsOrderedGraph(g), NEW V, ToSet(g.vertices) \subseteq V, NEW s \in Seq(V), Distinct(s), NEW v
    PROVE  NextTeams(g, s, v) \in Seq(V) /\ TeamsAdded(s, NextTeams(g, s, v), TeamsAfter(g, v))
<1> DEFINE q == OutgoingEdges(g, v)
           E == ToSet(g.edges)
<1>1. q \in Seq(E) /\ ToSet(q) = {e \in E : e.src = v} /\ \A e \in E : e.dst \in V
  BY OutgoingFacts, OrderedGraphFacts
<1>2. NextTeams(g, s, v) = AddTeams(g, s, q)
  BY <1>1, TeamsFollow
<1>3. TeamsAmong(g, q, Len(q)) = TeamsAfter(g, v)
  <2>1. ToSet(q) = {q[k] : k \in 1 .. Len(q)}
    BY <1>1, LenProperties DEF ToSet
  <2> QED BY <1>1, <2>1 DEF TeamsAmong, TeamsAfter
<1> HIDE DEF q, E
<1>4. AddTeams(g, s, q) \in Seq(V) /\ TeamsAdded(s, AddTeams(g, s, q), TeamsAmong(g, q, Len(q)))
  BY <1>1, TeamsAllAdded
<1> QED BY <1>2, <1>3, <1>4

-----------------------------------------------------------------------------
(* The policy of a vertex is the least set that holds it and the destinations of its edges. *)

ClosedUnder(g, W) == \A e \in ToSet(g.edges) : e.src \in W => e.dst \in W

ListedGraph(g) == IsOrderedGraph(g) /\ Distinct(g.vertices)

LEMMA ListedFacts ==
    ASSUME NEW g, ListedGraph(g)
    PROVE  LET V == ToSet(g.vertices)
           IN  /\ Len(g.vertices) \in Nat /\ IsFiniteSet(V) /\ Cardinality(V) = Len(g.vertices)
               /\ DOMAIN g.vertices = 1 .. Len(g.vertices)
BY OrderedGraphFacts, DistinctLength, LenProperties DEF ListedGraph

LEMMA WithinLeast ==
    ASSUME NEW g, NEW root, NEW W, root \in W, ClosedUnder(g, W), NEW n \in Nat
    PROVE  Within(g, {root}, n) \subseteq W
<1> DEFINE B == {m \in 0 .. n : ~ (Within(g, {root}, m) \subseteq W)}
<1>1. 0 \notin B
  BY WithinFacts
<1>2. ASSUME NEW m \in 1 .. n, Within(g, {root}, m - 1) \subseteq W PROVE Within(g, {root}, m) \subseteq W
  <2> DEFINE k == m - 1
  <2>1. k \in Nat /\ k + 1 = m
    OBVIOUS
  <2> HIDE DEF k
  <2>2. Within(g, {root}, k + 1) = ReachNext(g, Within(g, {root}, k))
    BY <2>1, WithinFacts
  <2> QED BY <1>2, <2>1, <2>2 DEF ReachNext, ClosedUnder, k
<1>3. B \in SUBSET (0 .. n) /\ \A m \in 1 .. n : m - 1 \in 0 .. n
  OBVIOUS
<1>4. \A m \in 1 .. n : m \in B => m - 1 \in B
  BY <1>2, <1>3
<1> HIDE DEF B
<1>5. B = {}
  BY <1>1, <1>3, <1>4, NoFirstFailure
<1> QED BY <1>5 DEF B

LEMMA WithinSettles ==
    ASSUME NEW g, ListedGraph(g), NEW root \in ToSet(g.vertices)
    PROVE  \E n \in 0 .. Len(g.vertices) : Within(g, {root}, n + 1) = Within(g, {root}, n)
<1> DEFINE N == Len(g.vertices)
           V == ToSet(g.vertices)
           R(n) == Within(g, {root}, n)
<1>1. N \in Nat /\ IsFiniteSet(V) /\ Cardinality(V) = N
  BY ListedFacts
<1>2. ClosedUnder(g, V)
  BY OrderedGraphFacts DEF ListedGraph, ClosedUnder
<1>3. \A n \in Nat : R(n) \subseteq V /\ IsFiniteSet(R(n)) /\ Cardinality(R(n)) \in Nat /\ Cardinality(R(n)) <= N
  <2> TAKE n \in Nat
  <2>1. R(n) \subseteq V
    BY <1>2, WithinLeast
  <2> HIDE DEF R, V
  <2> QED BY <1>1, <2>1, FS_Subset, FS_CardinalityType
<1>4. SUFFICES ASSUME \A n \in 0 .. N : R(n + 1) # R(n) PROVE FALSE
  OBVIOUS
<1> DEFINE B == {n \in 0 .. N : ~ (n + 1 <= Cardinality(R(n)))}
<1>5. 0 \notin B
  <2>1. R(0) = {root}
    BY WithinFacts
  <2>2. Cardinality({root}) = 1
    BY FS_Singleton
  <2> HIDE DEF R
  <2> QED BY <2>1, <2>2
<1>6. ASSUME NEW n \in 1 .. N, n <= Cardinality(R(n - 1)) PROVE n + 1 <= Cardinality(R(n))
  <2> DEFINE k == n - 1
  <2>1. k \in Nat /\ k \in 0 .. N /\ k + 1 = n /\ n \in Nat
    BY <1>1
  <2> HIDE DEF k
  <2>2. R(k) \subseteq R(k + 1)
    BY <2>1, WithinFacts DEF ReachNext
  <2>3. R(k) # R(k + 1) /\ IsFiniteSet(R(k + 1)) /\ Cardinality(R(k)) \in Nat /\ Cardinality(R(k + 1)) \in Nat
    BY <1>3, <1>4, <2>1
  <2> DEFINE a == R(k)
             b == R(k + 1)
  <2> HIDE DEF R, a, b
  <2>4. Cardinality(a) <= Cardinality(b) /\ Cardinality(a) # Cardinality(b)
    BY <2>2, <2>3, FS_Subset DEF a, b
  <2>5. n <= Cardinality(a) /\ R(n) = b /\ Cardinality(a) \in Nat /\ Cardinality(b) \in Nat
    BY <1>6, <2>1, <2>3 DEF a, b, k
  <2> QED BY <2>1, <2>4, <2>5
<1> HIDE DEF R
<1>7. \A n \in 1 .. N : n \in B => n - 1 \in B
  <2>1. \A n \in 1 .. N : n - 1 \in 0 .. N /\ (n - 1) + 1 = n
    BY <1>1
  <2> QED BY <1>6, <2>1
<1>8. B \in SUBSET (0 .. N)
  OBVIOUS
<1>9. B = {}
  <2> HIDE DEF B
  <2> QED BY <1>1, <1>5, <1>7, <1>8, NoFirstFailure
<1>10. N + 1 <= Cardinality(R(N))
  BY <1>1, <1>9
<1> QED BY <1>1, <1>3, <1>10

LEMMA PolicyIsLeast ==
    ASSUME NEW g, ListedGraph(g), NEW root \in ToSet(g.vertices)
    PROVE  LET P == Policy(g, root)
           IN  /\ root \in P /\ ClosedUnder(g, P) /\ P \subseteq ToSet(g.vertices)
               /\ \A W : root \in W /\ ClosedUnder(g, W) => P \subseteq W
<1> DEFINE N == Len(g.vertices)
           P == Within(g, {root}, N)
<1>1. N \in Nat /\ Policy(g, root) = P
  BY ListedFacts DEF Policy
<1>2. root \in P
  BY <1>1, WithinFacts
<1>3. \A W : root \in W /\ ClosedUnder(g, W) => P \subseteq W
  BY <1>1, WithinLeast
<1>4. PICK n \in 0 .. N : Within(g, {root}, n + 1) = Within(g, {root}, n)
  BY WithinSettles
<1>5. n \in Nat /\ n <= N
  BY <1>1
<1>6. P = Within(g, {root}, n)
  <2> HIDE DEF N
  <2> QED BY <1>1, <1>4, <1>5, WithinStays
<1>7. Within(g, {root}, n + 1) = ReachNext(g, Within(g, {root}, n))
  BY <1>5, WithinFacts
<1>8. ClosedUnder(g, P)
  <2> HIDE DEF P
  <2> QED BY <1>4, <1>6, <1>7 DEF ClosedUnder, ReachNext
<1>9. P \subseteq ToSet(g.vertices)
  <2>1. ClosedUnder(g, ToSet(g.vertices))
    BY OrderedGraphFacts DEF ListedGraph, ClosedUnder
  <2> QED BY <1>3, <2>1
<1> QED BY <1>1, <1>2, <1>3, <1>8, <1>9

(* The list that the scan of breadth makes: the teams of the policy, each once *)
ScannedUpTo(g, root, P, s, i) ==
    /\ Distinct(s) /\ root \in ToSet(s) /\ ToSet(s) \subseteq P
    /\ \A k \in 1 .. i : k \in DOMAIN s => TeamsAfter(g, s[k]) \subseteq ToSet(s)

LEMMA OneScan ==
    ASSUME NEW g, IsOrderedGraph(g), NEW V, V = ToSet(g.vertices), NEW root, NEW P, ClosedUnder(g, P),
           NEW i \in Nat \ {0}, NEW s \in Seq(V), ScannedUpTo(g, root, P, s, i - 1)
    PROVE  ScannedUpTo(g, root, P, Scan(g, s, i), i)
<1> DEFINE t == Scan(g, s, i)
<1>1. Len(s) \in Nat /\ DOMAIN s = 1 .. Len(s) /\ Distinct(s) /\ root \in ToSet(s) /\ ToSet(s) \subseteq P
      /\ \A k \in 1 .. i - 1 : k \in DOMAIN s => TeamsAfter(g, s[k]) \subseteq ToSet(s)
  BY LenProperties DEF ScannedUpTo
<1>2. \A k \in 1 .. i : k \in 1 .. i - 1 \/ k = i
  OBVIOUS
<1>3. CASE i \notin DOMAIN s
  <2>1. t = s
    BY <1>3 DEF Scan
  <2> QED BY <1>1, <1>2, <1>3, <2>1 DEF ScannedUpTo
<1>4. CASE i \in DOMAIN s
  <2> DEFINE v == s[i]
             A == TeamsAfter(g, v)
  <2>1. t = NextTeams(g, s, v)
    BY <1>4 DEF Scan
  <2>2. t \in Seq(V) /\ TeamsAdded(s, t, A)
    BY <1>1, <2>1, NextTeamsAdded
  <2>3. Distinct(t) /\ ToSet(t) = ToSet(s) \cup A /\ \A k \in 1 .. Len(s) : t[k] = s[k]
    BY <2>2 DEF TeamsAdded, Extends
  <2>4. A \subseteq P
    <3>1. v \in P
      BY <1>1, <1>4 DEF ToSet
    <3> QED BY <3>1 DEF ClosedUnder, TeamsAfter
  <2>5. ASSUME NEW k \in 1 .. i PROVE TeamsAfter(g, t[k]) \subseteq ToSet(t)
    <3>1. k \in 1 .. Len(s) /\ t[k] = s[k]
      BY <1>1, <1>4, <2>3
    <3> QED BY <1>1, <1>2, <2>3, <3>1
  <2> QED BY <1>1, <2>3, <2>4, <2>5 DEF ScannedUpTo
<1> QED BY <1>3, <1>4

LEMMA BreadthFirstFacts ==
    ASSUME NEW g, ListedGraph(g), NEW root \in ToSet(g.vertices)
    PROVE  LET s == BreadthFirst(g, root)
           IN  /\ s \in Seq(ToSet(g.vertices)) /\ Distinct(s) /\ Len(s) \in Nat \ {0}
               /\ \A v \in ToSet(g.vertices) : IsTeam(g, v) => (v \in ToSet(s) <=> v \in Policy(g, root))
<1> DEFINE N == Len(g.vertices)
           V == ToSet(g.vertices)
           q == [i \in DOMAIN g.vertices |-> i]
           base == <<root>>
           P == Policy(g, root)
           s == BreadthFirst(g, root)
<1>1. N \in Nat /\ IsFiniteSet(V) /\ Cardinality(V) = N /\ DOMAIN g.vertices = 1 .. N /\ IsOrderedGraph(g)
  BY ListedFacts DEF ListedGraph
<1>2. root \in P /\ ClosedUnder(g, P) /\ P \subseteq V /\ \A W : root \in W /\ ClosedUnder(g, W) => P \subseteq W
  BY PolicyIsLeast
<1>3. s = Scans(g, base, q)
  BY DEF BreadthFirst, FoldLeftDomain, Scans
<1>4. q \in Seq(Nat) /\ Len(q) = N /\ \A i \in 1 .. N : q[i] = i
  <2>1. q = [i \in 1 .. N |-> i]
    BY <1>1
  <2> HIDE DEF N
  <2> QED BY <1>1, <2>1
<1>5. base \in Seq(V) /\ base[1] = root /\ Len(base) = 1
  OBVIOUS
<1>6. (\A v : OutgoingEdges(g, v) \in Seq(ToSet(g.edges))) /\ \A e \in ToSet(g.edges) : e.dst \in V
  BY <1>1, OutgoingFacts, OrderedGraphFacts
<1> HIDE DEF q, base, N, V, P, s
<1>7. PICK c : ScansSteps(g, V, base, q, c)
  BY <1>4, <1>5, <1>6, ScansChain
<1>8. /\ \A i \in 0 .. N : c[i] \in Seq(V)
      /\ c[0] = base /\ \A i \in 1 .. N : c[i] = Scan(g, c[i - 1], i)
      /\ s = c[N]
  BY <1>3, <1>4, <1>7 DEF ScansSteps
<1> DEFINE Good(i) == ScannedUpTo(g, root, P, c[i], i)
           B == {i \in 0 .. N : ~ Good(i)}
<1>9. Good(0)
  <2>1. DOMAIN base = 1 .. 1
    BY <1>5, LenProperties
  <2>2. Distinct(base) /\ ToSet(base) = {root}
    <3>1. 1 .. 1 = {1}
      OBVIOUS
    <3> QED BY <1>5, <2>1, <3>1 DEF Distinct, ToSet
  <2>3. 1 .. 0 = {}
    OBVIOUS
  <2> QED BY <1>2, <1>8, <2>2, <2>3 DEF ScannedUpTo
<1>10. ASSUME NEW i \in 1 .. N, Good(i - 1) PROVE Good(i)
  <2> DEFINE t == c[i - 1]
  <2>1. i \in Nat \ {0} /\ i - 1 \in 0 .. N
    BY <1>1
  <2>2. t \in Seq(V) /\ c[i] = Scan(g, t, i) /\ ScannedUpTo(g, root, P, t, i - 1)
    BY <1>8, <1>10, <2>1
  <2> HIDE DEF t
  <2>3. ScannedUpTo(g, root, P, Scan(g, t, i), i)
    BY <1>1, <1>2, <2>1, <2>2, OneScan DEF V
  <2> QED BY <2>2, <2>3
<1>11. B = {}
  <2>1. B \in SUBSET (0 .. N)
    OBVIOUS
  <2>2. \A i \in 1 .. N : i \in B => i - 1 \in B
    <3>1. \A i \in 1 .. N : i - 1 \in 0 .. N
      BY <1>1
    <3> HIDE DEF Good
    <3> QED BY <1>10, <3>1
  <2>3. 0 \notin B
    BY <1>9
  <2> HIDE DEF B
  <2> QED BY <1>1, <2>1, <2>2, <2>3, NoFirstFailure
<1>12. s \in Seq(V) /\ ScannedUpTo(g, root, P, s, N)
  <2>1. N \in 0 .. N
    BY <1>1
  <2> QED BY <1>8, <1>11, <2>1
<1>13. Distinct(s) /\ root \in ToSet(s) /\ ToSet(s) \subseteq P
       /\ \A k \in 1 .. N : k \in DOMAIN s => TeamsAfter(g, s[k]) \subseteq ToSet(s)
  BY <1>12 DEF ScannedUpTo
<1>14. Len(s) \in Nat /\ Len(s) <= N /\ DOMAIN s = 1 .. Len(s)
  <2>1. Cardinality(ToSet(s)) = Len(s) /\ Len(s) \in Nat
    BY <1>12, <1>13, DistinctLength
  <2>2. ToSet(s) \subseteq V
    BY <1>2, <1>13
  <2>3. Cardinality(ToSet(s)) <= Cardinality(V)
    BY <1>1, <2>2, FS_Subset
  <2> QED BY <1>1, <1>12, <2>1, <2>3, LenProperties
<1>15. \A v \in ToSet(s) : TeamsAfter(g, v) \subseteq ToSet(s)
  <2> TAKE v \in ToSet(s)
  <2>1. PICK k \in DOMAIN s : s[k] = v
    BY DEF ToSet
  <2>2. k \in 1 .. N
    BY <1>1, <1>14
  <2> QED BY <1>13, <2>1, <2>2
<1>16. Len(s) # 0
  <2>1. PICK k \in DOMAIN s : s[k] = root
    BY <1>13 DEF ToSet
  <2> QED BY <1>14, <2>1
<1> DEFINE W == ToSet(s) \cup {v \in V : ~ IsTeam(g, v)}
<1>17. ClosedUnder(g, W)
  <2> SUFFICES ASSUME NEW e \in ToSet(g.edges), e.src \in W PROVE e.dst \in W
    BY DEF ClosedUnder
  <2>1. IsTeam(g, e.src) /\ e.dst \in V
    BY <1>1, <1>6, OrderedGraphFacts
  <2>2. e.src \in ToSet(s)
    BY <2>1
  <2>3. IsTeam(g, e.dst) => e.dst \in TeamsAfter(g, e.src)
    BY DEF TeamsAfter
  <2> QED BY <1>15, <2>1, <2>2, <2>3
<1>18. P \subseteq W
  BY <1>2, <1>13, <1>17
<1>19. \A v \in V : IsTeam(g, v) => (v \in ToSet(s) <=> v \in P)
  BY <1>13, <1>18
<1> QED BY <1>12, <1>13, <1>14, <1>16, <1>19 DEF V, P, s

-----------------------------------------------------------------------------
(* A file of a graph, and its edges as they can be read *)

(* S holds the programs and the kinds of the actions. *)
GraphOK(g, S) ==
    /\ ListedGraph(g)
    /\ \A v \in ToSet(g.vertices) : IsAction(g, v) => g.kind[v] \in S
    /\ \A e \in ToSet(g.edges) : e.prog \in S

(* A program of a list has a first edge in it. *)
LEMMA FirstOfFacts ==
    ASSUME NEW q, NEW n \in Nat, DOMAIN q = 1 .. n, NEW i \in 1 .. n
    PROVE  LET k == FirstOf(q, q[i].prog)
           IN  k \in 1 .. n /\ k <= i /\ q[k].prog = q[i].prog
               /\ \A j \in 1 .. k - 1 : q[j].prog # q[i].prog
<1> DEFINE p == q[i].prog
           First(k) == q[k].prog = p /\ \A j \in 1 .. k - 1 : q[j].prog # p
           B == {k \in 0 .. n : \E j \in 1 .. k : q[j].prog = p}
<1>1. \E k \in 1 .. n : First(k)
  <2> SUFFICES ASSUME \A k \in 1 .. n : ~ First(k) PROVE FALSE
    OBVIOUS
  <2>1. B \in SUBSET (0 .. n) /\ 0 \notin B
    OBVIOUS
  <2>2. ASSUME NEW k \in 1 .. n, k \in B PROVE k - 1 \in B
    <3>1. PICK j \in 1 .. k : q[j].prog = p
      BY <2>2
    <3>2. CASE j = k
      <4>1. \E l \in 1 .. k - 1 : q[l].prog = p
        BY <3>1, <3>2
      <4> QED BY <4>1
    <3>3. CASE j # k
      <4>1. j \in 1 .. k - 1
        BY <3>3
      <4> QED BY <3>1, <4>1
    <3> QED BY <3>2, <3>3
  <2>3. n \in B
    OBVIOUS
  <2> HIDE DEF B
  <2> QED BY <2>1, <2>2, <2>3, NoFirstFailure
<1>2. First(FirstOf(q, p)) /\ FirstOf(q, p) \in 1 .. n
  BY <1>1 DEF FirstOf
<1> DEFINE k == FirstOf(q, p)
<1> HIDE DEF k
<1>3. k <= i
  <2>1. k \in 1 .. n /\ \A j \in 1 .. k - 1 : q[j].prog # p
    BY <1>2 DEF k
  <2>2. i \in 1 .. k - 1 => q[i].prog # p
    BY <2>1
  <2> QED BY <2>1, <2>2
<1> QED BY <1>2, <1>3 DEF k

LEMMA ReroutedFacts ==
    ASSUME NEW T, NEW q \in Seq(T), NEW r, r = Rerouted(q)
    PROVE  /\ Len(q) \in Nat /\ DOMAIN q = 1 .. Len(q) /\ DOMAIN r = 1 .. Len(q) /\ Len(r) = Len(q)
           /\ \A i \in 1 .. Len(q) : /\ r[i].src = q[i].src /\ r[i].prog = q[i].prog
                                     /\ FirstOf(q, q[i].prog) \in 1 .. Len(q)
                                     /\ r[i].dst = q[FirstOf(q, q[i].prog)].dst
<1> DEFINE n == Len(q)
           F(i) == EdgeTo(q[i], q[FirstOf(q, q[i].prog)].dst)
           R == {F(i) : i \in 1 .. n}
<1>1. n \in Nat /\ DOMAIN q = 1 .. n
  BY LenProperties
<1>2. r = [i \in 1 .. n |-> F(i)]
  BY <1>1 DEF Rerouted
<1>3. \A i \in 1 .. n : r[i] = F(i)
  <2> HIDE DEF n, F
  <2> QED BY <1>2
<1>4. DOMAIN r = 1 .. n /\ Len(r) = n
  <2>1. \A i \in 1 .. n : F(i) \in R
    OBVIOUS
  <2> HIDE DEF n, F, R
  <2>2. r \in [1 .. n -> R]
    BY <1>2, <2>1
  <2>3. r \in Seq(R) /\ DOMAIN r = 1 .. n
    BY <1>1, <2>2
  <2> QED BY <1>1, <2>3
<1>5. ASSUME NEW i \in 1 .. n
      PROVE  /\ F(i).src = q[i].src /\ F(i).prog = q[i].prog
             /\ F(i).dst = q[FirstOf(q, q[i].prog)].dst
  BY DEF EdgeTo
<1>6. \A i \in 1 .. n : FirstOf(q, q[i].prog) \in 1 .. n
  <2> HIDE DEF n
  <2> QED BY <1>1, FirstOfFacts
<1> HIDE DEF F, n
<1> QED BY <1>1, <1>3, <1>4, <1>5, <1>6 DEF n

AsRead(w) == [teams |-> w.teams, edges |-> Rerouted(w.edges), roots |-> w.roots, id |-> w.id, at |-> w.at]

(* A file does not say where the edges of a program lead but for the first one. *)
LEMMA FileAsRead ==
    ASSUME NEW g, NEW S, NEW T, NEW w, w.edges \in Seq(T), NEW lines, IsFile(g, S, w, lines)
    PROVE  IsFile(g, S, AsRead(w), lines)
<1> DEFINE q == w.edges
           n == Len(q)
           r == Rerouted(q)
           u == AsRead(w)
<1>1. u.teams = w.teams /\ u.edges = r /\ u.roots = w.roots /\ u.id = w.id /\ u.at = w.at
  BY DEF AsRead
<1>2. /\ n \in Nat /\ DOMAIN q = 1 .. n /\ Len(r) = n
      /\ \A i \in 1 .. n : /\ r[i].src = q[i].src /\ r[i].prog = q[i].prog
                           /\ r[i].dst = q[FirstOf(q, q[i].prog)].dst
  <2> HIDE DEF q, r
  <2> QED BY ReroutedFacts DEF q, r
<1> HIDE DEF r, u
<1>3. FileTeams(w, lines) /\ FileEdges(g, S, w, lines) /\ FileFooter(g, w, lines)
  BY DEF IsFile
<1>4. FileTeams(u, lines)
  BY <1>1, <1>3 DEF FileTeams
<1>5. FileFooter(g, u, lines)
  BY <1>1, <1>2, <1>3 DEF FileFooter
<1>6. \A i \in 0 .. n : ProgramsNumbered(w.at[0].nbPrograms, w.at[i], q, i)
  BY <1>3 DEF FileEdges
<1> HIDE DEF q, n
<1>7. ASSUME NEW i \in 0 .. n PROVE ProgramsNumbered(w.at[0].nbPrograms, w.at[i], r, i)
  <2>1. \A k \in 1 .. i : k \in 1 .. n
    BY <1>2
  <2>2. {r[k].prog : k \in 1 .. i} = {q[k].prog : k \in 1 .. i}
    BY <1>2, <2>1
  <2> QED BY <1>6, <2>2 DEF ProgramsNumbered
<1>8. ASSUME NEW i \in 1 .. n PROVE BlockAt(g, w.id, lines, w.at[i - 1], r[i], w.at[i])
  <2> DEFINE x == w.at[i - 1]
             y == w.at[i]
  <2>1. BlockAt(g, w.id, lines, x, q[i], y)
    BY <1>3 DEF FileEdges, q, n
  <2>2. i - 1 \in 0 .. n
    BY <1>2
  <2>3. r[i].src = q[i].src /\ r[i].prog = q[i].prog
    BY <1>2
  <2>4. DOMAIN x.programID = {q[k].prog : k \in 1 .. i - 1}
    BY <1>6, <2>2 DEF ProgramsNumbered
  <2>5. CASE q[i].prog \in DOMAIN x.programID
    <3> DEFINE e == q[i]
               f == r[i]
    <3>1. BlockAt(g, w.id, lines, x, e, y) /\ f.src = e.src /\ f.prog = e.prog /\ e.prog \in DOMAIN x.programID
      BY <2>1, <2>3, <2>5
    <3> HIDE DEF x, y, e, f
    <3>2. BlockAt(g, w.id, lines, x, f, y)
      BY <3>1 DEF BlockAt
    <3> QED BY <3>2 DEF x, y, f
  <2>6. CASE q[i].prog \notin DOMAIN x.programID
    <3> DEFINE k == FirstOf(q, q[i].prog)
    <3>1. k \in 1 .. n /\ k <= i /\ q[k].prog = q[i].prog
      BY <1>2, FirstOfFacts
    <3> HIDE DEF k, x, y
    <3>2. k \notin 1 .. i - 1
      BY <2>4, <2>6, <3>1
    <3>3. k = i
      BY <1>2, <3>1, <3>2
    <3>4. r[i].dst = q[i].dst
      BY <1>2, <3>3 DEF k
    <3> DEFINE e == q[i]
               f == r[i]
    <3>5. /\ BlockAt(g, w.id, lines, x, e, y) /\ f.src = e.src /\ f.prog = e.prog /\ f.dst = e.dst
          /\ e.prog \notin DOMAIN x.programID
      BY <2>1, <2>3, <2>6, <3>4
    <3> HIDE DEF e, f
    <3>6. BlockAt(g, w.id, lines, x, f, y)
      BY <3>5 DEF BlockAt, FirstUseLines, FirstWidth
    <3> QED BY <3>6 DEF x, y, f
  <2> QED BY <2>5, <2>6
<1>9. \A i \in 0 .. n : w.at[i] \in Exporters({w.id}, S) /\ Len(w.teams) <= Len(w.at[i].lines)
  BY <1>3 DEF FileEdges, q, n
<1>10. FileEdges(g, S, u, lines)
  BY <1>1, <1>2, <1>7, <1>8, <1>9 DEF FileEdges
<1> QED BY <1>4, <1>5, <1>10 DEF IsFile, u

LEMMA SelectedDistinct ==
    ASSUME NEW T, NEW q \in Seq(T), Distinct(q), NEW S
    PROVE  SelectIn(q, S) \in Seq(T) /\ Distinct(SelectIn(q, S)) /\ ToSet(SelectIn(q, S)) = ToSet(q) \cap S
BY SelectedElements DEF Distinct

LEMMA TeamsListed ==
    ASSUME NEW g, ListedGraph(g)
    PROVE  /\ Teams(g) \in Seq(ToSet(g.vertices)) /\ Distinct(Teams(g))
           /\ ToSet(Teams(g)) = {v \in ToSet(g.vertices) : IsTeam(g, v)}
<1> DEFINE V == ToSet(g.vertices)
           S == {v \in V : IsTeam(g, v)}
           q == g.vertices
<1>1. q \in Seq(V) /\ Distinct(q) /\ Teams(g) = SelectIn(q, S) /\ ToSet(q) = V /\ S \subseteq V
  BY OrderedGraphFacts DEF ListedGraph, Teams
<1> HIDE DEF V, S, q
<1>2. SelectIn(q, S) \in Seq(V) /\ Distinct(SelectIn(q, S)) /\ ToSet(SelectIn(q, S)) = ToSet(q) \cap S
  BY <1>1, SelectedDistinct
<1> QED BY <1>1, <1>2 DEF V, S

LEMMA RootsListed ==
    ASSUME NEW g, ListedGraph(g)
    PROVE  /\ RootVertices(g) \in Seq(ToSet(g.vertices)) /\ Distinct(RootVertices(g))
           /\ ToSet(RootVertices(g)) = {v \in ToSet(g.vertices) : \A e \in ToSet(g.edges) : e.dst # v}
<1> DEFINE V == ToSet(g.vertices)
           S == {v \in V : IncomingEdges(g, v) = <<>>}
           q == g.vertices
<1>1. q \in Seq(V) /\ Distinct(q) /\ RootVertices(g) = SelectIn(q, S) /\ ToSet(q) = V /\ S \subseteq V
  BY OrderedGraphFacts DEF ListedGraph, RootVertices
<1>2. ASSUME NEW v PROVE IncomingEdges(g, v) = <<>> <=> \A e \in ToSet(g.edges) : e.dst # v
  <2> DEFINE a == g.edges
             T == ToSet(g.edges)
             X == {e \in T : e.dst = v}
             s == SelectIn(a, X)
  <2>1. a \in Seq(T) /\ Distinct(a) /\ IncomingEdges(g, v) = s /\ ToSet(a) = T /\ X \subseteq T
    BY OrderedGraphFacts DEF ListedGraph, IncomingEdges, Distinct
  <2>2. s \in Seq(T) /\ ToSet(s) = X
    <3> HIDE DEF a, T, X
    <3>1. SelectIn(a, X) \in Seq(T) /\ Distinct(SelectIn(a, X)) /\ ToSet(SelectIn(a, X)) = ToSet(a) \cap X
      BY <2>1, SelectedDistinct
    <3> QED BY <2>1, <3>1
  <2>3. s = <<>> <=> X = {}
    <3> HIDE DEF s, X, T
    <3>1. Len(s) \in Nat /\ DOMAIN s = 1 .. Len(s)
      BY <2>2, LenProperties
    <3>2. s = <<>> => ToSet(s) = {}
      BY DEF ToSet
    <3>3. s # <<>> => s[1] \in ToSet(s)
      <4>1. s # <<>> => Len(s) # 0
        BY <2>2, EmptySeq
      <4>2. s # <<>> => 1 \in DOMAIN s
        BY <3>1, <4>1
      <4> QED BY <4>2 DEF ToSet
    <3> QED BY <2>2, <3>2, <3>3
  <2> QED BY <2>1, <2>3
<1> HIDE DEF V, S, q
<1>3. SelectIn(q, S) \in Seq(V) /\ Distinct(SelectIn(q, S)) /\ ToSet(SelectIn(q, S)) = ToSet(q) \cap S
  BY <1>1, SelectedDistinct
<1> QED BY <1>1, <1>2, <1>3 DEF V, S

EdgesInside(g, vs, q) == \A e \in ToSet(q) : e.src \in ToSet(vs) /\ (IsTeam(g, e.dst) => e.dst \in ToSet(vs))

ActionsAmong(g) == {v \in ToSet(g.vertices) : IsAction(g, v)}

SoundFile(g, S, vs, q, roots, lines) ==
    \E w : w.teams = vs /\ w.edges = Rerouted(q) /\ w.roots = roots /\ IsFile(g, S, w, lines) /\ FileSense(g, S, w)

LEMMA FilePrinted ==
    ASSUME NEW g, NEW S, GraphOK(g, S), NEW x,
           NEW vs \in Seq(ToSet(g.vertices)), Distinct(vs), TeamsReady(x, S, vs),
           NEW q \in Seq(ToSet(g.edges)),
           EdgesInside(g, vs, q), NEW roots \in Seq(ActionsAmong(g)),
           NEW y, y = PrintRest(g, x, q, roots)
    PROVE  ExporterOK(y, S) /\ SoundFile(g, S, vs, q, roots, y.lines)
<1> DEFINE E == ToSet(q)
           A == ActionsAmong(g)
           V == ToSet(g.vertices)
           id == x.vertexID
<1>1. /\ Len(vs) \in Nat /\ DOMAIN vs = 1 .. Len(vs) /\ Len(q) \in Nat /\ DOMAIN q = 1 .. Len(q)
      /\ Len(roots) \in Nat /\ DOMAIN roots = 1 .. Len(roots) /\ \A j \in 1 .. Len(roots) : roots[j] \in A
  BY LenProperties, ElementOfSeq
<1>2. \A v \in ToSet(vs) : v \in DOMAIN id
  BY <1>1 DEF TeamsReady, TeamLines, ToSet
<1>3. E \subseteq ToSet(g.edges)
  BY <1>1, ElementOfSeq DEF ToSet
<1>4. /\ \A e \in ToSet(g.edges) : e.src \in V /\ e.dst \in V /\ IsTeam(g, e.src) /\ e.prog \in S
      /\ \A v \in V : IsAction(g, v) => g.kind[v] \in S
  BY OrderedGraphFacts DEF GraphOK, ListedGraph
<1>5. \A e \in E : KnownEdge(g, id, S, e)
  BY <1>2, <1>3, <1>4 DEF KnownEdge, EdgesInside
<1>6. q \in Seq(E)
  BY OwnElements
<1>7. \A v \in A : g.kind[v] \in S /\ IsAction(g, v)
  BY <1>4 DEF ActionsAmong
<1>8. ExporterOK(y, S) /\ HasFile(g, S, vs, q, roots, y.lines)
  <2>1. /\ vs \in Seq(V) /\ roots \in Seq(A) /\ \A v \in A : g.kind[v] \in S
        /\ \A e \in E : KnownEdge(g, x.vertexID, S, e)
    BY <1>5, <1>7
  <2> HIDE DEF E, V, id, A
  <2> QED BY <1>6, <2>1, FileWritten
<1>9. PICK u : u.teams = vs /\ u.edges = q /\ u.roots = roots /\ IsFile(g, S, u, y.lines)
  BY <1>8 DEF HasFile
<1> DEFINE w == AsRead(u)
           r == Rerouted(q)
<1>10. w.teams = vs /\ w.edges = r /\ w.roots = roots /\ IsFile(g, S, w, y.lines)
  <2>1. IsFile(g, S, w, y.lines)
    BY <1>6, <1>9, FileAsRead
  <2> QED BY <1>9, <2>1 DEF AsRead
<1> HIDE DEF w, r
<1>11. /\ Len(r) = Len(q)
       /\ \A i \in 1 .. Len(q) : /\ r[i].src = q[i].src /\ r[i].prog = q[i].prog
                                 /\ FirstOf(q, q[i].prog) \in 1 .. Len(q)
                                 /\ r[i].dst = q[FirstOf(q, q[i].prog)].dst
  BY ReroutedFacts DEF r
<1>12. FileSense(g, S, w)
  <2>1. \A i \in 1 .. Len(q) : q[i] \in E /\ q[i] \in ToSet(g.edges)
    BY <1>1, <1>3 DEF ToSet
  <2>2. ASSUME NEW i \in 1 .. Len(w.edges)
        PROVE  LET e == w.edges[i]
               IN  /\ e.src \in ToSet(w.teams) /\ IsTeam(g, e.src) /\ e.prog \in S
                   /\ IsAction(g, e.dst) => g.kind[e.dst] \in S
                   /\ IsTeam(g, e.dst) => e.dst \in ToSet(w.teams)
    <3> DEFINE f == q[FirstOf(q, q[i].prog)]
    <3>1. q[i] \in E /\ f \in E
      BY <1>10, <1>11, <2>1
    <3>2. w.edges[i].src = q[i].src /\ w.edges[i].prog = q[i].prog /\ w.edges[i].dst = f.dst
      BY <1>10, <1>11
    <3>3. q[i].src \in ToSet(vs) /\ IsTeam(g, q[i].src) /\ q[i].prog \in S
      BY <1>3, <1>4, <3>1 DEF EdgesInside
    <3>4. /\ IsAction(g, f.dst) => g.kind[f.dst] \in S
          /\ IsTeam(g, f.dst) => f.dst \in ToSet(vs)
      BY <1>3, <1>4, <3>1 DEF EdgesInside
    <3> HIDE DEF f
    <3> QED BY <1>10, <3>2, <3>3, <3>4
  <2>3. \A i, j \in 1 .. Len(w.edges) : w.edges[i].prog = w.edges[j].prog => w.edges[i].dst = w.edges[j].dst
    <3>1. \A i, j \in 1 .. Len(q) : r[i].prog = r[j].prog => r[i].dst = r[j].dst
      <4> SUFFICES ASSUME NEW i \in 1 .. Len(q), NEW j \in 1 .. Len(q), r[i].prog = r[j].prog
                   PROVE  r[i].dst = r[j].dst
        OBVIOUS
      <4>1. q[i].prog = q[j].prog
        BY <1>11
      <4>2. FirstOf(q, q[i].prog) = FirstOf(q, q[j].prog)
        BY <4>1
      <4>3. r[i].dst = q[FirstOf(q, q[i].prog)].dst /\ r[j].dst = q[FirstOf(q, q[j].prog)].dst
        BY <1>11
      <4> QED BY <4>2, <4>3
    <3> QED BY <1>10, <1>11, <3>1
  <2>4. \A j \in 1 .. Len(w.roots) : IsAction(g, w.roots[j]) /\ g.kind[w.roots[j]] \in S
    BY <1>1, <1>7, <1>10
  <2> QED BY <1>1, <1>10, <1>11, <2>2, <2>3, <2>4 DEF FileSense
<1> QED BY <1>8, <1>10, <1>12 DEF SoundFile, r

-----------------------------------------------------------------------------
(* What is printed: the whole graph, or what a vertex leads to *)

PrintedFile(g, S, x, pr, w) ==
    /\ w.teams = pr.teams /\ w.edges = Rerouted(pr.edges) /\ Len(w.edges) = Len(pr.edges)
    /\ IsFile(g, S, w, x.lines) /\ FileSense(g, S, w)
    /\ PrintedLabels(g, w) = ActionsOf(g, w.edges) \cup pr.roots
    /\ IsInjective(pr.teams) /\ IsInjective(pr.edges)
    /\ ToSet(pr.teams) = pr.policy \cap ToSet(Teams(g))
    /\ ToSet(pr.edges) = {e \in ToSet(g.edges) : e.src \in pr.policy}

Printed(g, S, x, pr) == ExporterOK(x, S) /\ \E w : PrintedFile(g, S, x, pr, w)

LEMMA NoNumbers ==
    ASSUME NEW A, NEW B
    PROVE  <<>> \in MapsOf(A, B) /\ DOMAIN <<>> = {} /\ <<>> \in Seq(A) /\ Len(<<>>) = 0
<1>1. <<>> \in [{} -> B] /\ DOMAIN <<>> = {}
  OBVIOUS
<1>2. {} \in SUBSET A
  OBVIOUS
<1>3. <<>> \in MapsOf(A, B)
  BY <1>1, <1>2 DEF MapsOf
<1> QED BY <1>1, <1>3

LEMMA LinesForgotten ==
    ASSUME NEW S, NEW x, ExporterOK(x, S), NEW y, y = [x EXCEPT !.lines = <<>>]
    PROVE  ExporterOK(y, S) /\ y.lines = <<>>
<1>1. x \in Exporters({x.vertexID}, S) /\ Ranks(x.vertexID)
  BY DEF ExporterOK
<1>2. <<>> \in Seq(LineSet(S))
  BY NoNumbers
<1>3. y \in Exporters({x.vertexID}, S) /\ y.vertexID = x.vertexID /\ y.lines = <<>>
  BY <1>1, <1>2 DEF Exporters
<1> QED BY <1>1, <1>3 DEF ExporterOK

LEMMA ProgramsForgotten ==
    ASSUME NEW S, NEW x, ExporterOK(x, S), NEW y, y = ForgetPrograms(x)
    PROVE  /\ ExporterOK(y, S) /\ DOMAIN y.programID = {} /\ y.lines = x.lines /\ y.vertexID = x.vertexID
<1>1. x \in Exporters({x.vertexID}, S) /\ Ranks(x.vertexID)
  BY DEF ExporterOK
<1>2. <<>> \in MapsOf(S, Nat) /\ DOMAIN <<>> = {}
  BY NoNumbers
<1>3. y = [x EXCEPT !.programID = <<>>]
  BY DEF ForgetPrograms
<1>4. y \in Exporters({x.vertexID}, S) /\ y.vertexID = x.vertexID /\ y.lines = x.lines /\ DOMAIN y.programID = {}
  BY <1>1, <1>2, <1>3 DEF Exporters
<1> QED BY <1>1, <1>4 DEF ExporterOK

LEMMA NoActions ==
    ASSUME NEW g, NEW S, NEW x, NEW id, x \in Exporters({id}, S)
    PROVE  PrintActions(g, x, <<>>) = x
<1> DEFINE q == <<>>
           A == {}
<1>1. q \in Seq(A) /\ Len(q) = 0 /\ \A v \in A : g.kind[v] \in S
  OBVIOUS
<1> HIDE DEF q, A
<1>2. PICK c : ActionsSteps(g, id, S, x, q, c)
  BY <1>1, ActionsChain
<1>3. PrintActions(g, x, q) = x
  BY <1>1, <1>2 DEF ActionsSteps
<1> QED BY <1>3 DEF q

LEMMA WholePrinted ==
    ASSUME NEW g, NEW S, GraphOK(g, S), NEW x, ExporterOK(x, S), NEW y, y = PrintGraph(g, [x EXCEPT !.lines = <<>>]),
           NEW pr, pr = [teams |-> Teams(g), edges |-> g.edges,
                         roots |-> {g.kind[v] : v \in ToSet(RootActions(g))},
                         policy |-> ToSet(g.vertices)]
    PROVE  Printed(g, S, y, pr)
<1> DEFINE V == ToSet(g.vertices)
           E == ToSet(g.edges)
           A == ActionsAmong(g)
           vs == Teams(g)
           q == g.edges
           roots == SelectIn(RootVertices(g), A)
           x0 == [x EXCEPT !.lines = <<>>]
           a == PrintTeams(x0, vs)
           b == ForgetPrograms(a)
<1>1. ListedGraph(g) /\ IsOrderedGraph(g) /\ IsFiniteSet(V) /\ q \in Seq(E) /\ Distinct(q)
      /\ \A e \in E : e.src \in V /\ e.dst \in V /\ IsTeam(g, e.src)
  BY OrderedGraphFacts DEF GraphOK, ListedGraph, Distinct
<1>2. vs \in Seq(V) /\ Distinct(vs) /\ ToSet(vs) = {v \in V : IsTeam(g, v)}
  BY <1>1, TeamsListed
<1>0. A = {v \in V : IsAction(g, v)}
  BY DEF ActionsAmong
<1>3. roots \in Seq(A) /\ ToSet(roots) = {v \in A : \A e \in E : e.dst # v}
  <2> DEFINE R == RootVertices(g)
  <2>1. R \in Seq(V) /\ Distinct(R) /\ ToSet(R) = {v \in V : \A e \in E : e.dst # v}
    BY <1>1, RootsListed
  <2> HIDE DEF R, V
  <2>2. SelectIn(R, A) \in Seq(V) /\ ToSet(SelectIn(R, A)) = ToSet(R) \cap A
    <3> HIDE DEF A
    <3> QED BY <2>1, SelectedDistinct
  <2>3. SelectIn(R, A) \in Seq(ToSet(SelectIn(R, A)))
    BY <2>2, OwnElements
  <2>4. ToSet(SelectIn(R, A)) = {v \in A : \A e \in E : e.dst # v}
    BY <1>0, <2>1, <2>2
  <2>5. ToSet(SelectIn(R, A)) \subseteq A
    BY <2>4
  <2>6. SelectIn(R, A) \in Seq(A)
    <3> DEFINE s == SelectIn(R, A)
               T == ToSet(s)
    <3>1. s \in Seq(T) /\ T \subseteq A
      BY <2>3, <2>5
    <3> HIDE DEF s, T, A
    <3>2. s \in Seq(A)
      BY <3>1
    <3> QED BY <3>2 DEF s
  <2> QED BY <2>4, <2>6 DEF R
<1> HIDE DEF vs, q, roots, x0, a, b
<1>4. ExporterOK(x0, S) /\ x0.lines = <<>>
  BY LinesForgotten DEF x0
<1>5. ExporterOK(a, S) /\ TeamsWritten(x0, vs, a, Len(vs))
  BY <1>1, <1>2, <1>4, TeamsPrinted DEF a
<1>6. ExporterOK(b, S) /\ DOMAIN b.programID = {} /\ b.lines = a.lines /\ b.vertexID = a.vertexID
  BY <1>5, ProgramsForgotten DEF b
<1>7. TeamsReady(b, S, vs)
  BY <1>5, <1>6 DEF TeamsReady, TeamsWritten
<1>8. y = PrintRest(g, b, q, roots)
  BY DEF PrintGraph, PrintFooter, RootActions, PrintActions, PrintRest, ActionsAmong, q, roots, b, a, x0, vs
<1>9. EdgesInside(g, vs, q)
  BY <1>1, <1>2 DEF q, EdgesInside
<1>10. q \in Seq(E) /\ vs \in Seq(V) /\ roots \in Seq(A)
  BY <1>1, <1>2, <1>3
<1>11. ExporterOK(y, S) /\ SoundFile(g, S, vs, q, roots, y.lines)
  BY <1>2, <1>7, <1>8, <1>9, <1>10, FilePrinted
<1>12. PICK w : w.teams = vs /\ w.edges = Rerouted(q) /\ w.roots = roots /\ IsFile(g, S, w, y.lines) /\ FileSense(g, S, w)
  BY <1>11 DEF SoundFile
<1>13. pr.teams = vs /\ pr.edges = q /\ pr.roots = {g.kind[v] : v \in ToSet(roots)} /\ pr.policy = V
  BY DEF vs, q, roots, RootActions, ActionsAmong
<1>14. Len(w.edges) = Len(q) /\ DOMAIN w.edges = 1 .. Len(w.edges)
  BY <1>10, <1>12, ReroutedFacts
<1>15. PrintedLabels(g, w) = ActionsOf(g, w.edges) \cup pr.roots
  <2>1. ToSet(roots) = {roots[j] : j \in 1 .. Len(roots)}
    <3>1. DOMAIN roots = 1 .. Len(roots)
      BY <1>3, LenProperties
    <3> QED BY <3>1 DEF ToSet
  <2>2. {g.kind[roots[j]] : j \in 1 .. Len(roots)} = {g.kind[v] : v \in ToSet(roots)}
    BY <2>1
  <2> QED BY <1>12, <1>13, <1>14, <2>2 DEF PrintedLabels, ActionsOf
<1>16. IsInjective(pr.teams) /\ IsInjective(pr.edges)
  BY <1>1, <1>2, <1>13 DEF Distinct, IsInjective
<1>17. ToSet(pr.teams) = pr.policy \cap ToSet(Teams(g)) /\ ToSet(pr.edges) = {e \in E : e.src \in pr.policy}
  BY <1>1, <1>2, <1>13 DEF vs, q
<1> HIDE DEF A
<1> QED BY <1>11, <1>12, <1>13, <1>14, <1>15, <1>16, <1>17 DEF Printed, PrintedFile

LEMMA SubGraphEdgesListed ==
    ASSUME NEW g, ListedGraph(g), NEW root \in ToSet(g.vertices)
    PROVE  /\ SubGraphEdges(g, root) \in Seq(ToSet(g.edges)) /\ Distinct(SubGraphEdges(g, root))
           /\ ToSet(SubGraphEdges(g, root)) = {e \in ToSet(g.edges) : e.src \in Policy(g, root)}
<1> DEFINE V == ToSet(g.vertices)
           E == ToSet(g.edges)
           P == Policy(g, root)
           s == BreadthFirst(g, root)
           n == Len(s)
           out == [i \in DOMAIN s |-> OutgoingEdges(g, s[i])]
<1>1. IsOrderedGraph(g) /\ \A e \in E : e.src \in V /\ e.dst \in V /\ IsTeam(g, e.src)
  BY OrderedGraphFacts DEF ListedGraph
<1>2. /\ s \in Seq(V) /\ Distinct(s) /\ n \in Nat \ {0}
      /\ \A v \in V : IsTeam(g, v) => (v \in ToSet(s) <=> v \in P)
  BY BreadthFirstFacts
<1>3. \A v : /\ OutgoingEdges(g, v) \in Seq(E) /\ Distinct(OutgoingEdges(g, v))
             /\ ToSet(OutgoingEdges(g, v)) = {e \in E : e.src = v}
  BY <1>1, OutgoingFacts
<1>4. SubGraphEdges(g, root) = FlattenSeq(out)
  BY DEF SubGraphEdges
<1> HIDE DEF s, V, E, P
<1>5. DOMAIN s = 1 .. n
  BY <1>2, LenProperties
<1>6. out \in [1 .. n -> Seq(E)] /\ \A i \in 1 .. n : out[i] = OutgoingEdges(g, s[i])
  BY <1>3, <1>5
<1>7. Apart(out, n)
  <2>1. \A i \in 1 .. n : Distinct(out[i]) /\ ToSet(out[i]) = {e \in E : e.src = s[i]}
    BY <1>3, <1>6
  <2>2. \A i, j \in 1 .. n : i # j => s[i] # s[j]
    BY <1>2, <1>5 DEF Distinct
  <2> HIDE DEF out, n
  <2>3. ASSUME NEW i \in 1 .. n, NEW j \in 1 .. n, i # j PROVE ToSet(out[i]) \cap ToSet(out[j]) = {}
    <3>1. s[i] # s[j]
      BY <2>2, <2>3
    <3> QED BY <2>1, <3>1
  <2> QED BY <2>1, <2>3 DEF Apart
<1> HIDE DEF out, n
<1>8. /\ FlattenSeq(out) \in Seq(E) /\ Distinct(FlattenSeq(out))
      /\ ToSet(FlattenSeq(out)) = ElementsOf(out, n)
  BY <1>2, <1>6, <1>7, FlattenDistinct
<1>9. ElementsOf(out, n) = {e \in E : e.src \in P}
  <2>1. \A i \in 1 .. n : ToSet(out[i]) = {e \in E : e.src = s[i]}
    BY <1>3, <1>6
  <2>2. \A v : v \in ToSet(s) <=> \E i \in 1 .. n : s[i] = v
    BY <1>5 DEF ToSet
  <2>3. ASSUME NEW e \in E PROVE (\E i \in 1 .. n : e \in ToSet(out[i])) <=> e.src \in P
    <3>1. (\E i \in 1 .. n : e \in ToSet(out[i])) <=> e.src \in ToSet(s)
      BY <2>1, <2>2
    <3> QED BY <1>1, <1>2, <3>1
  <2>4. \A i \in 1 .. n : ToSet(out[i]) \subseteq E
    BY <2>1
  <2> QED BY <2>3, <2>4 DEF ElementsOf
<1> QED BY <1>4, <1>8, <1>9 DEF E, P

LEMMA SubGraphTeamsListed ==
    ASSUME NEW g, ListedGraph(g), NEW root \in ToSet(g.vertices)
    PROVE  /\ SubGraphTeams(g, root) \in Seq(ToSet(g.vertices)) /\ Distinct(SubGraphTeams(g, root))
           /\ ToSet(SubGraphTeams(g, root)) = Policy(g, root) \cap ToSet(Teams(g))
<1> DEFINE V == ToSet(g.vertices)
           T == ToSet(Teams(g))
           P == Policy(g, root)
           s == BreadthFirst(g, root)
<1>1. /\ s \in Seq(V) /\ Distinct(s) /\ \A v \in V : IsTeam(g, v) => (v \in ToSet(s) <=> v \in P)
  BY BreadthFirstFacts
<1>2. T = {v \in V : IsTeam(g, v)}
  BY TeamsListed
<1>3. SubGraphTeams(g, root) = SelectIn(s, T)
  BY DEF SubGraphTeams
<1> HIDE DEF V, T, P, s
<1>4. SelectIn(s, T) \in Seq(V) /\ Distinct(SelectIn(s, T)) /\ ToSet(SelectIn(s, T)) = ToSet(s) \cap T
  BY <1>1, SelectedDistinct
<1>5. ToSet(s) \cap T = P \cap T
  BY <1>1, <1>2
<1> QED BY <1>3, <1>4, <1>5 DEF V, T, P

LEMMA SubPrinted ==
    ASSUME NEW g, NEW S, GraphOK(g, S), NEW root \in ToSet(g.vertices), NEW x, ExporterOK(x, S),
           NEW y, y = PrintSubGraph(g, [x EXCEPT !.lines = <<>>], root),
           NEW pr, pr = [teams |-> SubGraphTeams(g, root), edges |-> SubGraphEdges(g, root),
                         roots |-> {}, policy |-> Policy(g, root)]
    PROVE  Printed(g, S, y, pr)
<1> DEFINE V == ToSet(g.vertices)
           E == ToSet(g.edges)
           P == Policy(g, root)
           vs == SubGraphTeams(g, root)
           q == SubGraphEdges(g, root)
           roots == <<>>
           x0 == [x EXCEPT !.lines = <<>>]
           b == ForgetPrograms(x0)
           a == PrintTeams(b, vs)
           A == ActionsAmong(g)
<1>1. ListedGraph(g) /\ IsFiniteSet(V) /\ \A e \in E : e.src \in V /\ e.dst \in V /\ IsTeam(g, e.src)
  BY OrderedGraphFacts DEF GraphOK, ListedGraph
<1>2. vs \in Seq(V) /\ Distinct(vs) /\ ToSet(vs) = P \cap ToSet(Teams(g))
  BY <1>1, SubGraphTeamsListed
<1>3. q \in Seq(E) /\ Distinct(q) /\ ToSet(q) = {e \in E : e.src \in P}
  BY <1>1, SubGraphEdgesListed
<1>4. ToSet(Teams(g)) = {v \in V : IsTeam(g, v)}
  BY <1>1, TeamsListed
<1>5. \A e \in E : e.src \in P => e.dst \in P
  BY <1>1, PolicyIsLeast DEF ClosedUnder
<1>6. roots \in Seq(A) /\ Len(roots) = 0
  OBVIOUS
<1> HIDE DEF vs, q, x0, a, b, roots, A
<1>7. ExporterOK(x0, S) /\ x0.lines = <<>>
  BY LinesForgotten DEF x0
<1>8. ExporterOK(b, S) /\ DOMAIN b.programID = {} /\ b.lines = <<>>
  BY <1>7, ProgramsForgotten DEF b
<1>9. ExporterOK(a, S) /\ TeamsWritten(b, vs, a, Len(vs))
  BY <1>1, <1>2, <1>8, TeamsPrinted DEF a
<1>10. TeamsReady(a, S, vs)
  BY <1>8, <1>9 DEF TeamsReady, TeamsWritten
<1>11. y = PrintRest(g, a, q, roots)
  <2> DEFINE z == PrintEdges(g, a, q)
             id == a.vertexID
             F == ToSet(q)
  <2>1. y = PrintLines(z, <<[shape |-> "end"]>>)
    BY DEF PrintSubGraph, q, a, b, x0, vs
  <2>2. PrintActions(g, z, roots) = z
    <3>1. /\ \A e \in F : KnownEdge(g, id, S, e)
          /\ q \in Seq(F) /\ a \in Exporters({id}, S) /\ Numbers(id)
      <4>1. q \in Seq(F) /\ a \in Exporters({id}, S) /\ Numbers(id)
        BY <1>3, <1>9, OwnElements DEF ExporterOK, Ranks
      <4>2. \A v \in ToSet(vs) : v \in DOMAIN id
        <5>1. DOMAIN vs = 1 .. Len(vs)
          BY <1>2, LenProperties
        <5> QED BY <1>10, <5>1 DEF TeamsReady, TeamLines, ToSet
      <4>3. \A e \in F : KnownEdge(g, id, S, e)
        BY <1>1, <1>2, <1>3, <1>4, <1>5, <4>2 DEF KnownEdge, GraphOK
      <4> QED BY <4>1, <4>3
    <3>2. PICK c : EdgesSteps(g, id, S, a, q, c)
      <4> HIDE DEF F, id
      <4> QED BY <3>1, EdgesChain
    <3>3. z \in Exporters({id}, S)
      <4>1. Len(q) \in 0 .. Len(q)
        BY <1>3, LenProperties
      <4> QED BY <3>2, <4>1 DEF EdgesSteps
    <3> HIDE DEF z, id
    <3> QED BY <3>3, NoActions DEF roots
  <2> QED BY <2>1, <2>2 DEF PrintRest
<1>12. EdgesInside(g, vs, q)
  BY <1>1, <1>2, <1>3, <1>4, <1>5 DEF EdgesInside
<1>13. ExporterOK(y, S) /\ SoundFile(g, S, vs, q, roots, y.lines)
  <2>1. roots \in Seq(ActionsAmong(g))
    BY <1>6 DEF A
  <2> QED BY <1>2, <1>3, <1>10, <1>11, <1>12, <2>1, FilePrinted
<1>14. PICK w : w.teams = vs /\ w.edges = Rerouted(q) /\ w.roots = roots /\ IsFile(g, S, w, y.lines) /\ FileSense(g, S, w)
  BY <1>13 DEF SoundFile
<1>15. pr.teams = vs /\ pr.edges = q /\ pr.roots = {} /\ pr.policy = P
  BY DEF vs, q
<1>0. Len(w.edges) = Len(q) /\ DOMAIN w.edges = 1 .. Len(w.edges)
  BY <1>3, <1>14, ReroutedFacts
<1>16. PrintedLabels(g, w) = ActionsOf(g, w.edges) \cup pr.roots
  <2>1. {g.kind[w.roots[j]] : j \in 1 .. Len(w.roots)} = {}
    <3>1. 1 .. Len(w.roots) = {}
      BY <1>6, <1>14
    <3> QED BY <3>1
  <2> QED BY <1>0, <1>15, <2>1 DEF PrintedLabels, ActionsOf
<1>17. IsInjective(pr.teams) /\ IsInjective(pr.edges)
  BY <1>2, <1>3, <1>15 DEF Distinct, IsInjective
<1>18. ToSet(pr.teams) = pr.policy \cap ToSet(Teams(g)) /\ ToSet(pr.edges) = {e \in E : e.src \in pr.policy}
  BY <1>2, <1>3, <1>15
<1> QED BY <1>0, <1>13, <1>14, <1>15, <1>16, <1>17, <1>18 DEF Printed, PrintedFile

-----------------------------------------------------------------------------
(* A root is replaced: a new team at its address, with one edge. *)

IsRecord(g) == g = [vertices |-> g.vertices, kind |-> g.kind, edges |-> g.edges]

LEMMA RootRemoved ==
    ASSUME NEW g, NEW S, GraphOK(g, S), NEW v, NEW h, h = RemoveVertices(g, {v})
    PROVE  GraphOK(h, S) /\ IsRecord(h) /\ v \notin ToSet(h.vertices)
<1>1. IsOrderedGraph(g) /\ Distinct(g.vertices) /\ g.vertices \in Seq(ToSet(g.vertices))
  BY OrderedGraphFacts DEF GraphOK, ListedGraph
<1>2. /\ IsOrderedGraph(h) /\ IsRecord(h)
      /\ ToSet(h.vertices) = ToSet(g.vertices) \ {v}
      /\ ToSet(h.edges) = {e \in ToSet(g.edges) : e.src \notin {v} /\ e.dst \notin {v}}
      /\ \A u \in ToSet(h.vertices) : h.kind[u] = g.kind[u]
  <2> DEFINE D == {v}
  <2> HIDE DEF D
  <2>1. h = RemoveVertices(g, D)
    BY DEF D
  <2> DEFINE k == RemoveVertices(g, D)
  <2>2. /\ IsOrderedGraph(k) /\ k = [vertices |-> k.vertices, kind |-> k.kind, edges |-> k.edges]
        /\ ToSet(k.vertices) = ToSet(g.vertices) \ D
        /\ ToSet(k.edges) = {e \in ToSet(g.edges) : e.src \notin D /\ e.dst \notin D}
        /\ \A u \in ToSet(k.vertices) : k.kind[u] = g.kind[u]
    BY <1>1, VerticesRemoved
  <2>3. h = k
    BY <2>1
  <2> HIDE DEF k
  <2> QED BY <2>2, <2>3 DEF D, IsRecord
<1>3. h.vertices = SelectIn(g.vertices, ToSet(g.vertices) \ {v})
  BY DEF RemoveVertices
<1>4. Distinct(h.vertices)
  <2> DEFINE T == ToSet(g.vertices)
             D == T \ {v}
             q == g.vertices
  <2>1. q \in Seq(T) /\ Distinct(q)
    BY <1>1
  <2> HIDE DEF T, D, q
  <2>2. Distinct(SelectIn(q, D))
    BY <2>1, SelectedDistinct
  <2> QED BY <1>3, <2>2 DEF T, D, q
<1>5. \A u \in ToSet(h.vertices) : IsAction(h, u) => h.kind[u] \in S
  BY <1>2 DEF GraphOK, IsAction
<1>6. \A e \in ToSet(h.edges) : e.prog \in S
  BY <1>2 DEF GraphOK
<1> QED BY <1>2, <1>4, <1>5, <1>6 DEF GraphOK, ListedGraph

AppendedTo(q, x, r) ==
    /\ Len(q) \in Nat /\ DOMAIN q = 1 .. Len(q) /\ DOMAIN r = 1 .. Len(q) + 1
    /\ r[Len(q) + 1] = x /\ \A i \in 1 .. Len(q) : r[i] = q[i]
    /\ ToSet(r) = ToSet(q) \cup {x} /\ r \in Seq(ToSet(r))

LEMMA OneMoreElement ==
    ASSUME NEW T, NEW q \in Seq(T), NEW x, NEW r, r = Append(q, x)
    PROVE  AppendedTo(q, x, r)
<1> DEFINE U == T \cup {x}
<1>1. q \in Seq(U) /\ x \in U
  OBVIOUS
<1> HIDE DEF U
<1>2. /\ Len(q) \in Nat /\ DOMAIN q = 1 .. Len(q)
  BY LenProperties
<1>3. r \in Seq(U) /\ Len(r) = Len(q) + 1 /\ r[Len(q) + 1] = x /\ \A i \in 1 .. Len(q) : r[i] = q[i]
  BY <1>1, AppendProperties
<1>4. DOMAIN r = 1 .. Len(q) + 1
  BY <1>3, LenProperties
<1>5. ToSet(r) = ToSet(q) \cup {x}
  <2>1. ASSUME NEW i \in DOMAIN r PROVE r[i] \in ToSet(q) \cup {x}
    <3>1. CASE i = Len(q) + 1
      BY <1>3, <3>1
    <3>2. CASE i # Len(q) + 1
      <4>1. i \in 1 .. Len(q)
        BY <1>2, <1>4, <3>2
      <4> QED BY <1>2, <1>3, <4>1 DEF ToSet
    <3> QED BY <3>1, <3>2
  <2>2. x \in ToSet(r)
    BY <1>2, <1>3, <1>4 DEF ToSet
  <2>3. ASSUME NEW i \in DOMAIN q PROVE q[i] \in ToSet(r)
    BY <1>2, <1>3, <1>4 DEF ToSet
  <2> QED BY <2>1, <2>2, <2>3 DEF ToSet
<1>6. r \in Seq(ToSet(r))
  BY <1>3, OwnElements
<1> QED BY <1>2, <1>3, <1>4, <1>5, <1>6 DEF AppendedTo

LEMMA TeamJoins ==
    ASSUME NEW h, NEW S, GraphOK(h, S), IsRecord(h), NEW v, v \notin ToSet(h.vertices),
           NEW n, n = AddVertex(h, v, Team)
    PROVE  /\ GraphOK(n, S) /\ IsRecord(n) /\ n.edges = h.edges
           /\ ToSet(n.vertices) = ToSet(h.vertices) \cup {v} /\ IsTeam(n, v)
<1> DEFINE V == ToSet(h.vertices)
           q == h.vertices
           r == Append(q, v)
           k == [w \in DOMAIN h.kind \cup {v} |-> IF w = v THEN Team ELSE h.kind[w]]
<1>1. /\ q \in Seq(V) /\ h.edges \in Seq(ToSet(h.edges)) /\ DOMAIN h.kind = V /\ Distinct(q)
      /\ \A e \in ToSet(h.edges) : e.src \in V /\ e.dst \in V /\ IsTeam(h, e.src)
      /\ \A i, j \in DOMAIN h.edges : h.edges[i].id = h.edges[j].id => i = j
  BY OrderedGraphFacts DEF GraphOK, ListedGraph, IsOrderedGraph
<1>2. n.vertices = r /\ n.kind = k /\ n.edges = h.edges /\ IsRecord(n)
  BY DEF AddVertex, IsRecord
<1>3. /\ Len(q) \in Nat /\ DOMAIN q = 1 .. Len(q) /\ DOMAIN r = 1 .. Len(q) + 1
      /\ r[Len(q) + 1] = v /\ \A i \in 1 .. Len(q) : r[i] = q[i]
      /\ ToSet(r) = V \cup {v} /\ r \in Seq(ToSet(r))
  <2> DEFINE T == V
  <2>1. q \in Seq(T) /\ ToSet(q) = T
    BY <1>1
  <2>2. AppendedTo(q, v, r)
    <3> HIDE DEF T, q
    <3> QED BY <2>1, OneMoreElement
  <2> QED BY <2>1, <2>2 DEF AppendedTo
<1>4. Distinct(r)
  <2>1. \A i \in 1 .. Len(q) : q[i] # v
    BY <1>3 DEF ToSet
  <2>2. \A i \in 1 .. Len(q) : r[i] # v
    BY <1>3, <2>1
  <2>3. \A i \in DOMAIN r : i \in 1 .. Len(q) \/ i = Len(q) + 1
    BY <1>3
  <2> HIDE DEF q, r, V
  <2>4. \A i, j \in 1 .. Len(q) : r[i] = r[j] => i = j
    BY <1>1, <1>3 DEF Distinct
  <2> QED BY <1>3, <2>2, <2>3, <2>4 DEF Distinct
<1>5. DOMAIN k = V \cup {v} /\ k[v] = Team /\ \A u \in V : k[u] = h.kind[u]
  BY <1>1
<1> HIDE DEF r, k, q
<1>6. IsOrderedGraph(n)
  BY <1>1, <1>2, <1>3, <1>5 DEF IsOrderedGraph, IsTeam
<1>7. \A u \in ToSet(n.vertices) : IsAction(n, u) => n.kind[u] \in S
  BY <1>2, <1>3, <1>5 DEF GraphOK, IsAction
<1>8. \A e \in ToSet(n.edges) : e.prog \in S
  BY <1>2 DEF GraphOK
<1> QED BY <1>2, <1>3, <1>4, <1>5, <1>6, <1>7, <1>8 DEF GraphOK, ListedGraph, IsTeam

(* There is a name that no edge of a list has. *)
LEMMA FreshName ==
    ASSUME NEW T, NEW q \in Seq(T)
    PROVE  \E n \in 1 .. Len(q) + 1 : \A e \in ToSet(q) : e.id # n
<1> DEFINE N == 1 .. Len(q) + 1
           f == [i \in DOMAIN q |-> q[i].id]
           U == {f[i] : i \in DOMAIN q}
<1>1. Len(q) \in Nat /\ DOMAIN q = 1 .. Len(q)
  BY LenProperties
<1>2. IsFiniteSet(N) /\ Cardinality(N) = Len(q) + 1
  BY <1>1, FS_Interval
<1>3. IsFiniteSet(U) /\ Cardinality(U) <= Len(q)
  <2>1. f \in Surjection(1 .. Len(q), U)
    BY <1>1 DEF Surjection
  <2>2. IsFiniteSet(1 .. Len(q)) /\ Cardinality(1 .. Len(q)) = Len(q)
    <3> DEFINE z == Len(q)
    <3>1. z \in Int /\ 1 \in Int /\ (1 > z => z = 0)
      BY <1>1
    <3> HIDE DEF z
    <3>2. IsFiniteSet(1 .. z) /\ Cardinality(1 .. z) = IF 1 > z THEN 0 ELSE (z - 1) + 1
      BY <3>1, FS_Interval
    <3>3. (IF 1 > z THEN 0 ELSE (z - 1) + 1) = z
      BY <3>1
    <3> QED BY <3>2, <3>3 DEF z
  <2> DEFINE D == 1 .. Len(q)
  <2> HIDE DEF D, U, f
  <2> QED BY <2>1, <2>2, FS_Surjection DEF D
<1>4. ~ N \subseteq U
  <2> HIDE DEF N, U
  <2>1. Cardinality(U) \in Nat
    BY <1>3, FS_CardinalityType
  <2>2. N \subseteq U => Cardinality(N) <= Cardinality(U)
    BY <1>3, FS_Subset
  <2> QED BY <1>1, <1>2, <1>3, <2>1, <2>2
<1> QED BY <1>4 DEF ToSet

(* An edge between two vertices *)
LEMMA EdgeJoins ==
    ASSUME NEW n, NEW S, GraphOK(n, S), IsRecord(n), NEW i, \A e \in ToSet(n.edges) : e.id # i,
           NEW s \in ToSet(n.vertices), IsTeam(n, s), NEW d \in ToSet(n.vertices), NEW p \in S,
           NEW m, m = AddNewEdge(n, i, s, d, p)
    PROVE  GraphOK(m, S)
<1> DEFINE E == ToSet(n.edges)
           q == n.edges
           x == [id |-> i, src |-> s, dst |-> d, prog |-> p]
           r == Append(q, x)
<1>1. /\ q \in Seq(E) /\ n.vertices \in Seq(ToSet(n.vertices)) /\ DOMAIN n.kind = ToSet(n.vertices)
      /\ \A e \in E : {e.src, e.dst} \subseteq ToSet(n.vertices) /\ IsTeam(n, e.src)
      /\ \A a, b \in DOMAIN q : q[a].id = q[b].id => a = b
  BY DEF GraphOK, ListedGraph, IsOrderedGraph
<1>2. m.vertices = n.vertices /\ m.kind = n.kind /\ m.edges = r
  BY DEF AddNewEdge, IsRecord
<1>3. x.id = i /\ x.src = s /\ x.dst = d /\ x.prog = p
  OBVIOUS
<1>4. /\ Len(q) \in Nat /\ DOMAIN q = 1 .. Len(q) /\ DOMAIN r = 1 .. Len(q) + 1
      /\ r[Len(q) + 1] = x /\ \A a \in 1 .. Len(q) : r[a] = q[a]
      /\ ToSet(r) = E \cup {x} /\ r \in Seq(ToSet(r))
  <2> DEFINE T == E
  <2>1. q \in Seq(T) /\ ToSet(q) = T
    BY <1>1
  <2>2. AppendedTo(q, x, r)
    <3> HIDE DEF T, q, x
    <3> QED BY <2>1, OneMoreElement
  <2> QED BY <2>1, <2>2 DEF AppendedTo
<1>5. \A a \in 1 .. Len(q) : q[a].id # i
  BY <1>4 DEF ToSet
<1> HIDE DEF x, q, r
<1>6. \A a, b \in DOMAIN r : r[a].id = r[b].id => a = b
  <2>1. \A a \in 1 .. Len(q) : r[a].id # i
    BY <1>4, <1>5
  <2>2. \A a \in DOMAIN r : a \in 1 .. Len(q) \/ a = Len(q) + 1
    BY <1>4
  <2>3. \A a, b \in 1 .. Len(q) : r[a].id = r[b].id => a = b
    BY <1>1, <1>4
  <2> QED BY <1>3, <1>4, <2>1, <2>2, <2>3
<1>7. \A e \in ToSet(r) : {e.src, e.dst} \subseteq ToSet(n.vertices) /\ IsTeam(n, e.src)
  BY <1>1, <1>3, <1>4
<1>8. IsOrderedGraph(m) /\ Distinct(m.vertices)
  BY <1>1, <1>2, <1>4, <1>6, <1>7 DEF IsOrderedGraph, IsTeam, GraphOK, ListedGraph
<1>9. \A u \in ToSet(m.vertices) : IsAction(m, u) => m.kind[u] \in S
  BY <1>2 DEF GraphOK, IsAction
<1>10. \A e \in ToSet(m.edges) : e.prog \in S
  BY <1>2, <1>3, <1>4 DEF GraphOK
<1> QED BY <1>8, <1>9, <1>10 DEF GraphOK, ListedGraph

LEMMA ReplaceRootStep ==
    ASSUME NEW S, GraphOK(tpg, S), Program \subseteq S, NEW v, ReplaceRoot(v)
    PROVE  GraphOK(tpg', S)
<1> DEFINE rest == RemoveVertices(tpg, {v})
           new == AddVertex(rest, v, Team)
           id == CHOOSE n \in 1 .. Len(rest.edges) + 1 : \A e \in ToSet(rest.edges) : e.id # n
<1>1. PICK d \in ToSet(rest.vertices), p \in Program : tpg' = AddNewEdge(new, id, v, d, p)
  BY DEF ReplaceRoot
<1> HIDE DEF rest
<1>2. GraphOK(rest, S) /\ IsRecord(rest) /\ v \notin ToSet(rest.vertices)
  BY RootRemoved DEF rest
<1>3. rest.edges \in Seq(ToSet(rest.edges))
  BY <1>2, OrderedGraphFacts DEF GraphOK, ListedGraph
<1>4. \A e \in ToSet(rest.edges) : e.id # id
  <2>1. \E n \in 1 .. Len(rest.edges) + 1 : \A e \in ToSet(rest.edges) : e.id # n
    BY <1>3, FreshName
  <2> QED BY <2>1
<1> HIDE DEF new, id
<1>5. /\ GraphOK(new, S) /\ IsRecord(new) /\ new.edges = rest.edges
      /\ ToSet(new.vertices) = ToSet(rest.vertices) \cup {v} /\ IsTeam(new, v)
  BY <1>2, TeamJoins DEF new
<1> DEFINE m == tpg'
<1>6. /\ m = AddNewEdge(new, id, v, d, p) /\ v \in ToSet(new.vertices) /\ d \in ToSet(new.vertices)
      /\ p \in S /\ \A e \in ToSet(new.edges) : e.id # id
  BY <1>1, <1>4, <1>5
<1> HIDE DEF m
<1>7. GraphOK(m, S)
  BY <1>5, <1>6, EdgeJoins
<1> QED BY <1>7 DEF m

-----------------------------------------------------------------------------
(* The beginning of an import *)

LEMMA NothingRead ==
    ASSUME NEW g, NEW S, NEW w, NEW lines, FileSense(g, S, w), IsFile(g, S, w, lines)
    PROVE  \E r : Progress(g, S, w, NewImporter, 1, r)
<1> DEFINE r == [teams |-> 0, edges |-> 0, lines |-> 0, roots |-> 0]
           m == NewImporter
           G == EmptyGraph
<1>1. r.teams = 0 /\ r.edges = 0 /\ r.lines = 0 /\ r.roots = 0
  OBVIOUS
<1>2. /\ G.vertices = <<>> /\ G.kind = <<>> /\ G.edges = <<>>
      /\ G = [vertices |-> <<>>, kind |-> <<>>, edges |-> <<>>]
  BY DEF EmptyGraph
<1>3. /\ m.graph = G /\ m.vertexID = <<>> /\ m.programID = <<>> /\ m.actionID = <<>>
      /\ m.actionLabel = <<>> /\ m.content = <<>>
      /\ m = [graph |-> G, vertexID |-> <<>>, programID |-> <<>>, actionID |-> <<>>,
              actionLabel |-> <<>>, content |-> <<>>]
  BY DEF NewImporter
<1>4. Len(w.teams) \in Nat /\ Len(w.edges) \in Nat /\ Len(w.roots) \in Nat
  BY DEF FileSense
<1>5. IsPlace(g, w, r)
  BY <1>1, <1>4 DEF IsPlace
<1>6. /\ Before(w, r) = w.at[0] /\ Len(w.at[0].lines) = Len(w.teams)
      /\ FirstProgram(w) \in Nat /\ DOMAIN w.at[0].programID = {}
  <2>1. /\ Before(w, r) = w.at[0] /\ Len(w.at[0].lines) = Len(w.teams) /\ FirstProgram(w) \in Nat
        /\ ProgramsNumbered(FirstProgram(w), Before(w, r), w.edges, r.edges)
    <3> HIDE DEF r
    <3>1. /\ Len(w.at[0].lines) = Len(w.teams) /\ FirstProgram(w) \in Nat
          /\ ProgramsNumbered(FirstProgram(w), Before(w, r), w.edges, r.edges)
      BY <1>5, PlaceFacts
    <3> QED BY <1>1, <3>1 DEF Before
  <2>2. DOMAIN w.at[0].programID = {w.edges[k].prog : k \in 1 .. 0}
    BY <1>1, <2>1 DEF ProgramsNumbered
  <2> QED BY <2>1, <2>2
<1>7. Position(w, r) = 1
  BY <1>1, <1>4, <1>6 DEF Position
<1>8. \A A, B : <<>> \in MapsOf(A, B) /\ <<>> \in Seq(A)
  BY NoNumbers
<1>9. DOMAIN <<>> = {} /\ Len(<<>>) = 0
  OBVIOUS
<1>10. m \in Importers(S)
  <2>1. G \in ReadGraphs(S)
    BY <1>2, <1>8 DEF ReadGraphs
  <2> HIDE DEF G, m
  <2> QED BY <1>3, <1>8, <2>1 DEF Importers
<1> HIDE DEF r, m, G
<1>11. VerticesKnown(w, m.graph, r)
  BY <1>1, <1>2, <1>3, <1>4, <1>9 DEF VerticesKnown
<1>12. TeamsKnown(w, m, r)
  BY <1>1, <1>3, <1>9 DEF TeamsKnown
<1>13. ActionsKnown(g, w, m.graph, m.actionID, r)
  BY <1>1, <1>2, <1>3, <1>9 DEF ActionsKnown
<1>14. LabelsKnown(g, w, m.actionLabel, m.actionID, r)
  BY <1>1, <1>3, <1>9 DEF LabelsKnown
<1>15. ProgramsKnown(w, m, r)
  <2>1. Before(w, r).nbPrograms = FirstProgram(w)
    BY <1>6 DEF FirstProgram
  <2>2. FirstProgram(w) .. FirstProgram(w) - 1 = {}
    BY <1>6
  <2> QED BY <1>1, <1>3, <1>6, <1>9, <2>1, <2>2 DEF ProgramsKnown
<1>16. EdgesKnown(g, w, m.graph, r)
  BY <1>1, <1>2, <1>3, <1>9 DEF EdgesKnown
<1>17. Progress(g, S, w, m, 1, r)
  BY <1>5, <1>7, <1>10, <1>11, <1>12, <1>13, <1>14, <1>15, <1>16 DEF Progress
<1> QED BY <1>17 DEF m

-----------------------------------------------------------------------------
(* What is written and read, at any time *)

Contents ==
    Program \cup UNION {{e.prog : e \in ToSet(g.edges)} \cup {g.kind[v] : v \in ToSet(g.vertices)} : g \in FirstGraphs}

Importing(w) ==
    \E r : /\ Progress(tpg, Contents, w, importer, pos, r)
           /\ outcome = "imported" => AtFooter(w, r) /\ r.roots = Len(w.roots)

FileInv ==
    \E w : /\ PrintedFile(tpg, Contents, exporter, printed, w)
           /\ outcome # "written" => Importing(w)

DotInv ==
    /\ GraphOK(tpg, Contents) /\ ExporterOK(exporter, Contents)
    /\ outcome \in {"none", "written", "reading", "imported", "failure"}
    /\ outcome # "none" => FileInv

LEMMA DotInitInv == DotInit => DotInv
<1> SUFFICES ASSUME DotInit PROVE DotInv
  OBVIOUS
<1>1. tpg \in FirstGraphs /\ exporter = NewExporter /\ outcome = "none"
  BY DEF DotInit
<1>2. GraphOK(tpg, Contents)
  <2>1. IsOrderedGraph(tpg) /\ Distinct(tpg.vertices)
    BY <1>1, DotAssumption DEF IsInjective, Distinct
  <2>2. /\ \A v \in ToSet(tpg.vertices) : tpg.kind[v] \in Contents
        /\ \A e \in ToSet(tpg.edges) : e.prog \in Contents
    BY <1>1 DEF Contents
  <2> QED BY <2>1, <2>2 DEF GraphOK, ListedGraph
<1>3. ExporterOK(exporter, Contents)
  <2> DEFINE x == exporter
             id == x.vertexID
  <2>1. /\ x.vertexID = <<>>
        /\ x = [vertexID |-> <<>>, programID |-> <<>>, nbPrograms |-> 0, nbActions |-> 0, lines |-> <<>>]
    BY <1>1 DEF NewExporter
  <2>2. \A A, B : <<>> \in MapsOf(A, B) /\ <<>> \in Seq(A)
    BY NoNumbers
  <2>3. x \in Exporters({id}, Contents)
    BY <2>1, <2>2 DEF Exporters
  <2>4. DOMAIN <<>> = {} /\ <<>> \in [{} -> Nat]
    OBVIOUS
  <2>5. Ranks(id)
    BY <2>1, <2>4, FS_EmptySet DEF Ranks, Numbers
  <2> QED BY <2>3, <2>5 DEF ExporterOK
<1> QED BY <1>1, <1>2, <1>3 DEF DotInv

LEMMA PrintWholeStep ==
    ASSUME DotInv, PrintWhole
    PROVE  DotInv'
<1> DEFINE g == tpg
           S == Contents
           x == exporter
           y == exporter'
           pr == printed'
<1>1. /\ y = PrintGraph(g, [x EXCEPT !.lines = <<>>])
      /\ pr = [teams |-> Teams(g), edges |-> g.edges,
               roots |-> {g.kind[v] : v \in ToSet(RootActions(g))}, policy |-> ToSet(g.vertices)]
      /\ tpg' = tpg /\ outcome' = "written"
  BY DEF PrintWhole
<1>2. GraphOK(g, S) /\ ExporterOK(x, S)
  BY DEF DotInv
<1> HIDE DEF g, S, x, y, pr
<1>3. Printed(g, S, y, pr)
  BY <1>1, <1>2, WholePrinted
<1>4. ExporterOK(y, S) /\ \E w : PrintedFile(g, S, y, pr, w)
  BY <1>3 DEF Printed
<1> QED BY <1>1, <1>2, <1>4 DEF DotInv, FileInv, g, S, x, y, pr

LEMMA PrintSubStep ==
    ASSUME DotInv, NEW root \in ToSet(tpg.vertices), PrintSub(root)
    PROVE  DotInv'
<1> DEFINE g == tpg
           S == Contents
           x == exporter
           y == exporter'
           pr == printed'
<1>1. /\ y = PrintSubGraph(g, [x EXCEPT !.lines = <<>>], root)
      /\ pr = [teams |-> SubGraphTeams(g, root), edges |-> SubGraphEdges(g, root),
               roots |-> {}, policy |-> Policy(g, root)]
      /\ tpg' = tpg /\ outcome' = "written"
  BY DEF PrintSub
<1>2. GraphOK(g, S) /\ ExporterOK(x, S) /\ root \in ToSet(g.vertices)
  BY DEF DotInv
<1> HIDE DEF g, S, x, y, pr
<1>3. Printed(g, S, y, pr)
  BY <1>1, <1>2, SubPrinted
<1>4. ExporterOK(y, S) /\ \E w : PrintedFile(g, S, y, pr, w)
  BY <1>3 DEF Printed
<1> QED BY <1>1, <1>2, <1>4 DEF DotInv, FileInv, g, S, x, y, pr

LEMMA ImportGraphStep ==
    ASSUME DotInv, ImportGraph
    PROVE  DotInv'
<1>1. /\ outcome = "written" /\ outcome' = "reading" /\ importer' = NewImporter /\ pos' = 1
      /\ tpg' = tpg /\ exporter' = exporter /\ printed' = printed
  BY DEF ImportGraph, ClearImporter
<1>2. PICK w : PrintedFile(tpg, Contents, exporter, printed, w)
  BY <1>1 DEF DotInv, FileInv
<1>3. FileSense(tpg, Contents, w) /\ IsFile(tpg, Contents, w, exporter.lines)
  BY <1>2 DEF PrintedFile
<1>4. \E r : Progress(tpg, Contents, w, NewImporter, 1, r)
  BY <1>3, NothingRead
<1>5. Importing(w)'
  BY <1>1, <1>4 DEF Importing
<1>6. PrintedFile(tpg, Contents, exporter, printed, w)'
  BY <1>1, <1>2
<1> QED BY <1>1, <1>5, <1>6 DEF DotInv, FileInv

ReadStep ==
    \/ ReadTeam \/ ReadAction \/ ReadProgram \/ ReadLine \/ ReadLinkProgramInstruction
    \/ ReadLinkTeamProgramAction \/ ReadLinkTeamProgramTeam \/ ReadLinkTeamProgram

LEMMA ReadFrame ==
    ASSUME ReadStep
    PROVE  outcome = "reading" /\ UNCHANGED <<tpg, exporter, printed, outcome>>
BY DEF ReadStep, ReadTeam, ReadAction, ReadProgram, ReadLine, ReadLinkProgramInstruction,
       ReadLinkTeamProgramAction, ReadLinkTeamProgramTeam, ReadLinkTeamProgram, Link, Read, Reading

LEMMA AnyReadStep ==
    ASSUME DotInv, ReadStep
    PROVE  DotInv'
<1>1. outcome = "reading" /\ tpg' = tpg /\ exporter' = exporter /\ printed' = printed /\ outcome' = outcome
  BY ReadFrame
<1>2. PICK w : PrintedFile(tpg, Contents, exporter, printed, w) /\ Importing(w)
  BY <1>1 DEF DotInv, FileInv
<1>3. PICK r : Progress(tpg, Contents, w, importer, pos, r)
  BY <1>2 DEF Importing
<1>4. AtWork(tpg, Contents, w, exporter.lines, importer, pos, r)
  BY <1>2, <1>3 DEF AtWork, PrintedFile
<1>5. \E s : Progress(tpg, Contents, w, importer', pos', s)
  <2> DEFINE g == tpg
             S == Contents
  <2>1. AtWork(g, S, w, exporter.lines, importer, pos, r)
    BY <1>4
  <2> HIDE DEF g, S
  <2>2. CASE ReadTeam
    BY <2>1, <2>2, ReadTeamStep DEF g, S
  <2>3. CASE ReadAction
    BY <2>1, <2>3, ReadActionStep DEF g, S
  <2>4. CASE ReadProgram
    BY <2>1, <2>4, ReadProgramStep DEF g, S
  <2>5. CASE ReadLine
    BY <2>1, <2>5, ReadLineStep DEF g, S
  <2>6. CASE ReadLinkProgramInstruction
    BY <2>1, <2>6, ReadLinkProgramStep DEF g, S
  <2>7. CASE ReadLinkTeamProgramAction
    BY <2>1, <2>7, ReadToActionStep DEF g, S
  <2>8. CASE ReadLinkTeamProgramTeam
    BY <2>1, <2>8, ReadToTeamStep DEF g, S
  <2>9. CASE ReadLinkTeamProgram
    BY <2>1, <2>9, ReadSharedStep DEF g, S
  <2> QED BY <2>2, <2>3, <2>4, <2>5, <2>6, <2>7, <2>8, <2>9 DEF ReadStep
<1>6. Importing(w)'
  BY <1>1, <1>5 DEF Importing
<1>7. PrintedFile(tpg, Contents, exporter, printed, w)'
  BY <1>1, <1>2
<1> QED BY <1>1, <1>6, <1>7 DEF DotInv, FileInv

LEMMA FailToReadStep ==
    ASSUME DotInv, FailToRead
    PROVE  DotInv'
<1>1. /\ outcome = "reading" /\ outcome' = "failure"
      /\ UNCHANGED <<tpg, exporter, printed, importer, pos>>
  BY DEF FailToRead, Reading
<1>2. PICK w : PrintedFile(tpg, Contents, exporter, printed, w) /\ Importing(w)
  BY <1>1 DEF DotInv, FileInv
<1>3. Importing(w)' /\ PrintedFile(tpg, Contents, exporter, printed, w)'
  BY <1>1, <1>2 DEF Importing
<1> QED BY <1>1, <1>3 DEF DotInv, FileInv

LEMMA EndOfGraphStep ==
    ASSUME DotInv, EndOfGraph
    PROVE  DotInv'
<1>1. /\ outcome = "reading" /\ Line.shape = "end" /\ outcome' = "imported"
      /\ UNCHANGED <<tpg, exporter, printed, importer, pos>>
  BY DEF EndOfGraph, Reading
<1>2. PICK w : PrintedFile(tpg, Contents, exporter, printed, w) /\ Importing(w)
  BY <1>1 DEF DotInv, FileInv
<1>3. PICK r : Progress(tpg, Contents, w, importer, pos, r)
  BY <1>2 DEF Importing
<1>4. AtWork(tpg, Contents, w, exporter.lines, importer, pos, r)
  BY <1>2, <1>3 DEF AtWork, PrintedFile
<1>5. AtEnd(w, r, Line)
  <2> DEFINE g == tpg
             S == Contents
  <2>1. AtWork(g, S, w, exporter.lines, importer, pos, r)
    BY <1>4
  <2> HIDE DEF g, S
  <2>2. AtALine(g, w, r, Line)
    BY <2>1, LineRead
  <2> QED BY <1>1, <2>2, LineShapes
<1>6. AtFooter(w, r) /\ r.roots = Len(w.roots)
  BY <1>5 DEF AtEnd
<1>7. Importing(w)' /\ PrintedFile(tpg, Contents, exporter, printed, w)'
  BY <1>1, <1>2, <1>3, <1>6 DEF Importing
<1> QED BY <1>1, <1>7 DEF DotInv, FileInv

LEMMA RootReplacedStep ==
    ASSUME DotInv, NEW v, ReplaceRoot(v)
    PROVE  DotInv'
<1>1. GraphOK(tpg', Contents)
  <2>1. Program \subseteq Contents /\ GraphOK(tpg, Contents)
    BY DEF Contents, DotInv
  <2> DEFINE S == Contents
  <2>2. GraphOK(tpg, S) /\ Program \subseteq S
    BY <2>1
  <2> HIDE DEF S
  <2>3. GraphOK(tpg', S)
    BY <2>2, ReplaceRootStep
  <2> QED BY <2>3 DEF S
<1>2. outcome' = "none" /\ exporter' = exporter
  BY DEF ReplaceRoot
<1> QED BY <1>1, <1>2 DEF DotInv

LEMMA DotInvStep == DotInv /\ [DotNext]_dotVars => DotInv'
<1> SUFFICES ASSUME DotInv, [DotNext]_dotVars PROVE DotInv'
  OBVIOUS
<1>1. CASE PrintWhole
  BY <1>1, PrintWholeStep
<1>2. CASE \E v \in ToSet(tpg.vertices) : PrintSub(v)
  BY <1>2, PrintSubStep
<1>3. CASE \E v \in ToSet(RootVertices(tpg)) : ReplaceRoot(v)
  BY <1>3, RootReplacedStep
<1>4. CASE ImportGraph
  BY <1>4, ImportGraphStep
<1>5. CASE ReadStep
  BY <1>5, AnyReadStep
<1>6. CASE FailToRead
  BY <1>6, FailToReadStep
<1>7. CASE EndOfGraph
  BY <1>7, EndOfGraphStep
<1>8. CASE UNCHANGED dotVars
  <2>1. UNCHANGED <<tpg, exporter, printed, importer, pos, outcome>>
    BY <1>8 DEF dotVars
  <2> QED BY <2>1 DEF DotInv, FileInv, Importing
<1> QED BY <1>1, <1>2, <1>3, <1>4, <1>5, <1>6, <1>7, <1>8 DEF DotNext, ReadStep

-----------------------------------------------------------------------------
(* What the edges read say of those of the file *)

LEMMA EdgesReadFacts ==
    ASSUME NEW g, NEW S, NEW w, NEW r, NEW lines, NEW m, NEW p, AtWork(g, S, w, lines, m, p, r)
    PROVE  /\ Len(w.edges) \in Nat /\ r.edges \in 0 .. Len(w.edges)
           /\ Len(m.graph.edges) = r.edges /\ DOMAIN m.graph.edges = 1 .. r.edges
           /\ \A t \in 1 .. r.edges : \E n :
                 /\ EdgeRead(g, w, m.graph, n, m.graph.edges[t], w.edges[t])
                 /\ m.content[n] = [constants |-> w.edges[t].prog, lines |-> {w.edges[t].prog}]
           /\ \A t, u \in 1 .. r.edges :
                 m.graph.edges[t].prog = m.graph.edges[u].prog <=> w.edges[t].prog = w.edges[u].prog
<1> DEFINE x == Before(w, r)
           f == FirstProgram(w)
           q == m.graph.edges
<1>1. /\ FileSense(g, S, w) /\ IsFile(g, S, w, lines) /\ IsPlace(g, w, r) /\ m \in Importers(S)
      /\ ProgramsKnown(w, m, r) /\ EdgesKnown(g, w, m.graph, r)
  BY DEF AtWork, Progress
<1>2. /\ Len(w.edges) \in Nat /\ r.edges \in 0 .. Len(w.edges) /\ f \in Nat
      /\ x \in Exporters({w.id}, S) /\ ProgramsNumbered(f, x, w.edges, r.edges)
  BY <1>1, PlaceFacts
<1>3. Len(q) = r.edges /\ DOMAIN q = 1 .. r.edges
  <2>1. q \in Seq(EdgeRecords)
    BY <1>1 DEF Importers, ReadGraphs
  <2>2. DOMAIN q = 1 .. Len(q)
    <3> HIDE DEF q
    <3> QED BY <2>1, LenProperties
  <2> QED BY <1>1, <2>2 DEF EdgesKnown
<1>4. \A t \in 1 .. r.edges : w.edges[t].prog \in DOMAIN x.programID
  BY <1>2 DEF ProgramsNumbered
<1>5. \A a \in DOMAIN x.programID : x.programID[a] \in Nat
  <2>1. x.programID \in MapsOf(S, Nat)
    BY <1>2 DEF Exporters
  <2> DEFINE M == x.programID
  <2> HIDE DEF M
  <2>2. M \in [DOMAIN M -> Nat]
    BY <2>1, NumbersAre DEF M
  <2> QED BY <2>2 DEF M
<1>6. ASSUME NEW t \in 1 .. r.edges
      PROVE  LET n == NumberOf(w, r, w.edges[t].prog)
             IN  /\ EdgeRead(g, w, m.graph, n, q[t], w.edges[t])
                 /\ m.content[n] = [constants |-> w.edges[t].prog, lines |-> {w.edges[t].prog}]
  BY <1>1, <1>4 DEF EdgesKnown, ProgramsKnown
<1>7. ASSUME NEW t \in 1 .. r.edges, NEW u \in 1 .. r.edges
      PROVE  q[t].prog = q[u].prog <=> w.edges[t].prog = w.edges[u].prog
  <2> DEFINE a == w.edges[t].prog
             b == w.edges[u].prog
  <2>1. q[t].prog = x.programID[a] - f + 1 /\ q[u].prog = x.programID[b] - f + 1
    BY <1>6 DEF EdgeRead, NumberOf
  <2>2. a \in DOMAIN x.programID /\ b \in DOMAIN x.programID
    BY <1>4
  <2>3. x.programID[a] = x.programID[b] => a = b
    BY <1>2, <2>2 DEF ProgramsNumbered
  <2>4. x.programID[a] \in Nat /\ x.programID[b] \in Nat
    BY <1>5, <2>2
  <2>5. x.programID[a] - f + 1 = x.programID[b] - f + 1 <=> x.programID[a] = x.programID[b]
    <3> DEFINE A == x.programID[a]
               B == x.programID[b]
    <3>1. A \in Nat /\ B \in Nat /\ f \in Nat
      BY <1>2, <2>4
    <3> HIDE DEF A, B, f
    <3>2. A - f + 1 = B - f + 1 <=> A = B
      BY <3>1
    <3> QED BY <3>2 DEF A, B
  <2>6. q[t].prog = q[u].prog <=> x.programID[a] = x.programID[b]
    BY <2>1, <2>5, Zenon
  <2>7. q[t].prog = q[u].prog <=> a = b
    BY <2>3, <2>6, Zenon
  <2> QED BY <2>7
<1> QED BY <1>2, <1>3, <1>6, <1>7

LEMMA PrefixOfInv == DotInv => ImportIsPrefix
<1> SUFFICES ASSUME DotInv, outcome \in {"reading", "imported", "failure"}
             PROVE  LET es == importer.graph.edges
                        fs == Rerouted(printed.edges)
                    IN  /\ Len(es) <= Len(fs)
                        /\ \A i \in DOMAIN es :
                              /\ SameEdge(es[i], fs[i])
                              /\ \A j \in DOMAIN es :
                                    es[i].prog = es[j].prog <=> fs[i].prog = fs[j].prog
  BY DEF ImportIsPrefix
<1> DEFINE es == importer.graph.edges
           fs == Rerouted(printed.edges)
<1>1. PICK w : PrintedFile(tpg, Contents, exporter, printed, w) /\ Importing(w)
  BY DEF DotInv, FileInv
<1>2. PICK r : Progress(tpg, Contents, w, importer, pos, r)
  BY <1>1 DEF Importing
<1>3. AtWork(tpg, Contents, w, exporter.lines, importer, pos, r)
  BY <1>1, <1>2 DEF AtWork, PrintedFile
<1>4. /\ Len(w.edges) \in Nat /\ r.edges \in 0 .. Len(w.edges)
      /\ Len(es) = r.edges /\ DOMAIN es = 1 .. r.edges
      /\ \A t \in 1 .. r.edges : \E n :
            /\ EdgeRead(tpg, w, importer.graph, n, es[t], w.edges[t])
            /\ importer.content[n] = [constants |-> w.edges[t].prog, lines |-> {w.edges[t].prog}]
      /\ \A t, u \in 1 .. r.edges : es[t].prog = es[u].prog <=> w.edges[t].prog = w.edges[u].prog
  <2> DEFINE g == tpg
             S == Contents
             m == importer
  <2>1. AtWork(g, S, w, exporter.lines, m, pos, r)
    BY <1>3
  <2> HIDE DEF g, S, m
  <2>2. /\ Len(w.edges) \in Nat /\ r.edges \in 0 .. Len(w.edges)
        /\ Len(m.graph.edges) = r.edges /\ DOMAIN m.graph.edges = 1 .. r.edges
        /\ \A t \in 1 .. r.edges : \E n :
              /\ EdgeRead(g, w, m.graph, n, m.graph.edges[t], w.edges[t])
              /\ m.content[n] = [constants |-> w.edges[t].prog, lines |-> {w.edges[t].prog}]
        /\ \A t, u \in 1 .. r.edges :
              m.graph.edges[t].prog = m.graph.edges[u].prog <=> w.edges[t].prog = w.edges[u].prog
    BY <2>1, EdgesReadFacts
  <2> QED BY <2>2 DEF g, m
<1>5. w.teams = printed.teams /\ w.edges = fs
  BY <1>1 DEF PrintedFile
<1>6. /\ DOMAIN w.teams = 1 .. Len(w.teams)
      /\ \A i \in 1 .. Len(w.edges) : IsTeam(tpg, w.edges[i].src)
  BY <1>3 DEF AtWork, FileSense
<1> HIDE DEF es, fs
<1>7. ASSUME NEW i \in DOMAIN es
      PROVE  SameEdge(es[i], fs[i])
  <2>1. PICK n : /\ EdgeRead(tpg, w, importer.graph, n, es[i], w.edges[i])
                 /\ importer.content[n] = [constants |-> w.edges[i].prog, lines |-> {w.edges[i].prog}]
    BY <1>4
  <2>2. i \in 1 .. Len(w.edges)
    BY <1>4
  <2>3. StandsFor(es[i].src, w.edges[i].src)
    BY <1>5, <1>6, <2>1, <2>2 DEF EdgeRead, StandsFor
  <2>4. StandsFor(es[i].dst, w.edges[i].dst)
    BY <1>5, <1>6, <2>1 DEF EdgeRead, EndRead, StandsFor
  <2> QED BY <1>5, <2>1, <2>3, <2>4 DEF SameEdge, EdgeRead
<1>8. Len(es) <= Len(fs)
  BY <1>4, <1>5
<1>9. \A i, j \in DOMAIN es : es[i].prog = es[j].prog <=> fs[i].prog = fs[j].prog
  BY <1>4, <1>5
<1>10. /\ Len(es) <= Len(fs)
       /\ \A i \in DOMAIN es :
             /\ SameEdge(es[i], fs[i])
             /\ \A j \in DOMAIN es :
                   es[i].prog = es[j].prog <=> fs[i].prog = fs[j].prog
  BY <1>7, <1>8, <1>9, Zenon
<1> QED BY <1>10 DEF es, fs

(* At any time of an import, and when it fails, the edges of the imported graph are the first ones of
   the file, in order, with the same sources, the same programs and the same sharing of programs, whatever
   the exporter wrote before; and each leads where the first edge of its program leads, the only one that
   a destination is written with. *)
THEOREM ImportIsAlwaysPrefix == DotSpec => []ImportIsPrefix
<1>1. DotInit => DotInv
  BY DotInitInv
<1>2. DotInv /\ [DotNext]_dotVars => DotInv'
  BY DotInvStep
<1>3. DotInv => ImportIsPrefix
  BY PrefixOfInv
<1> QED BY <1>1, <1>2, <1>3, PTL DEF DotSpec

-----------------------------------------------------------------------------
(* What is imported at the end of a file *)

LEMMA TeamsCounted ==
    ASSUME NEW G, NEW n \in Nat, NEW t \in 0 .. n, G.vertices \in Seq(Nat), Len(G.vertices) = n,
           \A v \in 1 .. n : G.vertices[v] = v /\ (G.kind[v] = Team <=> v <= t)
    PROVE  ToSet(G.vertices) = 1 .. n /\ Len(Teams(G)) = t
<1> DEFINE q == G.vertices
           V == ToSet(q)
           T == {v \in V : IsTeam(G, v)}
           s == SelectIn(q, T)
<1>1. q \in Seq(Nat) /\ DOMAIN q = 1 .. n
  BY LenProperties
<1>2. V = 1 .. n
  BY <1>1 DEF ToSet
<1>3. Distinct(q)
  BY <1>1 DEF Distinct
<1>4. s \in Seq(Nat) /\ Distinct(s) /\ ToSet(s) = V \cap T
  <2> DEFINE N == Nat
  <2>1. q \in Seq(N) /\ Distinct(q)
    BY <1>1, <1>3
  <2> HIDE DEF N, T, q
  <2>2. s \in Seq(N) /\ Distinct(s) /\ ToSet(s) = ToSet(q) \cap T
    BY <2>1, SelectedDistinct
  <2> QED BY <2>2 DEF N
<1>5. V \cap T = 1 .. t
  BY <1>2 DEF IsTeam
<1>6. Len(s) = t
  <2> DEFINE N == Nat
  <2>1. s \in Seq(N) /\ Distinct(s) /\ ToSet(s) = 1 .. t
    BY <1>4, <1>5
  <2> HIDE DEF s, V, T, N
  <2>2. Cardinality(ToSet(s)) = Len(s)
    BY <2>1, DistinctLength
  <2>3. Cardinality(1 .. t) = t
    <3>1. t \in Int /\ t \in Nat
      OBVIOUS
    <3>2. Cardinality(1 .. t) = IF 1 > t THEN 0 ELSE t - 1 + 1
      BY <3>1, FS_Interval
    <3> QED BY <3>1, <3>2
  <2> QED BY <2>1, <2>2, <2>3
<1> QED BY <1>2, <1>6 DEF Teams

ImportedAll(G, teams, n, labels) ==
    /\ Len(Teams(G)) = teams /\ Len(G.edges) = n
    /\ {G.kind[v] : v \in ToSet(G.vertices)} \ {Team} = labels
    /\ Len(G.vertices) = teams + Cardinality(labels)

LEMMA AllImported ==
    ASSUME NEW g, NEW S, NEW w, NEW r, NEW lines, NEW m, NEW p, AtWork(g, S, w, lines, m, p, r),
           AtFooter(w, r), r.roots = Len(w.roots)
    PROVE  ImportedAll(m.graph, Len(w.teams), Len(w.edges), PrintedLabels(g, w))
<1> DEFINE G == m.graph
           ids == m.actionID
           t == Len(w.teams)
           N == Len(G.vertices)
           L == PrintedLabels(g, w)
<1>1. /\ FileSense(g, S, w) /\ IsPlace(g, w, r) /\ m \in Importers(S)
      /\ VerticesKnown(w, G, r) /\ ActionsKnown(g, w, G, ids, r) /\ EdgesKnown(g, w, G, r)
  BY DEF AtWork, Progress
<1>2. r.teams = t /\ r.edges = Len(w.edges) /\ t \in Nat /\ Len(w.edges) \in Nat /\ Len(w.roots) \in Nat
  BY <1>1 DEF AtFooter, FileSense
<1>3. G.vertices \in Seq(Nat) /\ N \in Nat
  <2>1. G.vertices \in Seq(Nat)
    BY <1>1 DEF Importers, ReadGraphs
  <2> DEFINE q == G.vertices
  <2>2. Len(q) \in Nat
    <3> HIDE DEF q
    <3> QED BY <2>1, LenProperties DEF q
  <2> QED BY <2>1, <2>2
<1>4. t \in 0 .. N /\ \A v \in 1 .. N : G.vertices[v] = v /\ (G.kind[v] = Team <=> v <= t)
  BY <1>1, <1>2, <1>3 DEF VerticesKnown
<1>5. ToSet(G.vertices) = 1 .. N /\ Len(Teams(G)) = t
  <2> HIDE DEF G, t
  <2> QED BY <1>3, <1>4, TeamsCounted
<1>6. /\ DOMAIN ids \subseteq L
      /\ \A l \in DOMAIN ids : ids[l] \in t + 1 .. N /\ G.kind[ids[l]] = l
      /\ \A v \in t + 1 .. N : G.kind[v] \in DOMAIN ids /\ ids[G.kind[v]] = v
      /\ \A j \in 1 .. Len(w.roots) : g.kind[w.roots[j]] \in DOMAIN ids
  BY <1>1, <1>2 DEF ActionsKnown
<1>7. ASSUME NEW i \in 1 .. Len(w.edges), IsAction(g, w.edges[i].dst)
      PROVE  \E v \in 1 .. N : G.kind[v] = g.kind[w.edges[i].dst] /\ G.kind[v] # Team
  <2>1. EndRead(g, w, G, G.edges[i].dst, w.edges[i].dst)
    BY <1>1, <1>2 DEF EdgesKnown, EdgeRead
  <2> QED BY <1>7, <2>1 DEF EndRead, IsAction, IsTeam
<1>8. \A v \in t + 1 .. N : v \in 1 .. N /\ G.kind[v] # Team
  <2> HIDE DEF G, N, t
  <2> QED BY <1>2, <1>3, <1>4
<1>9. \A v \in 1 .. N : G.kind[v] # Team => v \in t + 1 .. N
  <2> HIDE DEF G, N, t
  <2> QED BY <1>2, <1>3, <1>4
<1>10. \A l \in L : \E v \in t + 1 .. N : G.kind[v] = l
  <2> SUFFICES ASSUME NEW l \in L PROVE \E v \in t + 1 .. N : G.kind[v] = l
    OBVIOUS
  <2>1. CASE \E i \in 1 .. Len(w.edges) : IsAction(g, w.edges[i].dst) /\ l = g.kind[w.edges[i].dst]
    <3>1. PICK v \in 1 .. N : G.kind[v] = l /\ G.kind[v] # Team
      BY <1>7, <2>1
    <3> QED BY <1>9, <3>1
  <2>2. CASE \E j \in 1 .. Len(w.roots) : l = g.kind[w.roots[j]]
    BY <1>6, <2>2
  <2> QED BY <2>1, <2>2 DEF PrintedLabels
<1>11. {G.kind[v] : v \in ToSet(G.vertices)} \ {Team} = L
  <2> HIDE DEF G, N, t, L, ids
  <2>1. \A l \in L : \E v \in 1 .. N : G.kind[v] = l /\ l # Team
    BY <1>8, <1>10
  <2>2. \A v \in 1 .. N : G.kind[v] # Team => G.kind[v] \in L
    BY <1>6, <1>9
  <2> QED BY <1>5, <2>1, <2>2
<1>12. N = t + Cardinality(L)
  <2> DEFINE D == t + 1 .. N
             f == [v \in D |-> G.kind[v]]
  <2> HIDE DEF G, N, t, L, ids
  <2>1. \A v \in D : f[v] \in L
    BY <1>6
  <2>2. \A u, v \in D : f[u] = f[v] => u = v
    BY <1>6
  <2>3. \A l \in L : \E v \in D : f[v] = l
    BY <1>10
  <2>4. f \in Bijection(D, L)
    BY <2>1, <2>2, <2>3 DEF Bijection, Injection, Surjection, IsInjective
  <2>5. ExistsBijection(D, L)
    BY <2>4 DEF ExistsBijection
  <2>6. IsFiniteSet(D) /\ Cardinality(D) = N - t
    <3>1. t \in Nat /\ N \in Nat /\ t <= N
      BY <1>2, <1>3, <1>4
    <3> DEFINE a == t + 1
    <3>2. a \in Int /\ N \in Int
      BY <3>1
    <3> HIDE DEF a
    <3>3. IsFiniteSet(a .. N) /\ Cardinality(a .. N) = IF a > N THEN 0 ELSE N - a + 1
      BY <3>2, FS_Interval
    <3>4. IsFiniteSet(D) /\ Cardinality(D) = IF t + 1 > N THEN 0 ELSE N - (t + 1) + 1
      BY <3>3 DEF a
    <3> HIDE DEF D
    <3> QED BY <3>1, <3>4
  <2> HIDE DEF D, f
  <2>7. Cardinality(L) = Cardinality(D)
    BY <2>5, <2>6, FS_Bijection
  <2> QED BY <1>2, <1>3, <2>6, <2>7
<1>13. Len(G.edges) = Len(w.edges)
  BY <1>1, <1>2 DEF EdgesKnown
<1> HIDE DEF G, N, t, L
<1>14. ImportedAll(G, t, Len(w.edges), L)
  BY <1>5, <1>11, <1>12, <1>13 DEF ImportedAll, N
<1> QED BY <1>14 DEF G, t, L

LEMMA RoundTripOfInv == DotInv => RoundTrip
<1> SUFFICES ASSUME DotInv, outcome = "imported" PROVE RoundTrip
  BY DEF RoundTrip
<1> DEFINE g == tpg
           S == Contents
           m == importer
           pr == printed
<1>1. PICK w : PrintedFile(tpg, Contents, exporter, printed, w) /\ Importing(w)
  BY DEF DotInv, FileInv
<1>2. PICK r : /\ Progress(tpg, Contents, w, importer, pos, r)
               /\ AtFooter(w, r) /\ r.roots = Len(w.roots)
  BY <1>1 DEF Importing
<1>3. AtWork(g, S, w, exporter.lines, m, pos, r)
  BY <1>1, <1>2 DEF AtWork, PrintedFile
<1> DEFINE labels == ActionsOf(g, Rerouted(pr.edges)) \cup pr.roots
<1>4. /\ w.teams = pr.teams /\ Len(w.edges) = Len(pr.edges) /\ PrintedLabels(g, w) = labels
      /\ IsInjective(pr.teams) /\ IsInjective(pr.edges)
      /\ ToSet(pr.teams) = pr.policy \cap ToSet(Teams(g))
      /\ ToSet(pr.edges) = {e \in ToSet(g.edges) : e.src \in pr.policy}
  BY <1>1 DEF PrintedFile
<1> HIDE DEF g, S, m, pr
<1>5. ImportedAll(m.graph, Len(w.teams), Len(w.edges), PrintedLabels(g, w))
  BY <1>2, <1>3, AllImported
<1> HIDE DEF labels
<1>6. ImportedAll(m.graph, Len(pr.teams), Len(pr.edges), labels)
  BY <1>4, <1>5
<1> QED BY <1>4, <1>6 DEF RoundTrip, ImportedAll, labels, g, m, pr

(* What is exported and imported without failure is the same graph: each team, each edge, and one action
   for each identifier of a root action or of an action that the first edge of a program leads to; and the
   file holds the whole graph, or the policy of the vertex given to printSubGraph, every part of it once. *)
THEOREM FilesRoundTrip == DotSpec => []RoundTrip
<1>1. DotInit => DotInv
  BY DotInitInv
<1>2. DotInv /\ [DotNext]_dotVars => DotInv'
  BY DotInvStep
<1>3. DotInv => RoundTrip
  BY RoundTripOfInv
<1> QED BY <1>1, <1>2, <1>3, PTL DEF DotSpec
=============================================================================

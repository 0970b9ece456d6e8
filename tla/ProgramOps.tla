----------------------------- MODULE ProgramOps -----------------------------
(***************************************************************************)
(* A Program: its lines with their intron marks and its constants, and     *)
(* what is done with one: marking the introns, executing, comparing,       *)
(* mutating.                                                               *)
(*                                                                         *)
(* Instruction i is the sequence of the types of its operands.  Data       *)
(* source 0 is the registers, 1 the constants of the program if it has     *)
(* some, the others belong to the environment.                             *)
(***************************************************************************)
EXTENDS DataHandlers, FiniteSets, SequencesExt

CONSTANTS NbRegisters, NbConstants,
          InstructionSet,   \* instructions given to the Environment
          EnvironmentData,  \* data handlers given to the Environment
          ConstantValue,    \* from minConstValue to maxConstValue
          MaxProgramSize,   \* params.prog.maxProgramSize
          DrawnLocation     \* the locations that draws give, below LargestAddressSpace: a bound

Register == 0 .. NbRegisters - 1

(* Environment::fakeDataSources *)
NbOwnSources == IF NbConstants > 0 THEN 2 ELSE 1

DataSource == 0 .. NbOwnSources + Len(EnvironmentData) - 1

Handler(s) ==
    IF s = 0 THEN [native |-> "double", dims |-> <<NbRegisters>>]
    ELSE IF s < NbOwnSources THEN [native |-> "Constant", dims |-> <<NbConstants>>]
    ELSE EnvironmentData[s - NbOwnSources + 1]

(* The elements of a sequence that are in S, in order *)
SelectIn(seq, S) == FoldLeft(LAMBDA kept, x : IF x \in S THEN Append(kept, x) ELSE kept, <<>>, seq)

(* filterInstructionSet: the instructions whose every operand some source can provide *)
FilterInstructionSet(set) ==
    SelectIn(set, {types \in ToSet(set) :
                     \A n \in DOMAIN types : \E s \in DataSource : CanHandle(Handler(s), types[n])})

Instructions == FilterInstructionSet(InstructionSet)

MaxNbOperands == Max({Len(Instructions[i]) : i \in DOMAIN Instructions})

(* computeLargestAddressSpace *)
LargestAddressSpace == Max({NbElements(Handler(s)) : s \in DataSource})

(* What computeLineSize throws for is excluded. *)
ASSUME EnvironmentAssumption ==
    /\ NbRegisters \in Nat \ {0} /\ NbConstants \in Nat /\ MaxProgramSize \in Nat \ {0}
    /\ InstructionSet \in Seq(Seq(DataType)) /\ EnvironmentData \in Seq(HandlerType)
    /\ Cardinality(DataSource) > 1 /\ LargestAddressSpace > 0
    /\ Len(Instructions) > 1 /\ MaxNbOperands > 0
    /\ DrawnLocation \subseteq 0 .. LargestAddressSpace - 1

Operand == [src : DataSource, loc : DrawnLocation]

Line == [instr : DOMAIN Instructions, dest : Register, ops : [1 .. MaxNbOperands -> Operand]]

MarkedLine == [line : Line, intron : BOOLEAN]

Constants == [0 .. NbConstants - 1 -> ConstantValue]

-----------------------------------------------------------------------------
(* The operands that the instruction of a line takes. *)
NbOperands(line) == Len(Instructions[line.instr])

OperandType(line, n) == Instructions[line.instr][n]

Location(line, n) ==
    ScaleLocation(Handler(line.ops[n].src), line.ops[n].loc, OperandType(line, n))

(* The elements of its source that an operand is made of *)
Accessed(line, n) ==
    AddressesAccessed(Handler(line.ops[n].src), OperandType(line, n), Location(line, n))

RegistersRead(line) ==
    UNION {ToSet(Accessed(line, n)) : n \in {m \in 1 .. NbOperands(line) : line.ops[m].src = 0}}

(* identifyIntrons scans the lines backward with the set of registers that are still
   useful, initially {0}. *)
UsefulBefore_KeepsDestination(line, useful) == useful \cup RegistersRead(line)
UsefulBefore_RemovesLast(line, useful) == (useful \cup RegistersRead(line)) \ {line.dest}
UsefulBefore(line, useful) == (useful \ {line.dest}) \cup RegistersRead(line)

MarkLine(marked, scan) ==
    IF marked.line.dest \in scan.useful
    THEN [useful |-> UsefulBefore(marked.line, scan.useful),
          lines |-> <<[marked EXCEPT !.intron = FALSE]>> \o scan.lines]
    ELSE [useful |-> scan.useful,
          lines |-> <<[marked EXCEPT !.intron = TRUE]>> \o scan.lines]

IdentifyIntrons(lines) == FoldRight(MarkLine, lines, [useful |-> {0}, lines |-> <<>>]).lines

UsefulLines(lines) == SelectIn(lines, {l \in ToSet(lines) : ~ l.intron})

(* clearIntrons *)
ClearIntrons(lines) == UsefulLines(lines)

-----------------------------------------------------------------------------
(* ProgramExecutionEngine: the registers are reset, the lines that are not introns are
   executed, and register 0 is the result.  Values are symbolic. *)
Zero == <<"zero">>

(* fetchCurrentOperands: the content of the elements of an operand *)
ValueAt(s, elements, registers, constants) ==
    [i \in DOMAIN elements |->
        IF s = 0 THEN registers[elements[i]]
        ELSE IF s < NbOwnSources THEN <<"constant", constants[elements[i]]>>
        ELSE <<"data", s, elements[i]>>]

ExecuteLine(registers, line, constants) ==
    [registers EXCEPT ![line.dest] =
        <<"result", line.instr,
          [n \in 1 .. NbOperands(line) |->
              ValueAt(line.ops[n].src, Accessed(line, n), registers, constants)]>>]

Execute(lines, constants) ==
    FoldLeft(LAMBDA registers, l : ExecuteLine(registers, l.line, constants),
             [r \in Register |-> Zero], lines)[0]

ExecutedLines(lines) == UsefulLines(lines)

ExecuteProgram(p) == Execute(ExecutedLines(p.lines), p.constants)

-----------------------------------------------------------------------------
(* hasIdenticalBehavior compares the lines that are not introns one by one, and the
   values of the constants that they refer to. *)
SameConstants_Ignored(p, q, line) == TRUE
SameConstants(p, q, line) ==
    NbConstants > 0 =>
        \A n \in 1 .. NbOperands(line) :
            line.ops[n].src = 1 =>
                LET c == line.ops[n].loc % NbConstants
                IN  p.constants[c] = q.constants[c]

HasIdenticalBehavior(p, q) ==
    LET a == UsefulLines(p.lines)
        b == UsefulLines(q.lines)
    IN  /\ Len(a) = Len(b)
        /\ \A i \in DOMAIN a : a[i].line = b[i].line /\ SameConstants(p, q, a[i].line)

-----------------------------------------------------------------------------
(* initRandomCorrectLineOperand: the sources that an operand may get; an operand that the
   instruction does not take gets any. *)
SourcesFor(line, n) ==
    IF n <= NbOperands(line) THEN {s \in DataSource : CanHandle(Handler(s), OperandType(line, n))}
                             ELSE DataSource

LineCorrect(line) == \A n \in 1 .. MaxNbOperands : line.ops[n].src \in SourcesFor(line, n)

(* initRandomCorrectLine *)
RandomCorrectLines == {line \in Line : LineCorrect(line)}

(* alterCorrectLine: another instruction, with another source for the operands whose
   source cannot handle what it takes.  The number of bits of an instruction is computed
   from the number of registers, so that a single register leaves the instruction alone. *)
InstructionAltered_SourcesKept(line) ==
    {[line EXCEPT !.instr = i] : i \in DOMAIN Instructions \ {line.instr}}
InstructionAltered(line) ==
    IF NbRegisters = 1 THEN {}
    ELSE {l \in {[line EXCEPT !.instr = i,
                             !.ops = [n \in 1 .. MaxNbOperands |-> [src |-> s[n], loc |-> line.ops[n].loc]]] :
                  i \in DOMAIN Instructions \ {line.instr}, s \in [1 .. MaxNbOperands -> DataSource]} :
             /\ LineCorrect(l)
             /\ \A n \in 1 .. MaxNbOperands :
                   line.ops[n].src \in SourcesFor(l, n) => l.ops[n] = line.ops[n]}

(* another destination; with a single register, setDestinationIndex refuses *)
DestinationAltered(line) ==
    IF NbRegisters = 1 THEN {line} ELSE {[line EXCEPT !.dest = d] : d \in Register \ {line.dest}}

(* another source for an operand, if there is one that can provide its type *)
SourceAltered(line, n) ==
    LET others == SourcesFor(line, n) \ {line.ops[n].src}
    IN  IF others = {} THEN {line} ELSE {[line EXCEPT !.ops[n].src = s] : s \in others}

(* another location of an operand *)
LocationAltered(line, n) ==
    {[line EXCEPT !.ops[n].loc = a] : a \in DrawnLocation \ {line.ops[n].loc}}

AlteredLines(line) ==
    InstructionAltered(line) \cup DestinationAltered(line)
      \cup UNION {SourceAltered(line, n) \cup LocationAltered(line, n) : n \in 1 .. MaxNbOperands}
=============================================================================

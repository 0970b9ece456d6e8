--------------------------- MODULE ProgramMutator ---------------------------
(***************************************************************************)
(* The life of a Program: ProgramMutator::initRandomProgram and            *)
(* mutateProgram, each of whose steps works on marks of introns that the   *)
(* steps before left stale, and clearIntrons at the end of a training.     *)
(***************************************************************************)
EXTENDS GeneratedProgram

VARIABLES program,      \* the Program: marked lines and constants
          pc,           \* where initRandomProgram or mutateProgram is
          nbLine,       \* local variable of initRandomProgram
          anyMutation   \* local variable of mutateProgram

vars == <<program, pc, nbLine, anyMutation>>

NbLines == Len(program.lines)

NoConstant == [c \in 0 .. NbConstants - 1 |-> 0]

Init == /\ program = [lines |-> <<>>, constants |-> NoConstant]
        /\ pc = "idle"
        /\ nbLine = 0
        /\ anyMutation = FALSE

(* A new line is not an intron by default. *)
AddNewLine(lines, idx, line) == InsertAt(lines, idx, [line |-> line, intron |-> FALSE])

SwapLines(lines, i, j) == [lines EXCEPT ![i] = lines[j], ![j] = lines[i]]

Goto(l) == pc' = l /\ UNCHANGED nbLine

-----------------------------------------------------------------------------
(* initRandomProgram: empty the program, draw constants and a number of lines, *)
InitRandomProgram ==
    /\ pc = "idle"
    /\ \E c \in Constants : program' = [lines |-> <<>>, constants |-> c]
    /\ nbLine' \in 1 .. MaxProgramSize
    /\ pc' = "insert"
    /\ UNCHANGED anyMutation

(* insert the lines at random places, and identify the introns. *)
InsertRandomLine ==
    \E idx \in 1 .. NbLines + 1, line \in RandomCorrectLines :
        program' = [program EXCEPT !.lines = AddNewLine(@, idx, line)]

InsertLine ==
    /\ pc = "insert"
    /\ NbLines < nbLine
    /\ InsertRandomLine
    /\ UNCHANGED <<pc, nbLine, anyMutation>>

EndInit ==
    /\ pc = "insert"
    /\ NbLines = nbLine
    /\ program' = [program EXCEPT !.lines = IdentifyIntrons(@)]
    /\ nbLine' = 0
    /\ pc' = "idle"
    /\ UNCHANGED anyMutation

-----------------------------------------------------------------------------
(* mutateProgram: each of five mutations happens or not; *)
MutateProgram ==
    /\ pc = "idle"
    /\ Goto("delete")
    /\ anyMutation' = FALSE
    /\ UNCHANGED program

DeleteRandomLine ==
    /\ pc = "delete"
    /\ NbLines > 1
    /\ \E i \in 1 .. NbLines : program' = [program EXCEPT !.lines = RemoveAt(@, i)]
    /\ anyMutation' = TRUE
    /\ Goto("add")

HasRoom(n) == n < MaxProgramSize

AddRandomLine ==
    /\ pc = "add"
    /\ HasRoom(NbLines)
    /\ InsertRandomLine
    /\ anyMutation' = TRUE
    /\ Goto("alter")

(* A program without line cannot be altered, though a mutation is noted. *)
AlterRandomLine ==
    /\ pc = "alter"
    /\ \/ /\ NbLines = 0
          /\ UNCHANGED program
       \/ \E i \in 1 .. NbLines : \E l \in AlteredLines(program.lines[i].line) :
             program' = [program EXCEPT !.lines[i].line = l]
    /\ anyMutation' = TRUE
    /\ Goto("swap")

SwapRandomLines ==
    /\ pc = "swap"
    /\ \/ /\ NbLines < 2
          /\ UNCHANGED program
       \/ \E i, j \in 1 .. NbLines :
             /\ i < j
             /\ program' = [program EXCEPT !.lines = SwapLines(@, i, j)]
    /\ anyMutation' = TRUE
    /\ Goto("constant")

AlterRandomConstant ==
    /\ pc = "constant"
    /\ \E i \in 0 .. NbConstants - 1, c \in ConstantValue :
          program' = [program EXCEPT !.constants[i] = c]
    /\ anyMutation' = TRUE
    /\ Goto("identify")

Following == [delete |-> "add", add |-> "alter", alter |-> "swap", swap |-> "constant",
              constant |-> "identify"]

SkipMutation ==
    /\ pc \in DOMAIN Following
    /\ Goto(Following[pc])
    /\ UNCHANGED <<program, anyMutation>>

(* if any did, the introns are identified again. *)
EndMutation ==
    /\ pc = "identify"
    /\ program' = IF anyMutation
                  THEN [program EXCEPT !.lines = IdentifyIntrons(@)] ELSE program
    /\ anyMutation' = FALSE
    /\ Goto("idle")

-----------------------------------------------------------------------------
(* TPGGraph::clearProgramIntrons *)
ClearProgramIntrons ==
    /\ pc = "idle"
    /\ program' = [program EXCEPT !.lines = ClearIntrons(@)]
    /\ UNCHANGED <<pc, nbLine, anyMutation>>

Next ==
    \/ InitRandomProgram \/ InsertLine \/ EndInit
    \/ MutateProgram \/ DeleteRandomLine \/ AddRandomLine \/ AlterRandomLine \/ SwapRandomLines
    \/ AlterRandomConstant \/ SkipMutation \/ EndMutation
    \/ ClearProgramIntrons

Spec == Init /\ [][Next]_vars

-----------------------------------------------------------------------------
(* Any sequence of mutations leaves lines that can be executed: each operand that the
   instruction takes has a source that provides its type, the operands that another
   instruction left unused before included. *)
LinesStayCorrect == \A i \in 1 .. NbLines : LineCorrect(program.lines[i].line)

(* Reference definition: what a register holds depends on these lines.  All lines are
   executed, forward. *)
Dependencies ==
    FoldLeftDomain(
        LAMBDA deps, i :
            LET l == program.lines[i].line
            IN  [deps EXCEPT ![l.dest] = {i} \cup UNION {deps[r] : r \in RegistersRead(l)}],
        [r \in Register |-> {}], program.lines)

(* Outside of a mutation the lines marked as introns are exactly those that the result
   does not depend on, however the lines came to be where they are. *)
IntronsAreExact ==
    pc = "idle" =>
        \A i \in 1 .. NbLines : program.lines[i].intron <=> i \notin Dependencies[0]

(* Skipping the introns gives the result of executing every line. *)
IntronsDoNotMatter ==
    pc = "idle" => ExecuteProgram(program) = Execute(program.lines, program.constants)

(* Is an operand of the line a row taken from an image that is not as high as wide? *)
TakesRowOfRectangle(line) ==
    \E n \in 1 .. NbOperands(line) :
        LET dims == Handler(line.ops[n].src).dims
        IN  Len(OperandType(line, n).dims) = 1 /\ Len(dims) = 2 /\ dims[1] # dims[2]

(* The code generated for a program computes what the program does: each operand is read
   from the variable declared for its source, at the elements that getDataAt would give.
   Excepted are the programs that execute a line with a row of an image that is not square,
   whose elements printDataAt looks for with the height of the image in the place of its width. *)
GeneratedCodeComputesResult ==
    pc = "idle" =>
        \/ RunGenerated(GenerateProgram(program)) = ExecuteProgram(program)
        \/ \E l \in ToSet(UsefulLines(program.lines)) : TakesRowOfRectangle(l.line)

(* The programs that one removal, swap or change of a constant makes of this one. *)
Variants ==
    {[program EXCEPT !.lines = IdentifyIntrons(ls)] :
        ls \in {RemoveAt(program.lines, i) : i \in 1 .. NbLines}
                 \cup UNION {{SwapLines(program.lines, i, j) : j \in 1 .. NbLines} : i \in 1 .. NbLines}}
      \cup {[program EXCEPT !.constants = c] : c \in Constants}

(* Of an operand that is an array of constants hasIdenticalBehavior compares one constant
   only.  Do the programs agree on all that the line reads? *)
ArraysAgree(p, q, line) ==
    \A n \in 1 .. NbOperands(line) :
        OperandType(line, n).native = "Constant" /\ Width(OperandType(line, n).dims) > 1 =>
            \A c \in ToSet(Accessed(line, n)) : p.constants[c] = q.constants[c]

(* Two programs found identical give the same result on all data: the mutation loop never
   drops a program whose behaviour it did change for one that it did not, unless what changed
   is a constant in an array. *)
IdenticalProgramsGiveSameResult ==
    pc = "idle" =>
        \A p \in Variants :
            HasIdenticalBehavior(program, p) =>
                \/ ExecuteProgram(program) = ExecuteProgram(p)
                \/ \E l \in ToSet(UsefulLines(program.lines)) : ~ ArraysAgree(program, p, l.line)
=============================================================================

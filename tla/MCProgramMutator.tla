-------------------------- MODULE MCProgramMutator --------------------------
(* Instances of ProgramMutator for TLC: two registers, two constants per program, and two
   images in the environment, of which one is higher than wide. *)
EXTENDS ProgramMutator

Double == [native |-> "double", dims |-> <<>>]
Pair == [native |-> "double", dims |-> <<2>>]
Constant == [native |-> "Constant", dims |-> <<>>]
TwoConstants == [native |-> "Constant", dims |-> <<2>>]
Integer == [native |-> "int", dims |-> <<>>]

(* An instruction that takes a pair of numbers, one that takes a constant and a number, one
   that takes a pair of constants, and one that no source can serve entirely. *)
FourInstructions == <<<<Pair>>, <<Constant, Double>>, <<TwoConstants>>, <<Double, Integer>>>>

TwoImages == <<[native |-> "double", dims |-> <<2, 2>>], [native |-> "double", dims |-> <<3, 2>>]>>

Ends == {0, LargestAddressSpace - 1}

(* The operands that lines may get: the first constant or both, the pair of registers, each
   register, the last pair of an image, which is scaled; where an operand is not used, the first
   location of the registers or of the constants. *)
SomeOperand(line, n) ==
    LET o == line.ops[n]
    IN  IF n > NbOperands(line) THEN o.loc = 0 /\ o.src \in {0, 1 - line.ops[1].src}
        ELSE IF OperandType(line, n) = Double THEN o.src = 0
        ELSE o.loc = 0 <=> o.src < 2

(* Programs differ by their second constant; hasIdenticalBehavior compares them to programs
   with any. *)
MCNext ==
    /\ Next
    /\ program'.constants[0] = 0
    /\ \A i \in DOMAIN program'.lines : \A n \in 1 .. MaxNbOperands :
          SomeOperand(program'.lines[i].line, n)

MCSpec == Init /\ [][MCNext]_vars
=============================================================================

-------------------------- MODULE GeneratedProgram --------------------------
(***************************************************************************)
(* The C function that the ProgramGenerationEngine prints for a Program:   *)
(* for each line that is not an intron, a block that copies elements of    *)
(* named variables into operands, and assigns the result of the            *)
(* instruction to a register.                                              *)
(***************************************************************************)
EXTENDS ProgramOps

(* A variable of the generated code *)
Reg == <<"reg">>

Cst == <<"cst">>

In(n) == <<"in", n>>

(* initGlobalVar: the data of the environment that each extern variable stands for, the
   sources after the registers and the constants being declared in1, in2, ... *)
GlobalVariables ==
    LET i == IF NbConstants > 0 THEN 2 ELSE 1
    IN  [cpt \in 1 .. Cardinality(DataSource) - i |-> i + cpt - 1]

(* getNameSourceData *)
NameSourceData_NotShifted(s) ==
    IF s = 0 THEN Reg ELSE IF NbConstants > 0 /\ s = 1 THEN Cst ELSE In(s)
NameSourceData(s) ==
    IF s = 0 THEN Reg
    ELSE IF NbConstants > 0 /\ s = 1 THEN Cst
    ELSE In(IF NbConstants > 0 THEN s - 1 ELSE s)

(* generateCurrentLine: initOperandCurrentLine, then completeFormat *)
GeneratedLine(line) ==
    [dest |-> line.dest,
     instr |-> line.instr,
     ops |-> [n \in 1 .. NbOperands(line) |->
                [variable |-> NameSourceData(line.ops[n].src),
                 elements |-> PrintDataAt(Handler(line.ops[n].src), OperandType(line, n),
                                          Location(line, n))]]]

(* generateProgram *)
GenerateProgram(p) ==
    LET useful == UsefulLines(p.lines)
    IN  [cst |-> p.constants, blocks |-> [i \in DOMAIN useful |-> GeneratedLine(useful[i].line)]]

-----------------------------------------------------------------------------
(* What C does with that code.  A variable in<n> holds the data of the source that it was
   declared for; one that was not declared is no data of any source. *)
SourceNamed(variable) ==
    CASE variable = Reg -> 0
      [] variable = Cst -> 1
      [] OTHER -> IF variable[2] \in DOMAIN GlobalVariables THEN GlobalVariables[variable[2]]
                  ELSE Cardinality(DataSource)

RunBlock(registers, block, cst) ==
    [registers EXCEPT ![block.dest] =
        <<"result", block.instr,
          [n \in DOMAIN block.ops |->
              ValueAt(SourceNamed(block.ops[n].variable), block.ops[n].elements, registers, cst)]>>]

RunGenerated(code) ==
    FoldLeft(LAMBDA registers, b : RunBlock(registers, b, code.cst),
             [r \in Register |-> Zero], code.blocks)[0]
=============================================================================

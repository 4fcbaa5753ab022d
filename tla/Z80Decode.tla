------------------------------ MODULE Z80Decode ------------------------------
(***************************************************************************)
(* The opcode tables of tables.h (generated by the emulator's author with  *)
(* maketables.c) and the register tables of Z80Reset.  The 256-entry       *)
(* tables follow the fields of the opcode: x is bits 7-6, Y() bits 5-3,    *)
(* Z() bits 2-0, P() bits 5-4, Q() bits 4-3 (macros.h:37-45).              *)
(*                                                                         *)
(* An instruction number of instructions.h is the pair of its operation    *)
(* and its addressing form: ADD_INDIRECT_HL is [op |-> "ADD", form |->     *)
(* "INDIRECT_HL"], DAA is [op |-> "DAA", form |-> ""].                     *)
(***************************************************************************)
EXTENDS Integers, Sequences

Y(opcode) == (opcode \div 8) % 8
Z(opcode) == opcode % 8
P(opcode) == (opcode \div 16) % 4
Q(opcode) == (opcode \div 8) % 4

I(op, form) == [op |-> op, form |-> form]
Plain(op)   == I(op, "")

\* Operand code 6 is the memory byte at (HL), (IX + d) or (IY + d).
INDIRECT_HL == 6
Form(code)  == IF code = INDIRECT_HL THEN "INDIRECT_HL" ELSE "R"

ALU_OPS   == <<"ADD", "ADC", "SUB", "SBC", "AND", "XOR", "OR", "CP">>
SHIFT_OPS == <<"RLC", "RRC", "RL", "RR", "SLA", "SRA", "SLL", "SRL">>

\* INSTRUCTION_TABLE[0x00 .. 0x3F], by column Z and row Y.
FirstQuarter(y, z) ==
  CASE z = 0 -> <<Plain("NOP"), Plain("EX_AF_AF_PRIME"), Plain("DJNZ_E"), Plain("JR_E"),
                  Plain("JR_DD_E"), Plain("JR_DD_E"), Plain("JR_DD_E"), Plain("JR_DD_E")>>[y + 1]
    [] z = 1 -> IF y % 2 = 0 THEN I("LD_RR", "NN") ELSE Plain("ADD_HL_RR")
    [] z = 2 -> <<I("LD_A", "TO_BC"), I("LD_A", "BC"), I("LD_A", "TO_DE"), I("LD_A", "DE"),
                  I("LD_HL", "TO_NN"), I("LD_HL", "NN"), I("LD_A", "TO_NN"), I("LD_A", "NN")>>[y + 1]
    [] z = 3 -> IF y % 2 = 0 THEN Plain("INC_RR") ELSE Plain("DEC_RR")
    [] z = 4 -> I("INC", Form(y))
    [] z = 5 -> I("DEC", Form(y))
    [] z = 6 -> I("LD_N", Form(y))
    [] z = 7 -> Plain(<<"RLCA", "RRCA", "RLA", "RRA", "DAA", "CPL", "SCF", "CCF">>[y + 1])

\* INSTRUCTION_TABLE[0x40 .. 0x7F]: loads; a register onto itself is a NOP.
SecondQuarter(y, z) ==
  IF y = z THEN Plain(IF y = INDIRECT_HL THEN "HALT" ELSE "NOP")
  ELSE IF z = INDIRECT_HL THEN I("LD_R", "INDIRECT_HL")
  ELSE IF y = INDIRECT_HL THEN I("LD_INDIRECT_HL", "R")
  ELSE I("LD_R", "R")

\* INSTRUCTION_TABLE[0x80 .. 0xBF]: arithmetic on A with a register or memory.
ThirdQuarter(y, z) == I(ALU_OPS[y + 1], Form(z))

\* INSTRUCTION_TABLE[0xC0 .. 0xFF].
LastQuarter(y, z) ==
  CASE z = 0 -> Plain("RET_CC")
    [] z = 1 -> IF y % 2 = 0 THEN Plain("POP_SS")
                ELSE Plain(<<"RET", "EXX", "JP_HL", "LD_SP_HL">>[(y \div 2) + 1])
    [] z = 2 -> Plain("JP_CC_NN")
    [] z = 3 -> Plain(<<"JP_NN", "CB_PREFIX", "OUT_N_A", "IN_A_N",
                        "EX_INDIRECT_SP_HL", "EX_DE_HL", "DI", "EI">>[y + 1])
    [] z = 4 -> Plain("CALL_CC_NN")
    [] z = 5 -> IF y % 2 = 0 THEN Plain("PUSH_SS")
                ELSE Plain(<<"CALL_NN", "DD_PREFIX", "ED_PREFIX", "FD_PREFIX">>[(y \div 2) + 1])
    [] z = 6 -> I(ALU_OPS[y + 1], "N")
    [] z = 7 -> Plain("RST_P")

INSTRUCTION_TABLE ==
  [opcode \in 0 .. 255 |->
     CASE opcode < 64    -> FirstQuarter(Y(opcode), Z(opcode))
       [] opcode < 128   -> SecondQuarter(Y(opcode), Z(opcode))
       [] opcode < 192   -> ThirdQuarter(Y(opcode), Z(opcode))
       [] OTHER          -> LastQuarter(Y(opcode), Z(opcode))]

\* CB_INSTRUCTION_TABLE: shifts, then BIT, RES and SET of bit Y.
CB_INSTRUCTION_TABLE ==
  [opcode \in 0 .. 255 |->
     I(IF opcode < 64 THEN SHIFT_OPS[Y(opcode) + 1]
       ELSE <<"BIT_B", "RES_B", "SET_B">>[opcode \div 64], Form(Z(opcode)))]

\* ED_INSTRUCTION_TABLE[0x40 .. 0x7F].
EdSecondQuarter(y, z) ==
  CASE z = 0 -> Plain("IN_R_C")
    [] z = 1 -> Plain("OUT_C_R")
    [] z = 2 -> Plain(IF y % 2 = 0 THEN "SBC_HL_RR" ELSE "ADC_HL_RR")
    [] z = 3 -> I("LD_RR", IF y % 2 = 0 THEN "TO_INDIRECT_NN" ELSE "INDIRECT_NN")
    [] z = 4 -> Plain("NEG")
    [] z = 5 -> Plain("RETI_RETN")
    [] z = 6 -> Plain("IM_N")
    [] z = 7 -> Plain(<<"LD_I_A_LD_R_A", "LD_I_A_LD_R_A", "LD_A_I_LD_A_R", "LD_A_I_LD_A_R",
                        "RLD_RRD", "RLD_RRD", "ED_UNDEFINED", "ED_UNDEFINED">>[y + 1])

\* ED_INSTRUCTION_TABLE[0xA0 .. 0xBF]: the block instructions.
EdBlock(y, z) ==
  IF y < 6 THEN Plain(<<"LDI_LDD", "CPI_CPD", "INI_IND", "OUTI_OUTD">>[z + 1])
           ELSE Plain(<<"LDIR_LDDR", "CPIR_CPDR", "INIR_INDR", "OTIR_OTDR">>[z + 1])

ED_INSTRUCTION_TABLE ==
  [opcode \in 0 .. 255 |->
     CASE opcode \in 64 .. 127                     -> EdSecondQuarter(Y(opcode), Z(opcode))
       [] opcode \in 160 .. 191 /\ Z(opcode) < 4   -> EdBlock(Y(opcode), Z(opcode))
       [] OTHER                                    -> Plain("ED_UNDEFINED")]

\* Encodings told apart inside one instruction number (instructions.h:15-34).
OPCODE_LD_A_I == 87
OPCODE_LD_I_A == 71
OPCODE_RLD    == 111
Upwards(opcode) == Y(opcode) % 2 = 0   \* LDI, LDIR, CPI, CPIR: A0, B0, A1, B1

-----------------------------------------------------------------------------
(* The register decoding tables: p names the register that prefixed       *)
(* opcodes put in the place of HL ("HL", "IX" or "IY").                    *)

register_table(p) ==
  CASE p = "HL" -> <<"B", "C", "D", "E", "H", "L", "HL", "A">>
    [] p = "IX" -> <<"B", "C", "D", "E", "IXH", "IXL", "IX", "A">>
    [] p = "IY" -> <<"B", "C", "D", "E", "IYH", "IYL", "IY", "A">>

R(p, code)  == register_table(p)[code + 1]
RR(p, code) == <<"BC", "DE", p, "SP">>[code + 1]
SS(p, code) == <<"BC", "DE", p, "AF">>[code + 1]

\* RST_TABLE
RST_TABLE == [y \in 0 .. 7 |-> 8 * y]
=============================================================================

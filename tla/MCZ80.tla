-------------------------------- MODULE MCZ80 --------------------------------
(***************************************************************************)
(* Programs for the Z80 emulator: memories of 64 bytes that repeat over    *)
(* the address space, so that the interrupt handler at 38h is at 56 and    *)
(* the one at 66h at 38.                                                   *)
(***************************************************************************)
EXTENDS Z80Emu

Memory(at) == [a \in 0 .. 63 |-> IF a \in DOMAIN at THEN at[a] ELSE 0]
Code(first, bytes) == [a \in first .. (first + Len(bytes) - 1) |-> bytes[a - first + 1]]

\* A processor in the middle of a program: SP at 32, pointers into the memory.
Running(code) ==
  [Reset(Memory(code)) EXCEPT !.SP = 32, !.F = {"C"},
     !.reg = [A |-> 146, B |-> 0, C |-> 3, D |-> 0, E |-> 40, H |-> 0, L |-> 44,
              IXH |-> 0, IXL |-> 46, IYH |-> 0, IYL |-> 48]]

Late(s) == [s EXCEPT !.cycles = MaxCycles - 1]   \* the host makes one call only

Start(s, calls_) == [cpu |-> s, calls |-> calls_]

-----------------------------------------------------------------------------
(* Every opcode behind every prefix.                                       *)

Prefixes == {<<>>, <<203>>, <<237>>, <<221>>, <<253>>, <<221, 203, 1>>, <<253, 221, 237>>}

\* DI and EI behind an index prefix are left out: the code departs there from what
\* it promises (the prefix has used up the 4 cycles the budget is raised by).
\* Behind DD CB only the memory forms move pc over the displacement and the
\* opcode, in the code and in Z80Exec alike.
Covered(prefix, opcode) ==
  /\ prefix \in {<<221>>, <<253>>} => opcode \notin {203, 221, 237, 243, 251, 253}
  /\ prefix = <<>> => opcode \notin {203, 221, 237, 253}

OpcodeStarts ==
  {Start([Late(Running(Code(4, pair[1] \o <<pair[2], 5, 1>>))) EXCEPT !.pc = 4, !.im = 1], {EMULATE(1)}) :
     pair \in {q \in Prefixes \X Byte : Covered(q[1], q[2])}}

-----------------------------------------------------------------------------
(* Arithmetic at the boundaries, and decimal arithmetic.                   *)

Boundary == {0, 1, 15, 16, 127, 128, 143, 240, 254, 255}

Operands(code, a, b, c) ==
  [Late(Running(Code(0, code))) EXCEPT !.reg["A"] = a, !.reg["B"] = b, !.reg["C"] = 255 - b,
     !.reg["H"] = a, !.reg["L"] = b, !.F = On(c, "C")]

\* ADD, ADC, SUB, SBC, CP A, B; INC B; DEC B; NEG; ADC HL, BC; SBC HL, BC
SumCodes == {<<128>>, <<136>>, <<144>>, <<152>>, <<184>>, <<4>>, <<5>>, <<237, 68>>, <<237, 74>>, <<237, 66>>}

SumStarts ==
  {Start(Operands(code, a, b, c), {EMULATE(1)}) :
     code \in SumCodes, a \in Boundary, b \in Boundary, c \in {0, 1}}

BCD == {16 * t + u : t \in {0, 4, 5, 9}, u \in {0, 4, 5, 9}}

DecimalStarts ==
  {Start(Operands(<<op, 39>>, a, b, c), {EMULATE(8)}) :
     op \in {128, 136, 144, 152}, a \in BCD, b \in BCD, c \in {0, 1}}

-----------------------------------------------------------------------------
(* Block instructions cut into slices and interrupted; the handler at 38h   *)
(* is PUSH AF, XOR A, POP AF, EI, RETI, the one at 66h RETN.                *)

Handlers == Code(56, <<245, 175, 241, 251, 237, 77>>) @@ Code(38, <<237, 69>>)

BlockStarts ==
  {Start([Running(Handlers @@ Code(0, <<251, 237, op, 118>>) @@ Code(44, <<7, 146, 9>>))
            EXCEPT !.im = im],
         host) :
     op \in {176, 177, 184, 185}, im \in {0, 1},
     host \in {{EMULATE(1), INTERRUPT(255)}, {EMULATE(30), EMULATE(60), INTERRUPT(255)},
               {EMULATE(30), NMI}}}

\* EI, DI, EI, EI, NOP, HALT with an interrupt wherever the host gets control.
ShadowStarts ==
  {Start([Running(Handlers @@ Code(0, <<251, 243, 251, 251, 0, 118>>)) EXCEPT !.im = im],
         {EMULATE(n), INTERRUPT(255)}) : im \in {0, 1}, n \in {1, 4, 9}}

\* CALL of a subroutine that pushes, calls and pops, and of one that never returns.
SubroutineStarts ==
  {Start(Running(Code(0, <<0, 60>>) @@ Code(8, <<197, 205, 16, 0, 193, 201>>) @@ Code(16, <<60, 201>>)),
         {SUBROUTINE(8), EMULATE(1)}),
   Start(Running(Code(0, <<24, 254>>)), {SUBROUTINE(0)})}

MCStarts ==
  OpcodeStarts \cup SumStarts \cup DecimalStarts \cup BlockStarts \cup ShadowStarts
    \cup SubroutineStarts
=============================================================================

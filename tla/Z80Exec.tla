------------------------------- MODULE Z80Exec -------------------------------
(***************************************************************************)
(* What each instruction of the Z80 emulator (the switch in emulate(),     *)
(* z80emu.c) does to the processor and its memory, as operators on a       *)
(* processor record s: the group operators take the state after the opcode *)
(* has been read (pc behind it, its 4 cycles and its refresh counted), p   *)
(* the index register that stands for HL, the opcode and its instruction,  *)
(* and return the state after the instruction.                             *)
(*                                                                         *)
(* The record s:                                                           *)
(*   reg  the byte registers          F    the set of flags that are 1     *)
(*   SP, pc   words                   alt  AF', BC', DE', HL' as words     *)
(*   i, r, iff1, iff2, im             the interrupt and refresh registers  *)
(*   cycles   cycles_emulated         ram  the memory                      *)
(*                                                                         *)
(* The memory behind Z80_ReadByte and Z80_WriteByte is here a RAM of       *)
(* MemSize bytes that repeats over the 64 KB (the bus of the VM is         *)
(* modelled in TvFrame).                                                   *)
(***************************************************************************)
EXTENDS Z80Alu, Z80Decode

CONSTANT MemSize

ASSUME MemSizeAssumption == MemSize \in 1 .. AddressSpace /\ AddressSpace % MemSize = 0

ByteRegister == {"A", "B", "C", "D", "E", "H", "L", "IXH", "IXL", "IYH", "IYL"}
HighOf == [BC |-> "B", DE |-> "D", HL |-> "H", IX |-> "IXH", IY |-> "IYH"]
LowOf  == [BC |-> "C", DE |-> "E", HL |-> "L", IX |-> "IXL", IY |-> "IYL"]

Cpu == [reg : [ByteRegister -> Byte], F : SUBSET Flag, SP : Word, pc : Word,
        alt : [{"AF", "BC", "DE", "HL"} -> Word], i : Byte, r : Byte,
        iff1 : {0, 1}, iff2 : {0, 1}, im : 0 .. 2, cycles : Nat, ram : [0 .. MemSize - 1 -> Byte]]

-----------------------------------------------------------------------------
(* Registers, memory and the operands in the code.                         *)

GetW(s, w) ==
  CASE w = "SP" -> s.SP
    [] w = "AF" -> 256 * s.reg["A"] + FByte(s.F)
    [] OTHER    -> 256 * s.reg[HighOf[w]] + s.reg[LowOf[w]]

SetW(s, w, v) ==
  LET x == v % 65536 IN
  CASE w = "SP" -> [s EXCEPT !.SP = x]
    [] w = "AF" -> [s EXCEPT !.reg["A"] = x \div 256, !.F = FlagsIn[x % 256]]
    [] OTHER    -> [s EXCEPT !.reg[HighOf[w]] = x \div 256, !.reg[LowOf[w]] = x % 256]

SetR(s, name, v)  == [s EXCEPT !.reg[name] = v]
SetVF(s, name, u) == [s EXCEPT !.reg[name] = u.v, !.F = u.f]
Cycles(s, n)      == [s EXCEPT !.cycles = @ + n]
Jump(s, target)   == [s EXCEPT !.pc = target % 65536]

ReadByte(s, a)     == s.ram[a % MemSize]
ReadWord(s, a)     == ReadByte(s, a) + 256 * ReadByte(s, a + 1)
WriteByte(s, a, v) == [s EXCEPT !.ram[a % MemSize] = v % 256]
WriteWord(s, a, v) == WriteByte(WriteByte(s, a, v), a + 1, v \div 256)

\* READ_N, READ_NN: the constant behind the opcode, and the state past it.
N(s)         == ReadByte(s, s.pc)
NN(s)        == ReadWord(s, s.pc)
PastN(s)     == Cycles(Jump(s, s.pc + 1), 3)
PastNN(s)    == Cycles(Jump(s, s.pc + 2), 6)

\* READ_BYTE, WRITE_BYTE, WRITE_WORD with their cycles.
Load(s, name, a)   == Cycles(SetR(s, name, ReadByte(s, a)), 3)
Store(s, a, v)     == Cycles(WriteByte(s, a, v), 3)
LoadW(s, w, a)     == Cycles(SetW(s, w, ReadWord(s, a)), 6)
StoreW(s, a, v)    == Cycles(WriteWord(s, a, v), 6)

\* The (HL) operand: HL itself, or the index register plus a displacement
\* that is read behind the opcode (READ_D and 5 cycles).
Address(s, p)    == IF p = "HL" THEN GetW(s, "HL") ELSE GetW(s, p) + Signed(N(s))
PastAddress(s, p) == IF p = "HL" THEN s ELSE Cycles(PastN(s), 5)

PUSH(s, v) == StoreW(SetW(s, "SP", s.SP - 2), s.SP - 2, v)
Popped(s)  == SetW(Cycles(s, 6), "SP", s.SP + 2)
POP(s, w)  == SetW(Popped(s), w, ReadWord(s, s.SP))
POP_PC(s)  == Jump(Popped(s), ReadWord(s, s.SP))

Refreshed(s) == [s EXCEPT !.r = 128 * (@ \div 128) + ((@ + 1) % 128)]

-----------------------------------------------------------------------------
(* 8-bit load group.                                                       *)

LOAD8 == {"LD_R", "LD_N", "LD_INDIRECT_HL", "LD_A", "LD_A_I_LD_A_R", "LD_I_A_LD_R_A"}

LD_A(s, form) ==
  CASE form = "BC"    -> Load(s, "A", GetW(s, "BC"))
    [] form = "DE"    -> Load(s, "A", GetW(s, "DE"))
    [] form = "NN"    -> Load(PastNN(s), "A", NN(s))
    [] form = "TO_BC" -> Store(s, GetW(s, "BC"), s.reg["A"])
    [] form = "TO_DE" -> Store(s, GetW(s, "DE"), s.reg["A"])
    [] form = "TO_NN" -> Store(PastNN(s), NN(s), s.reg["A"])

\* LD A, I and LD A, R: the parity flag shows IFF2.
LD_A_SPECIAL(s, a) ==
  Cycles([s EXCEPT !.reg["A"] = a,
                   !.F = SZYX_FLAGS_TABLE[a] \cup On(s.iff2, "PV") \cup (s.F \cap {"C"})], 1)

Load8(s, p, opcode, ins) ==
  CASE ins = I("LD_R", "R")  -> SetR(s, R(p, Y(opcode)), s.reg[R(p, Z(opcode))])
    [] ins = I("LD_N", "R")  -> SetR(PastN(s), R(p, Y(opcode)), N(s))
    \* H and L stay H and L next to an indexed operand: S()
    [] ins = I("LD_R", "INDIRECT_HL") ->
         Load(PastAddress(s, p), R("HL", Y(opcode)), Address(s, p))
    [] ins = I("LD_INDIRECT_HL", "R") ->
         Store(PastAddress(s, p), Address(s, p), s.reg[R("HL", Z(opcode))])
    [] ins = I("LD_N", "INDIRECT_HL") ->
         IF p = "HL" THEN Store(PastN(s), Address(s, p), N(s))
         ELSE Cycles(Store(PastN(PastN(s)), Address(s, p), N(PastN(s))), 2)
    [] ins.op = "LD_A" -> LD_A(s, ins.form)
    [] ins.op = "LD_A_I_LD_A_R" ->
         LD_A_SPECIAL(s, IF opcode = OPCODE_LD_A_I THEN s.i ELSE s.r)
    [] ins.op = "LD_I_A_LD_R_A" ->
         Cycles(IF opcode = OPCODE_LD_I_A THEN [s EXCEPT !.i = s.reg["A"]]
                                          ELSE [s EXCEPT !.r = s.reg["A"]], 1)

-----------------------------------------------------------------------------
(* 16-bit load group and exchanges.                                        *)

LOAD16 == {"LD_RR", "LD_HL", "LD_SP_HL", "PUSH_SS", "POP_SS"}

Load16(s, p, opcode, ins) ==
  LET rr == RR(p, P(opcode)) ss == SS(p, P(opcode)) IN
  CASE ins = I("LD_RR", "NN")             -> SetW(PastNN(s), rr, NN(s))
    [] ins = I("LD_RR", "INDIRECT_NN")    -> LoadW(PastNN(s), rr, NN(s))
    [] ins = I("LD_RR", "TO_INDIRECT_NN") -> StoreW(PastNN(s), NN(s), GetW(s, rr))
    [] ins = I("LD_HL", "NN")             -> LoadW(PastNN(s), p, NN(s))
    [] ins = I("LD_HL", "TO_NN")          -> StoreW(PastNN(s), NN(s), GetW(s, p))
    [] ins.op = "LD_SP_HL"                -> Cycles(SetW(s, "SP", GetW(s, p)), 2)
    [] ins.op = "PUSH_SS"                 -> Cycles(PUSH(s, GetW(s, ss)), 1)
    [] ins.op = "POP_SS"                  -> POP(s, ss)

EXCHANGE == {"EX_DE_HL", "EX_AF_AF_PRIME", "EXX", "EX_INDIRECT_SP_HL"}

SwapAlternate(s, w) == SetW([s EXCEPT !.alt[w] = GetW(s, w)], w, s.alt[w])

Exchange(s, p, opcode, ins) ==
  CASE ins.op = "EX_DE_HL"       -> SetW(SetW(s, "DE", GetW(s, "HL")), "HL", GetW(s, "DE"))
    [] ins.op = "EX_AF_AF_PRIME" -> SwapAlternate(s, "AF")
    [] ins.op = "EXX"            -> SwapAlternate(SwapAlternate(SwapAlternate(s, "BC"), "DE"), "HL")
    [] ins.op = "EX_INDIRECT_SP_HL" ->
         Cycles(SetW(StoreW(s, s.SP, GetW(s, p)), p, ReadWord(s, s.SP)), 6 + 3)

-----------------------------------------------------------------------------
(* Block transfer and search, one element (LDI, LDD, CPI, CPD).            *)

BLOCK_ONCE == {"LDI_LDD", "CPI_CPD"}

Towards(opcode) == IF Upwards(opcode) THEN 1 ELSE -1

BlockOnce(s, p, opcode, ins) ==
  LET n  == ReadByte(s, GetW(s, "HL"))
      bc == (GetW(s, "BC") - 1) % 65536
      t  == SetW(SetW(s, "BC", bc), "HL", GetW(s, "HL") + Towards(opcode))
  IN  CASE ins.op = "LDI_LDD" ->
             Cycles([WriteByte(SetW(t, "DE", GetW(s, "DE") + Towards(opcode)), GetW(s, "DE"), n)
                       EXCEPT !.F = CopyFlags(n, s.reg["A"], bc, s.F)], 3 + 3 + 2)
        [] ins.op = "CPI_CPD" ->
             Cycles([t EXCEPT !.F = SearchFlags(n, s.reg["A"], bc, s.F)], 3 + 5)

-----------------------------------------------------------------------------
(* 8-bit arithmetic, and what a register, a constant or a memory operand   *)
(* costs.                                                                  *)

ARITH8 == {ALU_OPS[k] : k \in 1 .. 8}

Arith8(s, p, opcode, ins) ==
  LET on(t, x) == SetVF(t, "A", Accumulate(ins.op, s.reg["A"], x, s.F)) IN
  CASE ins.form = "R"           -> on(s, s.reg[R(p, Z(opcode))])
    [] ins.form = "N"           -> on(PastN(s), N(s))
    [] ins.form = "INDIRECT_HL" -> on(Cycles(PastAddress(s, p), 3), ReadByte(s, Address(s, p)))

INC_DEC == {"INC", "DEC"}

IncDec(s, p, opcode, ins) ==
  LET step(x) == IF ins.op = "INC" THEN INC(x, s.F) ELSE DEC(x, s.F) IN
  CASE ins.form = "R" -> SetVF(s, R(p, Y(opcode)), step(s.reg[R(p, Y(opcode))]))
    [] ins.form = "INDIRECT_HL" ->
         LET u == step(ReadByte(s, Address(s, p)))
         IN  Cycles([WriteByte(PastAddress(s, p), Address(s, p), u.v) EXCEPT !.F = u.f], 3 + 3 + 1)

\* DAA, CPL, NEG, CCF, SCF and the rotates of the accumulator.
ACCUMULATOR == {"DAA", "CPL", "NEG", "CCF", "SCF", "RLCA", "RLA", "RRCA", "RRA"}

OnAccumulator(s, p, opcode, ins) == SetVF(s, "A", Accumulator(ins.op, s.reg["A"], s.F))

ARITH16 == {"ADD_HL_RR", "ADC_HL_RR", "SBC_HL_RR", "INC_RR", "DEC_RR"}

Arith16(s, p, opcode, ins) ==
  LET rr      == RR(p, P(opcode))
      y       == GetW(s, rr)
      to(w, u) == Cycles([SetW(s, w, u.v) EXCEPT !.F = u.f], 7)
  IN  CASE ins.op = "ADD_HL_RR" -> to(p, ADD_HL(GetW(s, p), y, s.F))
        [] ins.op = "ADC_HL_RR" -> to("HL", ADC_HL(GetW(s, "HL"), y, s.F))
        [] ins.op = "SBC_HL_RR" -> to("HL", SBC_HL(GetW(s, "HL"), y, s.F))
        [] ins.op = "INC_RR"    -> Cycles(SetW(s, rr, y + 1), 2)
        [] ins.op = "DEC_RR"    -> Cycles(SetW(s, rr, y - 1), 2)

-----------------------------------------------------------------------------
(* CB-prefixed group.  With an index register the displacement stands in   *)
(* front of the opcode, which has been read at pc + 1; only the memory     *)
(* forms step over the two bytes.                                          *)

SHIFTS == {SHIFT_OPS[k] : k \in 1 .. 8}
BITS   == {"BIT_B", "RES_B", "SET_B"}

PastIndexedCb(s, p) == IF p = "HL" THEN Cycles(s, 1) ELSE Cycles(Jump(s, s.pc + 2), 5)

\* The result goes to memory and, after an index prefix, to a register too
\* unless the operand code is 6.
StoreCb(s, p, opcode, u) ==
  LET t == [WriteByte(PastIndexedCb(s, p), Address(s, p), u.v) EXCEPT !.F = u.f]
  IN  Cycles(IF p # "HL" /\ Z(opcode) # INDIRECT_HL THEN SetR(t, R(p, Z(opcode)), u.v) ELSE t, 3 + 3)

ShiftOne(s, p, opcode, ins) ==
  CASE ins.form = "R" -> SetVF(s, R(p, Z(opcode)), Shift(ins.op, s.reg[R(p, Z(opcode))], s.F))
    [] ins.form = "INDIRECT_HL" ->
         StoreCb(s, p, opcode, Shift(ins.op, ReadByte(s, Address(s, p)), s.F))

WithBit(op, b, x) == ByteOf[IF op = "SET_B" THEN BitsOf[x] \cup {b} ELSE BitsOf[x] \ {b}]

OneBit(s, p, opcode, ins) ==
  LET b    == Y(opcode)
      name == R(p, Z(opcode))
      x    == IF ins.form = "R" THEN s.reg[name] ELSE ReadByte(s, Address(s, p))
  IN  CASE ins = I("BIT_B", "R") -> [s EXCEPT !.F = TestBit(b, x, x, s.F)]
        \* BIT b, (HL) takes Y and X from the low byte of the address
        [] ins = I("BIT_B", "INDIRECT_HL") ->
             Cycles([PastIndexedCb(s, p) EXCEPT !.F = TestBit(b, x, Address(s, p) % 256, s.F)], 3)
        [] ins.op # "BIT_B" /\ ins.form = "R" -> SetR(s, name, WithBit(ins.op, b, x))
        [] OTHER -> StoreCb(s, p, opcode, [v |-> WithBit(ins.op, b, x), f |-> s.F])

\* RLD and RRD rotate the four-bit digits of A and (HL).
RotateDigit(s, p, opcode, ins) ==
  LET x   == ReadByte(s, GetW(s, "HL"))
      a   == s.reg["A"]
      low == IF opcode = OPCODE_RLD THEN x \div 16 ELSE x % 16
      v   == 16 * (a \div 16) + low
      m   == IF opcode = OPCODE_RLD THEN 16 * (x % 16) + (a % 16) ELSE 16 * (a % 16) + (x \div 16)
  IN  Cycles([WriteByte(s, GetW(s, "HL"), m)
                EXCEPT !.reg["A"] = v, !.F = SZYXP_FLAGS_TABLE[v] \cup (s.F \cap {"C"})], 3 + 3 + 4)

-----------------------------------------------------------------------------
(* Jump, call and return groups.                                           *)

JUMP == {"JP_NN", "JP_CC_NN", "JR_E", "JR_DD_E", "JP_HL", "DJNZ_E"}

Relative(s) == Jump(s, s.pc + Signed(N(s)) + 1)

JumpGroup(s, p, opcode, ins) ==
  CASE ins.op = "JP_NN" \/ (ins.op = "JP_CC_NN" /\ CC(Y(opcode), s.F)) -> Cycles(Jump(s, NN(s)), 6)
    [] ins.op = "JP_CC_NN" /\ ~CC(Y(opcode), s.F) -> Cycles(Jump(s, s.pc + 2), 6)
    [] ins.op = "JR_E" \/ (ins.op = "JR_DD_E" /\ CC(Q(opcode), s.F))     -> Cycles(Relative(s), 8)
    [] ins.op = "JR_DD_E" /\ ~CC(Q(opcode), s.F)  -> Cycles(Jump(s, s.pc + 1), 3)
    [] ins.op = "JP_HL"                           -> Jump(s, GetW(s, p))
    [] ins.op = "DJNZ_E" ->
         LET t == SetR(s, "B", (s.reg["B"] - 1) % 256)
         IN  IF t.reg["B"] # 0 THEN Cycles(Relative(t), 9) ELSE Cycles(Jump(t, t.pc + 1), 4)

CALL_RETURN == {"CALL_NN", "CALL_CC_NN", "RET", "RET_CC", "RETI_RETN", "RST_P"}

Call(s) == Cycles(Jump(PUSH(PastNN(s), s.pc + 2), NN(s)), 1)

CallReturn(s, p, opcode, ins) ==
  CASE ins.op = "CALL_NN" \/ (ins.op = "CALL_CC_NN" /\ CC(Y(opcode), s.F)) -> Call(s)
    [] ins.op = "CALL_CC_NN" /\ ~CC(Y(opcode), s.F) -> PastNN(s)
    [] ins.op = "RET"       -> POP_PC(s)
    [] ins.op = "RET_CC"    -> Cycles(IF CC(Y(opcode), s.F) THEN POP_PC(s) ELSE s, 1)
    [] ins.op = "RETI_RETN" -> POP_PC([s EXCEPT !.iff1 = s.iff2])
    [] ins.op = "RST_P"     -> Cycles(Jump(PUSH(s, s.pc), RST_TABLE[Y(opcode)]), 1)

-----------------------------------------------------------------------------
(* CPU control: what DI, EI and IM do to the processor.  IM 0/1 counts as  *)
(* IM 0.                                                                   *)

NOTHING    == {"NOP", "ED_UNDEFINED"}
PORTS      == {"IN_A_N", "IN_R_C", "INI_IND", "INIR_INDR", "OUT_N_A", "OUT_C_R", "OUTI_OUTD", "OTIR_OTDR"}
INTERRUPTS == {"DI", "EI"}

SetInterrupts(s, ins) ==
  LET on == IF ins.op = "EI" THEN 1 ELSE 0 IN [s EXCEPT !.iff1 = on, !.iff2 = on]

SetMode(s, opcode) ==
  [s EXCEPT !.im = IF Y(opcode) % 4 <= 1 THEN 0 ELSE IF Y(opcode) % 2 = 0 THEN 1 ELSE 2]

\* Every instruction that runs to its end in one go, repeats and stops nothing.
Execute(s, p, opcode, ins) ==
  CASE ins.op \in LOAD8       -> Load8(s, p, opcode, ins)
    [] ins.op \in LOAD16      -> Load16(s, p, opcode, ins)
    [] ins.op \in EXCHANGE    -> Exchange(s, p, opcode, ins)
    [] ins.op \in BLOCK_ONCE  -> BlockOnce(s, p, opcode, ins)
    [] ins.op \in ARITH8      -> Arith8(s, p, opcode, ins)
    [] ins.op \in INC_DEC     -> IncDec(s, p, opcode, ins)
    [] ins.op \in ACCUMULATOR -> OnAccumulator(s, p, opcode, ins)
    [] ins.op \in ARITH16     -> Arith16(s, p, opcode, ins)
    [] ins.op \in SHIFTS      -> ShiftOne(s, p, opcode, ins)
    [] ins.op \in BITS        -> OneBit(s, p, opcode, ins)
    [] ins.op = "RLD_RRD"     -> RotateDigit(s, p, opcode, ins)
    [] ins.op \in JUMP        -> JumpGroup(s, p, opcode, ins)
    [] ins.op \in CALL_RETURN -> CallReturn(s, p, opcode, ins)
    [] ins.op \in INTERRUPTS  -> SetInterrupts(s, ins)
    [] ins.op = "IM_N"        -> SetMode(s, opcode)
    [] ins.op \in NOTHING     -> s
=============================================================================

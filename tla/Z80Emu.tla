------------------------------- MODULE Z80Emu -------------------------------
(***************************************************************************)
(* The Z80 emulator z80emu.c as its host program drives it: Z80Emulate,    *)
(* Z80Interrupt, Z80NonMaskableInterrupt and Z80VM_EmulateSubroutine       *)
(* (z80vm.c).  A call of Z80Emulate runs instructions until a number of    *)
(* cycles has passed and returns to the host, possibly in the middle of a  *)
(* repeating block instruction.                                            *)
(*                                                                         *)
(* One action per group of instructions, in the order of instructions.h;   *)
(* reading an opcode, a prefix and each turn of a block loop are actions   *)
(* of their own.                                                           *)
(***************************************************************************)
EXTENDS Z80Exec, TLC

CONSTANTS
  Starts,             \* the processors, with a program in memory, and the calls of their host
  MaxCycles,          \* bound: the host makes no call after so many cycles
  SubroutineCycles    \* maxCycles of Z80VM_EmulateSubroutine

\* What a host may call: budgets are positive (SlicesArePositive of Visualizer), the
\* opcode an interrupt puts on the bus is a byte.
HostCalls ==
  [name : {"Z80Emulate"}, arg : Nat \ {0}] \cup [name : {"Z80Interrupt"}, arg : Byte]
    \cup [name : {"Z80NonMaskableInterrupt", "Z80VM_EmulateSubroutine"}, arg : Nat]

ASSUME StartsAssumption == \A s \in Starts : s.cpu \in Cpu /\ s.calls \subseteq HostCalls

VARIABLES
  cpu,     \* Z80_STATE and the memory
  phase,   \* where emulate() is: "host" (not called), "opcode", "execute", "copy", "search",
           \* or where it has aborted the program: "aborted" (ports), "gave_up" (a subroutine)
  call,    \* start_cycles and number_cycles of the running call
  cur,     \* registers, opcode and instruction
  blk,     \* the locals bc, de, hl, n of the block loops, and how often they went round
  sub,     \* subroutine_sp, the cycles so far and the caller's pc and SP, or NoSub
  begun,   \* where the current instruction began: pc, r, cycles and the opcode taken from the bus
  last,    \* the operation executed last
  calls    \* the calls this host makes

vars == <<cpu, phase, call, cur, blk, sub, begun, last, calls>>

NoOpcode == -1
NoSub    == [sp |-> -1, cycles |-> 0, pc |-> 0]
NoBlock  == [bc |-> 0, de |-> 0, hl |-> 0, n |-> 0, turns |-> 0]
Idle     == [p |-> "HL", opcode |-> 0, ins |-> Plain("NOP")]

EMULATE(n)      == [name |-> "Z80Emulate", arg |-> n]
INTERRUPT(data) == [name |-> "Z80Interrupt", arg |-> data]
NMI             == [name |-> "Z80NonMaskableInterrupt", arg |-> 0]
SUBROUTINE(pc)  == [name |-> "Z80VM_EmulateSubroutine", arg |-> pc]

\* Z80Reset, with the memory the host has loaded; what calloc has cleared
\* stays 0.
Reset(ram) ==
  [reg |-> [name \in ByteRegister |-> IF name = "A" THEN 255 ELSE 0], F |-> Flag, SP |-> 65535,
   pc |-> 0, alt |-> [w \in {"AF", "BC", "DE", "HL"} |-> 0], i |-> 0, r |-> 0, iff1 |-> 0,
   iff2 |-> 0, im |-> 0, cycles |-> 0, ram |-> ram]

Init ==
  /\ \E s \in Starts : cpu = s.cpu /\ calls = s.calls
  /\ phase = "host"
  /\ call = [start |-> 0, budget |-> 0]
  /\ cur = Idle
  /\ blk = NoBlock
  /\ sub = NoSub
  /\ begun = [pc |-> 0, r |-> 0, cycles |-> 0, bus |-> NoOpcode]
  /\ last = "NOP"

-----------------------------------------------------------------------------
(* The host's calls.                                                       *)

MayCall(c) == phase = "host" /\ c \in calls /\ cpu.cycles < MaxCycles /\ sub = NoSub

StartCall(n) ==
  /\ phase' = "opcode"
  /\ call' = [start |-> cpu.cycles, budget |-> n]

Z80Emulate(n) ==
  /\ MayCall(EMULATE(n))
  /\ StartCall(n)
  /\ UNCHANGED <<cpu, cur, blk, sub, begun, last, calls>>

\* start_emulation: 4 cycles and a refresh for each byte of an opcode.
Counted(s) == Refreshed(Cycles(s, 4))

\* Mode 0: emulate() is entered with the opcode on the bus and a budget of 4.
InterruptMode0(data) ==
  LET s == Refreshed([cpu EXCEPT !.iff1 = 0, !.iff2 = 0]) IN
  /\ cpu.im = 0
  /\ cpu' = Counted(s)
  /\ cur' = [p |-> "HL", opcode |-> data, ins |-> INSTRUCTION_TABLE[data]]
  /\ begun' = [pc |-> s.pc, r |-> s.r, cycles |-> s.cycles, bus |-> data]
  /\ call' = [start |-> cpu.cycles, budget |-> 4]
  /\ phase' = "execute"

\* The push of pc in an interrupt costs no cycles of its own.
Pushed(s) == WriteWord(SetW(s, "SP", s.SP - 2), s.SP - 2, s.pc)

InterruptMode1 ==
  /\ cpu.im = 1
  /\ cpu' = Cycles(Jump(Pushed(Refreshed([cpu EXCEPT !.iff1 = 0, !.iff2 = 0])), 56), 13)
  /\ UNCHANGED <<cur, begun, call, phase>>

\* Mode 2 reads a word at pc into the vector and leaves pc where it was (Z80.tla's
\* Interrupt, as the manual has it, jumps to the address in I's table).
InterruptMode2(data) ==
  /\ cpu.im = 2
  /\ cpu' = Cycles(Pushed(Refreshed([cpu EXCEPT !.iff1 = 0, !.iff2 = 0])), 19)
  /\ UNCHANGED <<cur, begun, call, phase>>

Z80Interrupt(data) ==
  /\ MayCall(INTERRUPT(data))
  /\ cpu.iff1 = 1
  /\ InterruptMode0(data) \/ InterruptMode1 \/ InterruptMode2(data)
  /\ last' = "NOP"
  /\ UNCHANGED <<blk, sub, calls>>

Z80NonMaskableInterrupt ==
  /\ MayCall(NMI)
  /\ cpu' = Cycles(Jump(Pushed(Refreshed([cpu EXCEPT !.iff2 = cpu.iff1, !.iff1 = 0])), 102), 11)
  /\ last' = "NOP"
  /\ UNCHANGED <<phase, call, cur, blk, sub, begun, calls>>

\* Z80VM_EmulateSubroutine: the return address is pushed, then one
\* instruction is emulated at a time until the stack is above it.
EnterSubroutine(target) ==
  /\ MayCall(SUBROUTINE(target))
  /\ cpu' = Jump(Pushed(cpu), target)
  /\ sub' = [sp |-> (cpu.SP - 2) % 65536, cycles |-> cpu.cycles, pc |-> cpu.pc]
  /\ UNCHANGED <<phase, call, cur, blk, begun, last, calls>>

TooLong == cpu.cycles - sub.cycles > SubroutineCycles

AbortSubroutine ==
  /\ phase = "host" /\ sub # NoSub
  /\ TooLong
  /\ phase' = "gave_up"
  /\ UNCHANGED <<cpu, call, cur, blk, sub, begun, last, calls>>

StepSubroutine ==
  /\ phase = "host" /\ sub # NoSub
  /\ ~TooLong /\ cpu.SP <= sub.sp
  /\ StartCall(1)
  /\ UNCHANGED <<cpu, cur, blk, sub, begun, last, calls>>

\* (mutant) The caller's pc is looked for above the stack pointer.
LeaveSubroutineAbove ==
  /\ phase = "host" /\ sub # NoSub
  /\ ~TooLong /\ cpu.SP > sub.sp
  /\ cpu' = Jump(cpu, ReadWord(cpu, cpu.SP))
  /\ sub' = NoSub
  /\ UNCHANGED <<phase, call, cur, blk, begun, last, calls>>

LeaveSubroutine ==
  /\ phase = "host" /\ sub # NoSub
  /\ ~TooLong /\ cpu.SP > sub.sp
  /\ cpu' = Jump(cpu, ReadWord(cpu, cpu.SP - 2))
  /\ sub' = NoSub
  /\ UNCHANGED <<phase, call, cur, blk, begun, last, calls>>

-----------------------------------------------------------------------------
(* Reading opcodes.                                                        *)

FetchOpcode ==
  /\ phase = "opcode"
  /\ LET opcode == ReadByte(cpu, cpu.pc)
     IN  cur' = [p |-> "HL", opcode |-> opcode, ins |-> INSTRUCTION_TABLE[opcode]]
  /\ cpu' = Counted(Jump(cpu, cpu.pc + 1))
  /\ begun' = [pc |-> cpu.pc, r |-> cpu.r, cycles |-> cpu.cycles, bus |-> NoOpcode]
  /\ phase' = "execute"
  /\ UNCHANGED <<call, blk, sub, last, calls>>

Executing(ops) == phase = "execute" /\ cur.ins.op \in ops

ReadNextOpcode(p, Table) ==
  LET opcode == ReadByte(cpu, cpu.pc) IN
  /\ cur' = [p |-> p, opcode |-> opcode, ins |-> Table[opcode]]
  /\ cpu' = Counted(Jump(cpu, cpu.pc + 1))
  /\ UNCHANGED <<phase, call, blk, sub, begun, last, calls>>

\* DD_PREFIX and FD_PREFIX: the next byte is a whole opcode again.
IndexPrefix ==
  /\ Executing({"DD_PREFIX", "FD_PREFIX"})
  /\ ReadNextOpcode(IF cur.ins.op = "DD_PREFIX" THEN "IX" ELSE "IY", INSTRUCTION_TABLE)

EdPrefix ==
  /\ Executing({"ED_PREFIX"})
  /\ ReadNextOpcode("HL", ED_INSTRUCTION_TABLE)

CbPrefix ==
  /\ Executing({"CB_PREFIX"}) /\ cur.p = "HL"
  /\ ReadNextOpcode("HL", CB_INSTRUCTION_TABLE)

\* After an index prefix the opcode is read behind the displacement and pc
\* stays in front of it; the refresh is not counted.
IndexedCbPrefix ==
  /\ Executing({"CB_PREFIX"}) /\ cur.p # "HL"
  /\ LET opcode == ReadByte(cpu, cpu.pc + 1)
     IN  cur' = [cur EXCEPT !.opcode = opcode, !.ins = CB_INSTRUCTION_TABLE[opcode]]
  /\ cpu' = Cycles(cpu, 4)
  /\ UNCHANGED <<phase, call, blk, sub, begun, last, calls>>

-----------------------------------------------------------------------------
(* The instructions.  After each of them emulate() returns when the number *)
(* of cycles has been reached.                                             *)

Elapsed(s) == s.cycles - call.start

\* (mutant) The loop goes on when exactly number_cycles have passed.
FinishOneMore(s, budget) ==
  /\ cpu' = s
  /\ last' = cur.ins.op
  /\ call' = [call EXCEPT !.budget = budget]
  /\ phase' = IF Elapsed(s) > budget THEN "host" ELSE "opcode"
  /\ UNCHANGED <<cur, sub, begun, calls>>

Finish(s, budget) ==
  /\ cpu' = s
  /\ last' = cur.ins.op
  /\ call' = [call EXCEPT !.budget = budget]
  /\ phase' = IF Elapsed(s) >= budget THEN "host" ELSE "opcode"
  /\ UNCHANGED <<cur, sub, begun, calls>>

Do(s) == Finish(s, call.budget) /\ UNCHANGED blk

LoadGroup        == Executing(LOAD8)       /\ Do(Load8(cpu, cur.p, cur.opcode, cur.ins))
LoadWordGroup    == Executing(LOAD16)      /\ Do(Load16(cpu, cur.p, cur.opcode, cur.ins))
ExchangeGroup    == Executing(EXCHANGE)    /\ Do(Exchange(cpu, cur.p, cur.opcode, cur.ins))
BlockGroup       == Executing(BLOCK_ONCE)  /\ Do(BlockOnce(cpu, cur.p, cur.opcode, cur.ins))
ArithmeticGroup  == Executing(ARITH8)      /\ Do(Arith8(cpu, cur.p, cur.opcode, cur.ins))
IncrementGroup   == Executing(INC_DEC)     /\ Do(IncDec(cpu, cur.p, cur.opcode, cur.ins))
AccumulatorGroup == Executing(ACCUMULATOR) /\ Do(OnAccumulator(cpu, cur.p, cur.opcode, cur.ins))
WordGroup        == Executing(ARITH16)     /\ Do(Arith16(cpu, cur.p, cur.opcode, cur.ins))
ShiftGroup       == Executing(SHIFTS)      /\ Do(ShiftOne(cpu, cur.p, cur.opcode, cur.ins))
BitGroup         == Executing(BITS)        /\ Do(OneBit(cpu, cur.p, cur.opcode, cur.ins))
DigitGroup       == Executing({"RLD_RRD"}) /\ Do(RotateDigit(cpu, cur.p, cur.opcode, cur.ins))
Jumps            == Executing(JUMP)        /\ Do(JumpGroup(cpu, cur.p, cur.opcode, cur.ins))
CallsAndReturns  == Executing(CALL_RETURN) /\ Do(CallReturn(cpu, cur.p, cur.opcode, cur.ins))
ModeGroup        == Executing({"IM_N"})    /\ Do(SetMode(cpu, cur.opcode))
Nothing          == Executing(NOTHING)     /\ Do(cpu)

\* DI and EI: when the budget is used up, it is raised by 4 cycles so that one
\* more instruction is executed before the host can interrupt.
InterruptGroup ==
  /\ Executing(INTERRUPTS)
  /\ Finish(SetInterrupts(cpu, cur.ins),
            IF Elapsed(cpu) >= call.budget THEN call.budget + 4 ELSE call.budget)
  /\ UNCHANGED blk

\* (mutant) HALT waits inside emulate() for an interrupt.
HaltWaits == Executing({"HALT"}) /\ UNCHANGED vars

\* HALT uses up the budget and leaves pc behind itself: it is the next call that
\* decides whether the program waits.
Halt ==
  /\ Executing({"HALT"})
  /\ Do(IF Elapsed(cpu) < call.budget THEN [cpu EXCEPT !.cycles = call.start + call.budget] ELSE cpu)

\* Ports do not exist in this VM: Z80_InputByte and Z80_OutputByte abort.
InputOutput ==
  /\ Executing(PORTS)
  /\ phase' = "aborted"
  /\ UNCHANGED <<cpu, call, cur, blk, sub, begun, last, calls>>

-----------------------------------------------------------------------------
(* LDIR, LDDR, CPIR, CPDR: a loop over local copies of BC, DE and HL that  *)
(* ends early, with pc set back, when the budget is used up.               *)

\* r -= 2, cycles_emulated -= 8: the loop counts them again for each turn.
Uncounted(s) == [s EXCEPT !.cycles = @ - 8, !.r = 128 * (@ \div 128) + ((@ - 2) % 128)]

BeginBlock ==
  /\ Executing({"LDIR_LDDR", "CPIR_CPDR"})
  /\ cpu' = Uncounted(cpu)
  /\ blk' = [bc |-> GetW(cpu, "BC"), de |-> GetW(cpu, "DE"), hl |-> GetW(cpu, "HL"), n |-> 0, turns |-> 0]
  /\ phase' = IF cur.ins.op = "LDIR_LDDR" THEN "copy" ELSE "search"
  /\ UNCHANGED <<call, cur, sub, begun, last, calls>>

\* HL = hl; DE = de; BC = bc (16 bits of the ints).
StoredBlock(s, b) == SetW(SetW(SetW(s, "HL", b.hl), "DE", b.de), "BC", b.bc)

\* (mutant) pc is not set back when the budget ends the loop early.
TurnForgetsPc(s, b, done, f) ==
  LET t    == Refreshed(Refreshed(Cycles(s, IF done THEN 16 ELSE 21)))
      left == [StoredBlock(t, b) EXCEPT !.F = f]
  IN  IF done \/ Elapsed(t) >= call.budget
      THEN /\ Finish(left, call.budget)
           /\ blk' = NoBlock
      ELSE /\ cpu' = t
           /\ blk' = b
           /\ UNCHANGED <<phase, call, cur, sub, begun, last, calls>>

\* One turn: s after the element, b the locals, done when no more are wanted,
\* f the flags that are set on the way out.
Turn(s, b, done, f) ==
  LET t    == Refreshed(Refreshed(Cycles(s, IF done THEN 16 ELSE 21)))
      left == [StoredBlock(t, b) EXCEPT !.F = f]
  IN  IF done \/ Elapsed(t) >= call.budget
      THEN /\ Finish(IF done THEN left ELSE Jump(left, t.pc - 2), call.budget)
           /\ blk' = NoBlock
      ELSE /\ cpu' = t
           /\ blk' = b
           /\ UNCHANGED <<phase, call, cur, sub, begun, last, calls>>

CopyTurn ==
  LET n == ReadByte(cpu, blk.hl)
      b == [bc |-> blk.bc - 1, de |-> blk.de + Towards(cur.opcode), hl |-> blk.hl + Towards(cur.opcode),
            n |-> n, turns |-> blk.turns + 1]
  IN  /\ phase = "copy"
      /\ Turn(WriteByte(cpu, blk.de, n), b, b.bc = 0, CopyFlags(n, cpu.reg["A"], b.bc, cpu.F))

SearchTurn ==
  LET n == ReadByte(cpu, blk.hl)
      b == [bc |-> blk.bc - 1, de |-> blk.de, hl |-> blk.hl + Towards(cur.opcode), n |-> n,
            turns |-> blk.turns + 1]
  IN  /\ phase = "search"
      /\ Turn(cpu, b, b.bc = 0 \/ cpu.reg["A"] = n, SearchFlags(n, cpu.reg["A"], b.bc, cpu.F))

-----------------------------------------------------------------------------

Host ==
  \/ \E c \in calls : Z80Emulate(c.arg) \/ Z80Interrupt(c.arg) \/ EnterSubroutine(c.arg)
  \/ Z80NonMaskableInterrupt
  \/ StepSubroutine
  \/ LeaveSubroutine
  \/ AbortSubroutine

Emulation ==
  \/ FetchOpcode \/ IndexPrefix \/ EdPrefix \/ CbPrefix \/ IndexedCbPrefix
  \/ LoadGroup \/ LoadWordGroup \/ ExchangeGroup \/ BlockGroup
  \/ ArithmeticGroup \/ IncrementGroup \/ AccumulatorGroup \/ WordGroup
  \/ ShiftGroup \/ BitGroup \/ DigitGroup
  \/ Jumps \/ CallsAndReturns
  \/ InterruptGroup \/ ModeGroup \/ Nothing \/ Halt \/ InputOutput
  \/ BeginBlock \/ CopyTurn \/ SearchTurn

Next == Host \/ Emulation

Spec == Init /\ [][Next]_vars

\* A call of the emulator runs in the host's thread: it does not stop half-way.
\* Whether the host makes another call is its own choice.
FairSpec == Spec /\ WF_vars(Emulation \/ StepSubroutine \/ LeaveSubroutine \/ AbortSubroutine)

-----------------------------------------------------------------------------
(* What the emulator relies on and does not check: without each of these   *)
(* it is not the processor it promises to be.                              *)

\* Interrupts are of mode 0 or 1, and the opcode on the bus in mode 0 no prefix.
InterruptsKnown ==
  \A c \in calls : c.name = "Z80Interrupt" =>
    /\ phase = "host" => cpu.im # 2
    /\ INSTRUCTION_TABLE[c.arg].op \notin {"CB_PREFIX", "DD_PREFIX", "ED_PREFIX", "FD_PREFIX"}

\* The host emulates nothing behind a HALT before an interrupt has been accepted.
HaltsInterrupted == phase = "opcode" => last # "HALT"

\* DI and EI have no prefix, which would use up the cycles they are given.
ShadowsPlain == phase = "execute" /\ cur.ins.op \in INTERRUPTS => cur.p = "HL"

\* LDIR and its like do not overwrite themselves (Z80_HANDLE_SELF_MODIFYING_CODE is
\* not defined), and a slice ends before their int bc, counting down from BC = 0,
\* has gone through 16 bits: 1.3 million cycles, against some 70000 of a frame.
BlocksStay ==
  phase \in {"copy", "search"} =>
    /\ ReadByte(cpu, cpu.pc - 2) = 237 /\ ReadByte(cpu, cpu.pc - 1) = cur.opcode
    /\ blk.turns < 65535

-----------------------------------------------------------------------------
(* Properties.                                                             *)

\* The processor's registers keep their widths; emulate() never runs an
\* instruction that is not in the tables.
TypeOK ==
  /\ cpu \in Cpu
  /\ phase \in {"host", "opcode", "execute", "copy", "search", "aborted", "gave_up"}
  /\ call \in [start : Nat, budget : Int]
  /\ cur.p \in {"HL", "IX", "IY"} /\ cur.opcode \in Byte
  /\ blk.n \in Byte /\ blk.turns \in Nat
  /\ sub = NoSub \/ (sub.sp \in Word /\ sub.pc \in Word)

\* The processor that the host's calls add up to: in the middle of an instruction
\* it stands before it, in a block loop behind the last element.
Before(s) == [s EXCEPT !.pc = begun.pc, !.r = begun.r, !.cycles = begun.cycles]

Midway == phase \in {"copy", "search"} /\ blk.turns > 0

Repeated ==
  LET s == Jump(StoredBlock(cpu, blk), cpu.pc - 2)
      a == cpu.reg["A"]
  IN  [s EXCEPT !.F = IF phase = "copy" THEN CopyFlags(blk.n, a, blk.bc, cpu.F)
                                        ELSE SearchFlags(blk.n, a, blk.bc, cpu.F)]

Between == phase \in {"host", "opcode", "gave_up"}

Processor == IF Midway THEN Repeated ELSE IF Between THEN cpu ELSE Before(cpu)
Shadow    == last \in INTERRUPTS /\ ~Midway
Bus       == IF Between \/ Midway THEN NoOpcode ELSE begun.bus

Halted    == last = "HALT" /\ phase \in {"host", "gave_up"}

Machine == INSTANCE Z80 WITH z <- Processor, shadow <- Shadow, bus <- Bus, halted <- Halted

\* The one step that is not the processor's: the host emulates on behind a HALT
\* although no interrupt has been accepted ("keeps executing NOPs until an
\* interrupt is generated", z80emu.c:1195), so that the slice decides how long the
\* program has waited.
GoesOn == Halted /\ phase' = "opcode"

\* But for that step the slices are invisible: whatever budgets the host gives, the
\* instructions executed and the interrupts accepted are those of a processor that
\* knows nothing of Z80Emulate's calls, halted or not.
ImplementsZ80 == Machine!Init /\ [][Machine!Next \/ GoesOn]_(Machine!vars)

\* The flags the code derives from a ^ x ^ z are those of the arithmetic
\* a + s * (x + c) on bytes or words: H when the low digits leave their range, V
\* when the signed numbers do, C when the unsigned ones do; INC and DEC keep C.
SumFlags(a, x, c, s, size) ==
  LET digit     == size \div 16
      signed(v) == IF v < size \div 2 THEN v ELSE v - size
      value     == (a + s * (x + c)) % size
  IN  (IF (a % digit) + s * ((x % digit) + c) \notin 0 .. (digit - 1) THEN {"H"} ELSE {})
        \cup (IF a + s * (x + c) \notin 0 .. (size - 1) THEN {"C"} ELSE {})
        \cup (IF signed(a) + s * (signed(x) + c) \notin -(size \div 2) .. (size \div 2 - 1)
                THEN {"PV"} ELSE {})
        \cup (IF value = 0 THEN {"Z"} ELSE {}) \cup (IF value >= size \div 2 THEN {"S"} ELSE {})
        \cup (IF s = -1 THEN {"N"} ELSE {})

\* What the current instruction adds or subtracts.
Sum ==
  LET op == cur.ins.op
      s  == IF op \in {"ADD", "ADC", "INC", "ADC_HL_RR"} THEN 1 ELSE -1
      c  == IF op \in {"ADC", "SBC", "ADC_HL_RR", "SBC_HL_RR"} THEN CarryOf(cpu.F) ELSE 0
      a  == cpu.reg["A"]
  IN  CASE op \in {"ADC_HL_RR", "SBC_HL_RR"} ->
             [a |-> GetW(cpu, "HL"), x |-> GetW(cpu, RR("HL", P(cur.opcode))), c |-> c, s |-> s, size |-> 65536]
        [] op \in {"INC", "DEC"} ->
             [a |-> cpu.reg[R(cur.p, Y(cur.opcode))], x |-> 1, c |-> 0, s |-> s, size |-> 256]
        [] op = "NEG" -> [a |-> 0, x |-> a, c |-> 0, s |-> s, size |-> 256]
        [] OTHER -> [a |-> a, x |-> cpu.reg[R(cur.p, Z(cur.opcode))], c |-> c, s |-> s, size |-> 256]

Sums == /\ phase = "execute" /\ cur.ins.form \in {"R", ""}
        /\ cur.ins.op \in {"ADD", "ADC", "SUB", "SBC", "CP", "INC", "DEC", "NEG", "ADC_HL_RR", "SBC_HL_RR"}

FlagsAreExact ==
  [][Sums => LET kept == IF cur.ins.op \in {"INC", "DEC"} THEN {"C"} ELSE {}
             IN  cpu'.F \ YX = (SumFlags(Sum.a, Sum.x, Sum.c, Sum.s, Sum.size) \ kept)
                                 \cup (cpu.F \cap kept)]_vars

\* What DAA relies on after a sum: that A and F are those of two decimal numbers, added
\* or subtracted, and not of other operands.
Decimal == {x \in Byte : x % 16 <= 9 /\ x \div 16 <= 9}

DecimalOperands ==
  Executing({"DAA"}) /\ last \in {"ADD", "ADC", "SUB", "SBC"} =>
    \E x, y \in Decimal : \E c \in {0, 1} : \E s \in {1, -1} :
      /\ cpu.reg["A"] = (x + s * (y + c)) % 256
      /\ cpu.F \cap {"H", "C", "N"} = SumFlags(x, y, c, s, 256) \cap {"H", "C", "N"}

\* DAA after an addition or a subtraction gives the decimal result: low and high
\* are the sums (or differences) of the decimal digits, read off the binary
\* result and its flags H and C.
DecimalAdjust ==
  [][Executing({"DAA"}) /\ last \in {"ADD", "ADC", "SUB", "SBC"} =>
       LET s      == IF "N" \in cpu.F THEN -1 ELSE 1
           a      == cpu.reg["A"]
           low    == (a % 16) + s * (IF "H" \in cpu.F THEN 16 ELSE 0)
           high   == (a + s * (IF "C" \in cpu.F THEN 256 ELSE 0) - low) \div 16
           number == low + 10 * high
       IN  /\ cpu'.reg["A"] = 16 * ((number % 100) \div 10) + (number % 10)
           /\ ("C" \in cpu'.F) <=> number \notin 0 .. 99]_vars

\* "Execute instructions as long as the number of elapsed cycles is smaller than
\* number_cycles" (z80emu.h): a call comes back when the cycles have passed, and
\* the instruction (or the turn of a block instruction) it did last was begun
\* before.
SliceLength ==
  [][phase # "host" /\ phase' = "host" =>
       /\ cpu'.cycles - call'.start >= call'.budget
       /\ (IF Midway THEN cpu.cycles ELSE begun.cycles) - call'.start < call'.budget]_vars

\* Z80VM_EmulateSubroutine leaves the caller's pc and SP as they were, although
\* it only waits for the stack to rise and finds pc below it.
SubroutineReturns ==
  [][sub # NoSub /\ sub' = NoSub => cpu'.pc = sub.pc /\ cpu'.SP = (sub.sp + 2) % 65536]_vars

\* Every call comes back to the host, HALT, an endless loop of the emulated
\* program and a subroutine that never returns included, unless the VM aborts.
Returned == (phase = "host" /\ sub = NoSub) \/ phase \in {"aborted", "gave_up"}

EveryCallReturns == []<>Returned
=============================================================================

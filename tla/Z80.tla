--------------------------------- MODULE Z80 ---------------------------------
(***************************************************************************)
(* What z80emu.h promises of the emulator: a processor that executes one   *)
(* instruction after the other.  Nothing in this specification knows of    *)
(* cycle budgets or of the slices in which a host program runs the         *)
(* emulator: a repeating block instruction is executed once per element    *)
(* (on hardware it is fetched again for each of them), and interrupts are  *)
(* accepted between two instructions, but never right after DI or EI.      *)
(*                                                                         *)
(* The prefixes, the repetition and the interrupts are specified here, the *)
(* processor and what one instruction does to it are constants, which      *)
(* Z80Exec defines.                                                        *)
(***************************************************************************)
EXTENDS Integers

CONSTANTS
  Byte, Word,
  Cpu,                                 \* the processors: registers and memory
  GetW(_, _), SetW(_, _, _),           \* register pairs
  ReadByte(_, _), ReadWord(_, _), WriteWord(_, _, _), PUSH(_, _),
  Jump(_, _), Cycles(_, _), Refreshed(_),
  INSTRUCTION_TABLE, CB_INSTRUCTION_TABLE, ED_INSTRUCTION_TABLE,
  INTERRUPTS, PORTS,                   \* DI and EI; the operations the machine has no ports for
  Execute(_, _, _, _)                  \* the effect of an instruction that does not repeat

VARIABLES
  z,        \* the processor and its memory
  shadow,   \* the last instruction was DI or EI
  bus,      \* the opcode an accepted mode 0 interrupt has put on the bus, or NoOpcode
  halted    \* HALT has been executed and no interrupt accepted since

vars == <<z, shadow, bus, halted>>

NoOpcode == -1

Init == z \in Cpu /\ shadow = FALSE /\ bus = NoOpcode /\ halted = FALSE

\* n bytes read as (part of) an opcode: 4 cycles and a refresh each.
M1(s, n) ==
  [s EXCEPT !.pc = (@ + n) % 65536, !.cycles = @ + 4 * n, !.r = 128 * (@ \div 128) + ((@ + n) % 128)]

\* The byte n places behind pc, and what it is as an opcode.
Opcode(s, n) == ReadByte(s, (s.pc + n) % 65536)
Op(s, n)     == INSTRUCTION_TABLE[Opcode(s, n)].op

IsIndex(s, n) == Op(s, n) \in {"DD_PREFIX", "FD_PREFIX"}

\* How many index prefixes stand in front of the opcode (fewer than there are
\* addresses), and the register the last of them puts in the place of HL.
Indexes(s) == CHOOSE n \in Word : ~IsIndex(s, n) /\ \A m \in 0 .. n - 1 : IsIndex(s, m)

IndexRegister(s, n) ==
  IF n = 0 THEN "HL" ELSE IF Op(s, n - 1) = "DD_PREFIX" THEN "IX" ELSE "IY"

\* The instruction at pc: ED cancels the index prefixes, CB after one of them finds
\* its opcode behind the displacement.
Decoded(s) ==
  LET n == Indexes(s)
      p == IndexRegister(s, n)
      as(t, q, k, table) == [s |-> t, p |-> q, opcode |-> Opcode(s, k), ins |-> table[Opcode(s, k)]]
  IN  CASE Op(s, n) = "ED_PREFIX"              -> as(M1(s, n + 2), "HL", n + 1, ED_INSTRUCTION_TABLE)
        [] Op(s, n) = "CB_PREFIX" /\ p = "HL" -> as(M1(s, n + 2), "HL", n + 1, CB_INSTRUCTION_TABLE)
        [] Op(s, n) = "CB_PREFIX" /\ p # "HL" ->
             as(Cycles(M1(s, n + 1), 4), p, n + 2, CB_INSTRUCTION_TABLE)
        [] OTHER                              -> as(M1(s, n + 1), p, n, INSTRUCTION_TABLE)

\* The opcode an interrupt puts on the bus is not read from memory.
FromBus == [s |-> Refreshed(Cycles(z, 4)), p |-> "HL", opcode |-> bus, ins |-> INSTRUCTION_TABLE[bus]]

Current == IF bus = NoOpcode THEN Decoded(z) ELSE FromBus

\* One element of LDIR, LDDR, CPIR or CPDR: while elements are left the
\* instruction is executed again, 5 cycles later.
Element(d, s) ==
  LET once == IF d.ins.op = "LDIR_LDDR" THEN "LDI_LDD" ELSE "CPI_CPD"
      t    == Execute(s, "HL", d.opcode, [d.ins EXCEPT !.op = once])
      more == /\ GetW(t, "BC") # 0
              /\ d.ins.op = "LDIR_LDDR" \/ "Z" \notin t.F
  IN  IF more THEN Cycles(Jump(t, t.pc - 2), 5) ELSE t

Instruction ==
  LET d == Current IN
  /\ d.ins.op \notin PORTS \cup {"HALT"}
  /\ z' = IF d.ins.op \in {"LDIR_LDDR", "CPIR_CPDR"} THEN Element(d, d.s)
                                                    ELSE Execute(d.s, d.p, d.opcode, d.ins)
  /\ shadow' = (d.ins.op \in INTERRUPTS)
  /\ bus' = NoOpcode

\* HALT, and the NOPs that are executed behind it: time passes (it need not be a
\* whole number of NOPs here, and their refreshes are not counted).
Halt ==
  LET d == Current IN
  /\ d.ins.op = "HALT"
  /\ z'.cycles >= d.s.cycles
  /\ z' = [d.s EXCEPT !.cycles = z'.cycles]
  /\ shadow' = FALSE
  /\ bus' = NoOpcode

\* More of them.
Wait ==
  /\ z'.cycles >= z.cycles
  /\ z' = [z EXCEPT !.cycles = z'.cycles]
  /\ UNCHANGED <<shadow, bus>>

\* An interrupt, according to the interrupt mode.
Accepted == Refreshed([z EXCEPT !.iff1 = 0, !.iff2 = 0])

Interrupt(data) ==
  /\ z.iff1 = 1 /\ ~shadow /\ bus = NoOpcode
  /\ CASE z.im = 0 -> z' = Accepted /\ bus' = data
       [] z.im = 1 -> z' = Cycles(Jump(PUSH(Accepted, z.pc), 56), 13 - 6) /\ bus' = bus
       [] z.im = 2 -> /\ LET t == PUSH(Accepted, z.pc)
                         IN  z' = Cycles(Jump(t, ReadWord(t, 256 * z.i + data)), 19 - 6)
                      /\ bus' = bus
  /\ shadow' = FALSE

NonMaskableInterrupt ==
  /\ bus = NoOpcode
  /\ z' = Cycles(Jump(PUSH(Refreshed([z EXCEPT !.iff2 = z.iff1, !.iff1 = 0]), z.pc), 102), 11 - 6)
  /\ shadow' = FALSE
  /\ UNCHANGED bus

\* The host program may call a subroutine of the emulated program, and set pc.
HostCall ==
  /\ bus = NoOpcode
  /\ z' = Jump(WriteWord(SetW(z, "SP", z.SP - 2), z.SP - 2, z.pc), z'.pc)
  /\ UNCHANGED <<shadow, bus>>

HostReturn ==
  /\ bus = NoOpcode
  /\ z' = Jump(z, z'.pc)
  /\ UNCHANGED <<shadow, bus>>

\* Only an interrupt gets the processor out of HALT.
Execution ==
  \/ ~halted /\ Instruction /\ UNCHANGED halted
  \/ ~halted /\ Halt /\ halted' = TRUE
  \/ halted /\ Wait /\ UNCHANGED halted

Interruption ==
  /\ (\E data \in Byte : Interrupt(data)) \/ NonMaskableInterrupt
  /\ halted' = FALSE

Next ==
  \/ Execution
  \/ Interruption
  \/ (HostCall \/ HostReturn) /\ UNCHANGED halted

Spec == Init /\ [][Next]_vars
=============================================================================

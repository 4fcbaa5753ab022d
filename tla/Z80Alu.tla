------------------------------- MODULE Z80Alu -------------------------------
(***************************************************************************)
(* The arithmetic of the Z80 emulator: the flag tables of tables.h, the    *)
(* operation macros of macros.h and the arithmetic written out in          *)
(* z80emu.c.  A byte is a number, the flag register F is the SET of the    *)
(* flags that are 1.  Every operation returns [v |-> value, f |-> flags].  *)
(*                                                                         *)
(* The code derives the half carry, the overflow and the carry from        *)
(* c = a ^ x ^ z, whose bit i is the carry INTO bit i; CarryInto is that   *)
(* bit.  z may be negative: bits of a negative number are those of its     *)
(* two's complement, as in C.                                              *)
(***************************************************************************)
EXTENDS Integers, FiniteSets

AddressSpace == 65536

Byte == 0 .. 255
Word == 0 .. AddressSpace - 1

\* Bit positions of the flags in the byte F.
FlagBit == [S |-> 7, Z |-> 6, Y |-> 5, H |-> 4, X |-> 3, PV |-> 2, N |-> 1, C |-> 0]
Flag    == DOMAIN FlagBit
YX      == {"Y", "X"}
SZPV    == {"S", "Z", "PV"}
SZC     == {"S", "Z", "C"}

Pow2      == [i \in 0 .. 16 |-> 2 ^ i]
Bit(v, i) == (v \div Pow2[i]) % 2

\* Bytes as sets of bit numbers, for &, | and ^.
BitsOf == [v \in Byte |-> {i \in 0 .. 7 : Bit(v, i) = 1}]
ByteOf == [b \in SUBSET (0 .. 7) |-> CHOOSE v \in Byte : BitsOf[v] = b]

\* The flags a byte has at their own positions, and the byte of a flag set.
FlagsIn == [v \in Byte |-> {x \in Flag : Bit(v, FlagBit[x]) = 1}]
FByte(f) == ByteOf[{FlagBit[x] : x \in f}]

On(bit, flag) == IF bit = 1 THEN {flag} ELSE {}
Signed(v)     == IF v < 128 THEN v ELSE v - 256

SZYX_FLAGS_TABLE ==
  [v \in Byte |-> (FlagsIn[v] \cap {"S", "Y", "X"}) \cup (IF v = 0 THEN {"Z"} ELSE {})]

SZYXP_FLAGS_TABLE ==
  [v \in Byte |-> SZYX_FLAGS_TABLE[v]
                    \cup (IF Cardinality(BitsOf[v]) % 2 = 0 THEN {"PV"} ELSE {})]

\* An overflow when the carries into and out of the top bit differ.
OVERFLOW_TABLE == <<{}, {"PV"}, {"PV"}, {}>>

\* Conditions NZ Z NC C PO PE P M, coded 0 .. 7: the flag is clear or set.
CC(cc, f) == (<<"Z", "C", "PV", "S">>[cc \div 2 + 1] \in f) <=> (cc % 2 = 1)

-----------------------------------------------------------------------------
(* 8-bit arithmetic and logic.                                             *)

CarryInto(i, a, x, z) == (Bit(a, i) + Bit(x, i) + Bit(z, i)) % 2

Half(a, x, z)     == On(CarryInto(4, a, x, z), "H")
Overflow(a, x, z) == OVERFLOW_TABLE[2 * CarryInto(8, a, x, z) + CarryInto(7, a, x, z) + 1]

\* (mutant) The carry is taken from bit 7 of the sum.
AddToCarryFromBit7(a, x, c) ==
  LET z == a + x + c
  IN  [v |-> z % 256,
       f |-> Half(a, x, z) \cup SZYX_FLAGS_TABLE[z % 256] \cup Overflow(a, x, z)
               \cup On(Bit(z, 7), "C")]

AddTo(a, x, c) ==
  LET z == a + x + c
  IN  [v |-> z % 256,
       f |-> Half(a, x, z) \cup SZYX_FLAGS_TABLE[z % 256] \cup Overflow(a, x, z)
               \cup On(Bit(z, 8), "C")]

\* (mutant) The int z is stored without being cut to a byte.
SubFromUncut(a, x, c) ==
  LET z == a - x - c
  IN  [v |-> z,
       f |-> {"N"} \cup Half(a, x, z) \cup SZYX_FLAGS_TABLE[z % 256] \cup Overflow(a, x, z)
               \cup On(CarryInto(8, a, x, z), "C")]

SubFrom(a, x, c) ==
  LET z == a - x - c
  IN  [v |-> z % 256,
       f |-> {"N"} \cup Half(a, x, z) \cup SZYX_FLAGS_TABLE[z % 256] \cup Overflow(a, x, z)
               \cup On(CarryInto(8, a, x, z), "C")]

CarryOf(f) == IF "C" \in f THEN 1 ELSE 0

ADD(a, x)    == AddTo(a, x, 0)
ADC(a, x, f) == AddTo(a, x, CarryOf(f))
SUB(a, x)    == SubFrom(a, x, 0)
SBC(a, x, f) == SubFrom(a, x, CarryOf(f))

AND(a, x) == LET v == ByteOf[BitsOf[a] \cap BitsOf[x]] IN [v |-> v, f |-> SZYXP_FLAGS_TABLE[v] \cup {"H"}]
OR(a, x)  == LET v == ByteOf[BitsOf[a] \cup BitsOf[x]] IN [v |-> v, f |-> SZYXP_FLAGS_TABLE[v]]
XOR(a, x) ==
  LET v == ByteOf[(BitsOf[a] \ BitsOf[x]) \cup (BitsOf[x] \ BitsOf[a])]
  IN  [v |-> v, f |-> SZYXP_FLAGS_TABLE[v]]

\* The comparison takes Y and X from the operand and leaves A alone.
CP(a, x) == [v |-> a, f |-> (SubFrom(a, x, 0).f \ YX) \cup (FlagsIn[x] \cap YX)]

Accumulate(op, a, x, f) ==
  CASE op = "ADD" -> ADD(a, x)
    [] op = "ADC" -> ADC(a, x, f)
    [] op = "SUB" -> SUB(a, x)
    [] op = "SBC" -> SBC(a, x, f)
    [] op = "AND" -> AND(a, x)
    [] op = "OR"  -> OR(a, x)
    [] op = "XOR" -> XOR(a, x)
    [] op = "CP"  -> CP(a, x)

INC(x, f) ==
  LET z == x + 1
  IN  [v |-> z % 256,
       f |-> (f \cap {"C"}) \cup Half(x, 0, z) \cup SZYX_FLAGS_TABLE[z % 256] \cup Overflow(x, 0, z)]

DEC(x, f) ==
  LET z == x - 1
  IN  [v |-> z % 256,
       f |-> {"N"} \cup (f \cap {"C"}) \cup Half(x, 0, z) \cup SZYX_FLAGS_TABLE[z % 256]
               \cup Overflow(x, 0, z)]

-----------------------------------------------------------------------------
(* General-purpose arithmetic on the accumulator.                          *)

\* (mutant) The high digit is adjusted when it is above 9, whatever the low one.
DAAHighDigitAlone(a, f) ==
  LET high == a > 159 \/ "C" \in f
      d    == (IF high THEN 96 ELSE 0) + (IF a % 16 > 9 \/ "H" \in f THEN 6 ELSE 0)
      v    == (IF "N" \in f THEN a - d ELSE a + d) % 256
  IN  [v |-> v,
       f |-> SZYXP_FLAGS_TABLE[v] \cup On(CarryInto(4, a, 0, v), "H") \cup (f \cap {"N"})
               \cup (IF high THEN {"C"} ELSE {})]

DAA(a, f) ==
  LET high == a > 153 \/ "C" \in f
      d    == (IF high THEN 96 ELSE 0) + (IF a % 16 > 9 \/ "H" \in f THEN 6 ELSE 0)
      v    == (IF "N" \in f THEN a - d ELSE a + d) % 256
  IN  [v |-> v,
       f |-> SZYXP_FLAGS_TABLE[v] \cup On(CarryInto(4, a, 0, v), "H") \cup (f \cap {"N"})
               \cup (IF high THEN {"C"} ELSE {})]

CPL(a, f) == [v |-> 255 - a,
              f |-> (f \cap (SZPV \cup {"C"})) \cup (FlagsIn[255 - a] \cap YX) \cup {"H", "N"}]

NEG(a) ==
  LET z == -a
  IN  [v |-> z % 256,
       f |-> {"N"} \cup Half(a, 0, z) \cup SZYX_FLAGS_TABLE[z % 256] \cup Overflow(a, 0, z)
               \cup On(CarryInto(8, a, 0, z), "C")]

CCF(a, f) == [v |-> a,
              f |-> (f \cap SZPV) \cup (FlagsIn[a] \cap YX) \cup (IF "C" \in f THEN {"H"} ELSE {"C"})]

SCF(a, f) == [v |-> a, f |-> (f \cap SZPV) \cup (FlagsIn[a] \cap YX) \cup {"C"}]

-----------------------------------------------------------------------------
(* 16-bit arithmetic.                                                      *)

\* Y and X (and S) are those of the high byte of the result.
High(z) == FlagsIn[(z \div 256) % 256]

ADD_HL(x, y, f) ==
  LET z == x + y
  IN  [v |-> z % 65536,
       f |-> (f \cap SZPV) \cup (High(z) \cap YX) \cup On(CarryInto(12, x, y, z), "H")
               \cup On(CarryInto(16, x, y, z), "C")]

SZYX16(z) == IF z % 65536 # 0 THEN High(z) \cap {"S", "Y", "X"} ELSE {"Z"}
Overflow16(x, y, z) == OVERFLOW_TABLE[2 * CarryInto(16, x, y, z) + CarryInto(15, x, y, z) + 1]

ADC_HL(x, y, f) ==
  LET z == x + y + CarryOf(f)
  IN  [v |-> z % 65536,
       f |-> SZYX16(z) \cup On(CarryInto(12, x, y, z), "H") \cup Overflow16(x, y, z)
               \cup On(Bit(z, 16), "C")]

SBC_HL(x, y, f) ==
  LET z == x - y - CarryOf(f)
  IN  [v |-> z % 65536,
       f |-> {"N"} \cup SZYX16(z) \cup On(CarryInto(12, x, y, z), "H") \cup Overflow16(x, y, z)
               \cup On(CarryInto(16, x, y, z), "C")]

-----------------------------------------------------------------------------
(* Rotates and shifts: the CB-prefixed ones set S Z Y X P from the result, *)
(* those of the accumulator keep S Z P.                                    *)

Shift(op, x, f) ==
  LET left  == op \in {"RLC", "RL", "SLA", "SLL"}
      out   == IF left THEN Bit(x, 7) ELSE Bit(x, 0)
      in    == CASE op = "RLC" \/ op = "RRC" -> out
                 [] op = "RL" \/ op = "RR"   -> CarryOf(f)
                 [] op = "SLA" \/ op = "SRL" -> 0
                 [] op = "SLL"               -> 1
                 [] op = "SRA"               -> Bit(x, 7)
      v     == IF left THEN ((2 * x) % 256) + in ELSE x \div 2 + 128 * in
  IN  [v |-> v, f |-> SZYXP_FLAGS_TABLE[v] \cup On(out, "C")]

RLCA(a, f) ==
  LET v == ((2 * a) % 256) + Bit(a, 7)
  IN  [v |-> v, f |-> (f \cap SZPV) \cup (FlagsIn[v] \cap {"Y", "X", "C"})]

RLA(a, f) ==
  LET v == (2 * a) % 256
  IN  [v |-> v + CarryOf(f), f |-> (f \cap SZPV) \cup (FlagsIn[v] \cap YX) \cup On(Bit(a, 7), "C")]

RRCA(a, f) ==
  LET v == a \div 2 + 128 * Bit(a, 0)
  IN  [v |-> v, f |-> (f \cap SZPV) \cup (FlagsIn[v] \cap YX) \cup On(Bit(a, 0), "C")]

RRA(a, f) ==
  LET v == a \div 2 + 128 * CarryOf(f)
  IN  [v |-> v, f |-> (f \cap SZPV) \cup (FlagsIn[v] \cap YX) \cup On(Bit(a, 0), "C")]

Accumulator(op, a, f) ==
  CASE op = "DAA"  -> DAA(a, f)
    [] op = "CPL"  -> CPL(a, f)
    [] op = "NEG"  -> NEG(a)
    [] op = "CCF"  -> CCF(a, f)
    [] op = "SCF"  -> SCF(a, f)
    [] op = "RLCA" -> RLCA(a, f)
    [] op = "RLA"  -> RLA(a, f)
    [] op = "RRCA" -> RRCA(a, f)
    [] op = "RRA"  -> RRA(a, f)

\* BIT b: x the tested byte, yx the byte Y and X are taken from.
TestBit(b, x, yx, f) ==
  (IF Bit(x, b) = 1 THEN {} ELSE {"Z", "PV"}) \cup (IF b = 7 /\ Bit(x, 7) = 1 THEN {"S"} ELSE {})
    \cup (FlagsIn[yx] \cap YX) \cup {"H"} \cup (f \cap {"C"})

\* LDI, LDD, LDIR, LDDR: n the byte copied, bc the count left.
CopyFlags(n, a, bc, f) ==
  LET m == n + a
  IN  (f \cap SZC) \cup On(Bit(m, 3), "X") \cup On(Bit(m, 1), "Y") \cup (IF bc # 0 THEN {"PV"} ELSE {})

\* CPI, CPD, CPIR, CPDR: a compared with n, bc the count left.
SearchFlags(n, a, bc, f) ==
  LET z == a - n
      h == CarryInto(4, a, n, z)
      m == z - h
  IN  On(h, "H") \cup On(Bit(m, 3), "X") \cup On(Bit(m, 1), "Y")
        \cup (SZYX_FLAGS_TABLE[z % 256] \cap {"S", "Z"}) \cup (IF bc # 0 THEN {"PV"} ELSE {})
        \cup {"N"} \cup (f \cap {"C"})
=============================================================================

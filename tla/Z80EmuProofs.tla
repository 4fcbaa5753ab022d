---------------------------- MODULE Z80EmuProofs ----------------------------
(***************************************************************************)
(* What holds of the Z80 emulator for every program, every memory size and *)
(* every host.                                                             *)
(***************************************************************************)
EXTENDS Z80Emu, TLAPS

-----------------------------------------------------------------------------
(* The processor's record: setting one field leaves it a processor.        *)

LEMMA ByteIs == ASSUME NEW v \in Byte PROVE v \in Nat /\ v <= 255
BY DEF Byte

LEMMA IsByte == ASSUME NEW v \in Int, 0 <= v, v <= 255 PROVE v \in Byte
BY DEF Byte

LEMMA SpaceIs == AddressSpace \in Int /\ AddressSpace >= 65536 /\ AddressSpace - 1 <= 65535
BY DEF AddressSpace

LEMMA WordIs == ASSUME NEW v \in Word PROVE v \in Nat /\ v <= 65535
<1>1. v \in Int /\ 0 <= v /\ v <= AddressSpace - 1
  BY SpaceIs DEF Word
<1> QED BY <1>1, SpaceIs

LEMMA IsWord == ASSUME NEW v \in Int, 0 <= v, v <= 65535 PROVE v \in Word
BY SpaceIs DEF Word

LEMMA InWord == ASSUME NEW v \in Int PROVE v % 65536 \in Word
<1>1. v % 65536 \in Int /\ 0 <= v % 65536 /\ v % 65536 <= 65535
  OBVIOUS
<1> QED BY <1>1, IsWord

LEMMA InByte == ASSUME NEW v \in Int PROVE v % 256 \in Byte
BY DEF Byte

LEMMA Halves == ASSUME NEW v \in Word PROVE v \div 256 \in Byte /\ v % 256 \in Byte
<1>1. v \in Nat /\ v <= 65535
  BY WordIs
<1>2. v \div 256 \in Int /\ 0 <= v \div 256 /\ v \div 256 <= 255
  BY <1>1
<1> QED BY <1>1, <1>2, IsByte, InByte

LEMMA Joined == ASSUME NEW h \in Byte, NEW l \in Byte PROVE 256 * h + l \in Word /\ l + 256 * h \in Word
<1>1. h \in Nat /\ h <= 255 /\ l \in Nat /\ l <= 255
  BY ByteIs
<1>2. 256 * h + l \in Int /\ 0 <= 256 * h + l /\ 256 * h + l <= 65535 /\ l + 256 * h = 256 * h + l
  BY <1>1
<1> QED BY <1>2, IsWord

LEMMA SetPcOK == ASSUME NEW s \in Cpu, NEW v \in Word PROVE [s EXCEPT !.pc = v] \in Cpu
BY DEF Cpu

LEMMA SetSpOK == ASSUME NEW s \in Cpu, NEW v \in Word PROVE [s EXCEPT !.SP = v] \in Cpu
BY DEF Cpu

LEMMA SetCyclesOK == ASSUME NEW s \in Cpu, NEW v \in Nat PROVE [s EXCEPT !.cycles = v] \in Cpu
BY DEF Cpu

LEMMA SetRefreshOK == ASSUME NEW s \in Cpu, NEW v \in Byte PROVE [s EXCEPT !.r = v] \in Cpu
BY DEF Cpu

LEMMA SetFlagsOK == ASSUME NEW s \in Cpu, NEW f \in SUBSET Flag PROVE [s EXCEPT !.F = f] \in Cpu
BY DEF Cpu

LEMMA SetROK ==
  ASSUME NEW s \in Cpu, NEW name \in ByteRegister, NEW v \in Byte PROVE SetR(s, name, v) \in Cpu
BY DEF SetR, Cpu

LEMMA SetRamOK ==
  ASSUME NEW s \in Cpu, NEW a \in 0 .. MemSize - 1, NEW v \in Byte PROVE [s EXCEPT !.ram[a] = v] \in Cpu
BY DEF Cpu

LEMMA FieldsAre ==
  ASSUME NEW s \in Cpu
  PROVE  /\ s.reg \in [ByteRegister -> Byte] /\ \A name \in ByteRegister : s.reg[name] \in Byte
         /\ s.F \in SUBSET Flag /\ s.SP \in Word /\ s.pc \in Word
         /\ \A w \in {"AF", "BC", "DE", "HL"} : s.alt[w] \in Word
         /\ s.i \in Byte /\ s.r \in Byte /\ s.iff1 \in {0, 1} /\ s.iff2 \in {0, 1} /\ s.im \in 0 .. 2
         /\ s.cycles \in Nat /\ s.ram \in [0 .. MemSize - 1 -> Byte]
BY DEF Cpu

LEMMA CyclesOK == ASSUME NEW s \in Cpu, NEW n \in Nat PROVE Cycles(s, n) \in Cpu
<1>1. s.cycles + n \in Nat
  BY FieldsAre
<1> QED BY <1>1, SetCyclesOK DEF Cycles

LEMMA JumpOK == ASSUME NEW s \in Cpu, NEW t \in Int PROVE Jump(s, t) \in Cpu
<1>1. t % 65536 \in Word
  BY InWord
<1> QED BY <1>1, SetPcOK DEF Jump

LEMMA Refresh ==
  ASSUME NEW r \in Byte, NEW n \in Int
  PROVE  128 * (r \div 128) + ((r + n) % 128) \in Byte
BY DEF Byte

LEMMA RefreshBack ==
  ASSUME NEW r \in Byte
  PROVE  128 * (r \div 128) + ((r - 2) % 128) \in Byte
BY DEF Byte

LEMMA RefreshedOK == ASSUME NEW s \in Cpu PROVE Refreshed(s) \in Cpu
<1>1. 128 * (s.r \div 128) + ((s.r + 1) % 128) \in Byte
  BY FieldsAre, Refresh
<1> QED BY <1>1, SetRefreshOK DEF Refreshed

LEMMA UncountedOK == ASSUME NEW s \in Cpu, s.cycles >= 8 PROVE Uncounted(s) \in Cpu
<1>1. 128 * (s.r \div 128) + ((s.r - 2) % 128) \in Byte
  BY FieldsAre, RefreshBack
<1>2. s.cycles - 8 \in Nat
  BY FieldsAre
<1> DEFINE t == [s EXCEPT !.cycles = s.cycles - 8]
<1>3. t \in Cpu /\ t.r = s.r
  BY <1>2, SetCyclesOK DEF Cpu
<1>4. [t EXCEPT !.r = 128 * (s.r \div 128) + ((s.r - 2) % 128)] \in Cpu
  BY <1>1, <1>3, SetRefreshOK
<1> QED BY <1>4 DEF Uncounted

-----------------------------------------------------------------------------
(* Memory and words.                                                       *)

LEMMA MemSizeIs == MemSize \in Int /\ MemSize >= 1
BY MemSizeAssumption, SpaceIs

LEMMA AddressOK == ASSUME NEW a \in Int PROVE a % MemSize \in 0 .. MemSize - 1
BY MemSizeIs

LEMMA ReadByteOK == ASSUME NEW s \in Cpu, NEW a \in Int PROVE ReadByte(s, a) \in Byte
BY AddressOK, FieldsAre DEF ReadByte

LEMMA ReadWordOK == ASSUME NEW s \in Cpu, NEW a \in Int PROVE ReadWord(s, a) \in Word
<1>1. ReadByte(s, a) \in Byte /\ ReadByte(s, a + 1) \in Byte
  BY ReadByteOK
<1> QED BY <1>1, Joined DEF ReadWord

LEMMA WriteByteOK == ASSUME NEW s \in Cpu, NEW a \in Int, NEW v \in Int PROVE WriteByte(s, a, v) \in Cpu
<1>1. a % MemSize \in 0 .. MemSize - 1 /\ v % 256 \in Byte
  BY AddressOK, InByte
<1> QED BY <1>1, SetRamOK DEF WriteByte

LEMMA WriteWordOK == ASSUME NEW s \in Cpu, NEW a \in Int, NEW v \in Int PROVE WriteWord(s, a, v) \in Cpu
<1>1. WriteByte(s, a, v) \in Cpu /\ a + 1 \in Int /\ v \div 256 \in Int
  BY WriteByteOK
<1> QED BY <1>1, WriteByteOK DEF WriteWord

-----------------------------------------------------------------------------
(* Bits and flags.                                                         *)

LEMMA Powers ==
  /\ Pow2[0] = 1 /\ Pow2[1] = 2 /\ Pow2[2] = 4 /\ Pow2[3] = 8 /\ Pow2[4] = 16
  /\ Pow2[5] = 32 /\ Pow2[6] = 64 /\ Pow2[7] = 128
  /\ Pow2[8] = 256 /\ Pow2[12] = 4096 /\ Pow2[15] = 32768 /\ Pow2[16] = 65536
<1>1. 2 ^ 0 = 1 /\ 2 ^ 1 = 2 /\ 2 ^ 2 = 4 /\ 2 ^ 3 = 8 /\ 2 ^ 4 = 16 /\ 2 ^ 5 = 32 /\ 2 ^ 6 = 64 /\ 2 ^ 7 = 128
  OBVIOUS
<1>2. 2 ^ 8 = 256 /\ 2 ^ 12 = 4096 /\ 2 ^ 15 = 32768 /\ 2 ^ 16 = 65536
  OBVIOUS
<1> QED BY <1>1, <1>2 DEF Pow2

LEMMA LowBits ==
  ASSUME NEW v \in Int
  PROVE  /\ Bit(v, 0) = v % 2 /\ Bit(v, 1) = (v \div 2) % 2
         /\ Bit(v, 2) = (v \div 4) % 2 /\ Bit(v, 3) = (v \div 8) % 2
         /\ Bit(v, 4) = (v \div 16) % 2 /\ Bit(v, 5) = (v \div 32) % 2
         /\ Bit(v, 6) = (v \div 64) % 2 /\ Bit(v, 7) = (v \div 128) % 2
<1>1. v \div 1 = v
  OBVIOUS
<1> QED BY <1>1, Powers DEF Bit

LEMMA BitIs01 == ASSUME NEW v \in Int, NEW i \in 0 .. 7 PROVE Bit(v, i) \in {0, 1}
<1>1. ASSUME NEW x \in Int PROVE x % 2 \in {0, 1}
  OBVIOUS
<1>2. i = 0 \/ i = 1 \/ i = 2 \/ i = 3 \/ i = 4 \/ i = 5 \/ i = 6 \/ i = 7
  OBVIOUS
<1>3. /\ v \div 2 \in Int /\ v \div 4 \in Int /\ v \div 8 \in Int /\ v \div 16 \in Int
      /\ v \div 32 \in Int /\ v \div 64 \in Int /\ v \div 128 \in Int
  OBVIOUS
<1>4. /\ v % 2 \in {0, 1} /\ (v \div 2) % 2 \in {0, 1} /\ (v \div 4) % 2 \in {0, 1}
      /\ (v \div 8) % 2 \in {0, 1} /\ (v \div 16) % 2 \in {0, 1} /\ (v \div 32) % 2 \in {0, 1}
      /\ (v \div 64) % 2 \in {0, 1} /\ (v \div 128) % 2 \in {0, 1}
  BY <1>1, <1>3
<1>10. Bit(v, 0) \in {0, 1}
  <2>1. Bit(v, 0) = v % 2
    BY LowBits
  <2> QED BY <1>4, <2>1
<1>11. Bit(v, 1) \in {0, 1}
  <2>1. Bit(v, 1) = (v \div 2) % 2
    BY LowBits
  <2> QED BY <1>4, <2>1
<1>12. Bit(v, 2) \in {0, 1}
  <2>1. Bit(v, 2) = (v \div 4) % 2
    BY LowBits
  <2> QED BY <1>4, <2>1
<1>13. Bit(v, 3) \in {0, 1}
  <2>1. Bit(v, 3) = (v \div 8) % 2
    BY LowBits
  <2> QED BY <1>4, <2>1
<1>14. Bit(v, 4) \in {0, 1}
  <2>1. Bit(v, 4) = (v \div 16) % 2
    BY LowBits
  <2> QED BY <1>4, <2>1
<1>15. Bit(v, 5) \in {0, 1}
  <2>1. Bit(v, 5) = (v \div 32) % 2
    BY LowBits
  <2> QED BY <1>4, <2>1
<1>16. Bit(v, 6) \in {0, 1}
  <2>1. Bit(v, 6) = (v \div 64) % 2
    BY LowBits
  <2> QED BY <1>4, <2>1
<1>17. Bit(v, 7) \in {0, 1}
  <2>1. Bit(v, 7) = (v \div 128) % 2
    BY LowBits
  <2> QED BY <1>4, <2>1
<1> QED BY <1>2, <1>10, <1>11, <1>12, <1>13, <1>14, <1>15, <1>16, <1>17

\* There is a byte for each set of bits.
LEMMA Bytes == ASSUME NEW b \in SUBSET (0 .. 7) PROVE \E v \in Byte : BitsOf[v] = b
<1> DEFINE d(i) == IF i \in b THEN 1 ELSE 0
           v == d(0) + 2 * d(1) + 4 * d(2) + 8 * d(3) + 16 * d(4) + 32 * d(5) + 64 * d(6) + 128 * d(7)
<1>1. \A i \in 0 .. 7 : d(i) \in {0, 1} /\ (d(i) = 1 <=> i \in b)
  OBVIOUS
<1>2. /\ d(0) \in {0, 1} /\ d(1) \in {0, 1} /\ d(2) \in {0, 1} /\ d(3) \in {0, 1}
      /\ d(4) \in {0, 1} /\ d(5) \in {0, 1} /\ d(6) \in {0, 1} /\ d(7) \in {0, 1}
  OBVIOUS
<1> HIDE DEF d
<1>3. v \in Int /\ 0 <= v /\ v <= 255
  BY <1>2
<1>4. /\ v % 2 = d(0) /\ (v \div 2) % 2 = d(1) /\ (v \div 4) % 2 = d(2) /\ (v \div 8) % 2 = d(3)
  BY <1>2
<1>5. /\ (v \div 16) % 2 = d(4) /\ (v \div 32) % 2 = d(5) /\ (v \div 64) % 2 = d(6)
      /\ (v \div 128) % 2 = d(7)
  BY <1>2
<1> HIDE DEF v
<1>6. \A i \in 0 .. 7 : Bit(v, i) = d(i)
  <2> SUFFICES ASSUME NEW i \in 0 .. 7 PROVE Bit(v, i) = d(i)
    OBVIOUS
  <2>1. i = 0 \/ i = 1 \/ i = 2 \/ i = 3 \/ i = 4 \/ i = 5 \/ i = 6 \/ i = 7
    OBVIOUS
  <2>10. CASE i = 0
    <3>1. Bit(v, 0) = d(0)
      BY <1>3, <1>4, <1>5, LowBits
    <3> QED BY <2>10, <3>1
  <2>11. CASE i = 1
    <3>1. Bit(v, 1) = d(1)
      BY <1>3, <1>4, <1>5, LowBits
    <3> QED BY <2>11, <3>1
  <2>12. CASE i = 2
    <3>1. Bit(v, 2) = d(2)
      BY <1>3, <1>4, <1>5, LowBits
    <3> QED BY <2>12, <3>1
  <2>13. CASE i = 3
    <3>1. Bit(v, 3) = d(3)
      BY <1>3, <1>4, <1>5, LowBits
    <3> QED BY <2>13, <3>1
  <2>14. CASE i = 4
    <3>1. Bit(v, 4) = d(4)
      BY <1>3, <1>4, <1>5, LowBits
    <3> QED BY <2>14, <3>1
  <2>15. CASE i = 5
    <3>1. Bit(v, 5) = d(5)
      BY <1>3, <1>4, <1>5, LowBits
    <3> QED BY <2>15, <3>1
  <2>16. CASE i = 6
    <3>1. Bit(v, 6) = d(6)
      BY <1>3, <1>4, <1>5, LowBits
    <3> QED BY <2>16, <3>1
  <2>17. CASE i = 7
    <3>1. Bit(v, 7) = d(7)
      BY <1>3, <1>4, <1>5, LowBits
    <3> QED BY <2>17, <3>1
  <2> QED BY <2>1, <2>10, <2>11, <2>12, <2>13, <2>14, <2>15, <2>16, <2>17
<1>7. v \in Byte
  BY <1>3, IsByte
<1>8. BitsOf[v] = {i \in 0 .. 7 : Bit(v, i) = 1}
  BY <1>7 DEF BitsOf
<1> QED BY <1>1, <1>6, <1>7, <1>8

LEMMA ByteOfIs == ASSUME NEW b \in SUBSET (0 .. 7) PROVE ByteOf[b] \in Byte /\ BitsOf[ByteOf[b]] = b
<1>1. ByteOf[b] = CHOOSE v \in Byte : BitsOf[v] = b
  BY DEF ByteOf
<1> QED BY <1>1, Bytes

LEMMA BitsAre == ASSUME NEW v \in Byte PROVE BitsOf[v] \in SUBSET (0 .. 7)
BY DEF BitsOf

LEMMA FlagsAre ==
  /\ Flag = {"S", "Z", "Y", "H", "X", "PV", "N", "C"}
  /\ \A x \in Flag : FlagBit[x] \in 0 .. 7
BY DEF Flag, FlagBit

LEMMA FByteOK == ASSUME NEW f \in SUBSET Flag PROVE FByte(f) \in Byte
<1>1. {FlagBit[x] : x \in f} \in SUBSET (0 .. 7)
  BY FlagsAre
<1> QED BY <1>1, ByteOfIs DEF FByte

LEMMA FlagsInOK == ASSUME NEW v \in Byte PROVE FlagsIn[v] \in SUBSET Flag
BY DEF FlagsIn

LEMMA OnOK == ASSUME NEW b, NEW x \in Flag PROVE On(b, x) \in SUBSET Flag
BY DEF On

LEMMA TablesOK ==
  ASSUME NEW v \in Byte
  PROVE  SZYX_FLAGS_TABLE[v] \in SUBSET Flag /\ SZYXP_FLAGS_TABLE[v] \in SUBSET Flag
<1>1. SZYX_FLAGS_TABLE[v] = (FlagsIn[v] \cap {"S", "Y", "X"}) \cup (IF v = 0 THEN {"Z"} ELSE {})
  BY DEF SZYX_FLAGS_TABLE
<1>2. SZYX_FLAGS_TABLE[v] \in SUBSET Flag
  BY <1>1, FlagsAre
<1>3. SZYXP_FLAGS_TABLE[v] = SZYX_FLAGS_TABLE[v]
                    \cup (IF Cardinality(BitsOf[v]) % 2 = 0 THEN {"PV"} ELSE {})
  BY DEF SZYXP_FLAGS_TABLE
<1> QED BY <1>2, <1>3, FlagsAre

-----------------------------------------------------------------------------
(* The 16-bit registers.                                                   *)

WordRegister == {"SP", "AF", "BC", "DE", "HL", "IX", "IY"}
Pair         == WordRegister \ {"SP", "AF"}

LEMMA PairsAre ==
  ASSUME NEW w \in Pair
  PROVE  /\ HighOf[w] \in ByteRegister /\ LowOf[w] \in ByteRegister /\ HighOf[w] # LowOf[w]
         /\ w # "SP" /\ w # "AF"
BY DEF Pair, WordRegister, HighOf, LowOf, ByteRegister

LEMMA GetWOK == ASSUME NEW s \in Cpu, NEW w \in WordRegister PROVE GetW(s, w) \in Word
<1>1. CASE w = "SP"
  BY <1>1, FieldsAre DEF GetW
<1>2. CASE w = "AF"
  <2>1. s.reg["A"] \in Byte /\ FByte(s.F) \in Byte
    BY FieldsAre, FByteOK DEF ByteRegister
  <2>2. GetW(s, w) = 256 * s.reg["A"] + FByte(s.F)
    BY <1>2 DEF GetW
  <2> QED BY <2>1, <2>2, Joined
<1>3. CASE w \in Pair
  <2>1. s.reg[HighOf[w]] \in Byte /\ s.reg[LowOf[w]] \in Byte
    BY <1>3, PairsAre, FieldsAre
  <2>2. GetW(s, w) = 256 * s.reg[HighOf[w]] + s.reg[LowOf[w]]
    BY <1>3, PairsAre DEF GetW
  <2> QED BY <2>1, <2>2, Joined
<1> QED BY <1>1, <1>2, <1>3 DEF Pair

LEMMA SetWOK == ASSUME NEW s \in Cpu, NEW w \in WordRegister, NEW v \in Int PROVE SetW(s, w, v) \in Cpu
<1> DEFINE x == v % 65536
<1>1. x \in Word
  BY InWord
<1>2. x \div 256 \in Byte /\ x % 256 \in Byte
  BY <1>1, Halves
<1> HIDE DEF x
<1>3. CASE w = "SP"
  <2>1. SetW(s, w, v) = [s EXCEPT !.SP = x]
    BY <1>3 DEF SetW, x
  <2> QED BY <1>1, <2>1, SetSpOK
<1>4. CASE w = "AF"
  <2>1. SetW(s, w, v) = [SetR(s, "A", x \div 256) EXCEPT !.F = FlagsIn[x % 256]]
    BY <1>4 DEF SetW, SetR, x
  <2>2. "A" \in ByteRegister
    BY DEF ByteRegister
  <2>3. SetR(s, "A", x \div 256) \in Cpu
    BY <1>2, <2>2, SetROK
  <2>4. FlagsIn[x % 256] \in SUBSET Flag
    BY <1>2, FlagsInOK
  <2> QED BY <2>1, <2>3, <2>4, SetFlagsOK
<1>5. CASE w \in Pair
  <2>1. SetW(s, w, v) = SetR(SetR(s, HighOf[w], x \div 256), LowOf[w], x % 256)
    BY <1>5, PairsAre DEF SetW, SetR, x
  <2>2. SetR(s, HighOf[w], x \div 256) \in Cpu
    BY <1>2, <1>5, PairsAre, SetROK
  <2> QED BY <1>2, <1>5, <2>1, <2>2, PairsAre, SetROK
<1> QED BY <1>3, <1>4, <1>5 DEF Pair

-----------------------------------------------------------------------------
(* The results of arithmetic: a byte or a word, and flags.                 *)

Result   == [v : Byte, f : SUBSET Flag]
Result16 == [v : Word, f : SUBSET Flag]

LEMMA PlaceIs ==
  ASSUME NEW i \in (0 .. 8) \cup {12, 15, 16}
  PROVE  Pow2[i] \in Int /\ Pow2[i] > 0
<1>1. \/ i = 0 \/ i = 1 \/ i = 2 \/ i = 3 \/ i = 4 \/ i = 5 \/ i = 6 \/ i = 7
      \/ i = 8 \/ i = 12 \/ i = 15 \/ i = 16
  OBVIOUS
<1> QED BY <1>1, Powers

LEMMA BitOK == ASSUME NEW v \in Int, NEW i \in (0 .. 8) \cup {12, 15, 16} PROVE Bit(v, i) \in {0, 1}
<1>1. Pow2[i] \in Int /\ Pow2[i] > 0
  BY PlaceIs
<1>2. v \div Pow2[i] \in Int
  BY <1>1
<1>3. ASSUME NEW x \in Int PROVE x % 2 \in {0, 1}
  OBVIOUS
<1> QED BY <1>2, <1>3 DEF Bit

LEMMA CarryOK ==
  ASSUME NEW a \in Int, NEW x \in Int, NEW z \in Int, NEW i \in (0 .. 8) \cup {12, 15, 16}
  PROVE  CarryInto(i, a, x, z) \in {0, 1}
<1>1. Bit(a, i) \in {0, 1} /\ Bit(x, i) \in {0, 1} /\ Bit(z, i) \in {0, 1}
  BY BitOK
<1> QED BY <1>1 DEF CarryInto

LEMMA HalfOK == ASSUME NEW a \in Int, NEW x \in Int, NEW z \in Int PROVE Half(a, x, z) \in SUBSET Flag
BY OnOK, FlagsAre DEF Half

LEMMA OverflowsOK == ASSUME NEW c \in {0, 1}, NEW d \in {0, 1} PROVE OVERFLOW_TABLE[2 * c + d + 1] \in SUBSET Flag
<1>1. OVERFLOW_TABLE[1] = {} /\ OVERFLOW_TABLE[2] = {"PV"} /\ OVERFLOW_TABLE[3] = {"PV"} /\ OVERFLOW_TABLE[4] = {}
  BY DEF OVERFLOW_TABLE
<1>2. 2 * c + d + 1 = 1 \/ 2 * c + d + 1 = 2 \/ 2 * c + d + 1 = 3 \/ 2 * c + d + 1 = 4
  OBVIOUS
<1> QED BY <1>1, <1>2, FlagsAre

LEMMA OverflowOK == ASSUME NEW a \in Int, NEW x \in Int, NEW z \in Int PROVE Overflow(a, x, z) \in SUBSET Flag
<1>1. CarryInto(8, a, x, z) \in {0, 1} /\ CarryInto(7, a, x, z) \in {0, 1}
  BY CarryOK
<1> QED BY <1>1, OverflowsOK DEF Overflow

LEMMA Overflow16OK == ASSUME NEW a \in Int, NEW x \in Int, NEW z \in Int PROVE Overflow16(a, x, z) \in SUBSET Flag
<1>1. CarryInto(16, a, x, z) \in {0, 1} /\ CarryInto(15, a, x, z) \in {0, 1}
  BY CarryOK
<1> QED BY <1>1, OverflowsOK DEF Overflow16

LEMMA CarryOfOK == ASSUME NEW f \in SUBSET Flag PROVE CarryOf(f) \in {0, 1}
BY DEF CarryOf

\* The flags of a byte and of a result.
LEMMA SumFlagsOK ==
  ASSUME NEW a \in Int, NEW x \in Int, NEW z \in Int
  PROVE  Half(a, x, z) \cup SZYX_FLAGS_TABLE[z % 256] \cup Overflow(a, x, z) \in SUBSET Flag
<1>1. SZYX_FLAGS_TABLE[z % 256] \in SUBSET Flag
  BY InByte, TablesOK
<1> QED BY <1>1, HalfOK, OverflowOK

LEMMA AddToOK == ASSUME NEW a \in Byte, NEW x \in Byte, NEW c \in {0, 1} PROVE AddTo(a, x, c) \in Result
<1> DEFINE z == a + x + c
<1>1. z \in Int /\ a \in Int /\ x \in Int
  BY ByteIs
<1> HIDE DEF z
<1>2. z % 256 \in Byte /\ On(Bit(z, 8), "C") \in SUBSET Flag
  BY <1>1, InByte, OnOK, FlagsAre
<1>3. Half(a, x, z) \cup SZYX_FLAGS_TABLE[z % 256] \cup Overflow(a, x, z) \in SUBSET Flag
  BY <1>1, SumFlagsOK
<1>4. AddTo(a, x, c) = [v |-> z % 256,
        f |-> Half(a, x, z) \cup SZYX_FLAGS_TABLE[z % 256] \cup Overflow(a, x, z) \cup On(Bit(z, 8), "C")]
  BY DEF AddTo, z
<1>5. Half(a, x, z) \cup SZYX_FLAGS_TABLE[z % 256] \cup Overflow(a, x, z) \cup On(Bit(z, 8), "C") \in SUBSET Flag
  BY <1>2, <1>3
<1> QED BY <1>2, <1>4, <1>5 DEF Result

LEMMA SubFromOK == ASSUME NEW a \in Byte, NEW x \in Byte, NEW c \in {0, 1} PROVE SubFrom(a, x, c) \in Result
<1> DEFINE z == a - x - c
           g == Half(a, x, z) \cup SZYX_FLAGS_TABLE[z % 256] \cup Overflow(a, x, z)
           k == On(CarryInto(8, a, x, z), "C")
<1>1. z \in Int /\ a \in Int /\ x \in Int
  BY ByteIs
<1>4. SubFrom(a, x, c) = [v |-> z % 256,
        f |-> {"N"} \cup Half(a, x, z) \cup SZYX_FLAGS_TABLE[z % 256] \cup Overflow(a, x, z) \cup k]
  BY DEF SubFrom
<1> HIDE DEF z
<1>2. z % 256 \in Byte /\ k \in SUBSET Flag
  BY <1>1, InByte, OnOK, FlagsAre
<1>3. g \in SUBSET Flag
  BY <1>1, SumFlagsOK
<1>5. {"N"} \cup Half(a, x, z) \cup SZYX_FLAGS_TABLE[z % 256] \cup Overflow(a, x, z) \cup k \in SUBSET Flag
  BY <1>2, <1>3, FlagsAre
<1> QED BY <1>2, <1>4, <1>5 DEF Result

LEMMA LogicOK ==
  ASSUME NEW a \in Byte, NEW x \in Byte
  PROVE  AND(a, x) \in Result /\ OR(a, x) \in Result /\ XOR(a, x) \in Result
<1>1. BitsOf[a] \in SUBSET (0 .. 7) /\ BitsOf[x] \in SUBSET (0 .. 7)
  BY BitsAre
<1>2. ASSUME NEW b \in SUBSET (0 .. 7) PROVE ByteOf[b] \in Byte /\ SZYXP_FLAGS_TABLE[ByteOf[b]] \in SUBSET Flag
  BY ByteOfIs, TablesOK
<1>3. AND(a, x) \in Result
  <2> DEFINE v == ByteOf[BitsOf[a] \cap BitsOf[x]]
  <2>1. v \in Byte /\ SZYXP_FLAGS_TABLE[v] \in SUBSET Flag
    BY <1>1, <1>2
  <2>2. AND(a, x) = [v |-> v, f |-> SZYXP_FLAGS_TABLE[v] \cup {"H"}]
    BY DEF AND
  <2> HIDE DEF v
  <2>3. SZYXP_FLAGS_TABLE[v] \cup {"H"} \in SUBSET Flag
    BY <2>1, FlagsAre
  <2> QED BY <2>1, <2>2, <2>3 DEF Result
<1>4. OR(a, x) \in Result
  <2> DEFINE v == ByteOf[BitsOf[a] \cup BitsOf[x]]
  <2>1. v \in Byte /\ SZYXP_FLAGS_TABLE[v] \in SUBSET Flag
    BY <1>1, <1>2
  <2>2. OR(a, x) = [v |-> v, f |-> SZYXP_FLAGS_TABLE[v]]
    BY DEF OR
  <2> HIDE DEF v
  <2> QED BY <2>1, <2>2 DEF Result
<1>5. XOR(a, x) \in Result
  <2> DEFINE v == ByteOf[(BitsOf[a] \ BitsOf[x]) \cup (BitsOf[x] \ BitsOf[a])]
  <2>1. v \in Byte /\ SZYXP_FLAGS_TABLE[v] \in SUBSET Flag
    BY <1>1, <1>2
  <2>2. XOR(a, x) = [v |-> v, f |-> SZYXP_FLAGS_TABLE[v]]
    BY DEF XOR
  <2> HIDE DEF v
  <2> QED BY <2>1, <2>2 DEF Result
<1> QED BY <1>3, <1>4, <1>5

LEMMA CPOK == ASSUME NEW a \in Byte, NEW x \in Byte PROVE CP(a, x) \in Result
<1>1. SubFrom(a, x, 0) \in Result /\ FlagsIn[x] \in SUBSET Flag
  BY SubFromOK, FlagsInOK
<1>2. (SubFrom(a, x, 0).f \ YX) \cup (FlagsIn[x] \cap YX) \in SUBSET Flag
  BY <1>1 DEF Result
<1> QED BY <1>2 DEF CP, Result

LEMMA AccumulateOK ==
  ASSUME NEW op \in ARITH8, NEW a \in Byte, NEW x \in Byte, NEW f \in SUBSET Flag
  PROVE  Accumulate(op, a, x, f) \in Result
<1>1. op \in {"ADD", "ADC", "SUB", "SBC", "AND", "XOR", "OR", "CP"}
  <2>1. PICK k \in 1 .. 8 : op = ALU_OPS[k]
    BY DEF ARITH8
  <2> QED BY <2>1 DEF ALU_OPS
<1>2. CarryOf(f) \in {0, 1}
  BY CarryOfOK
<1>3. CASE op = "ADD"
  <2>1. Accumulate(op, a, x, f) = AddTo(a, x, 0)
    BY <1>3 DEF Accumulate, ADD
  <2> QED BY <2>1, AddToOK
<1>4. CASE op = "ADC"
  <2>1. Accumulate(op, a, x, f) = AddTo(a, x, CarryOf(f))
    BY <1>4 DEF Accumulate, ADC
  <2> QED BY <1>2, <2>1, AddToOK
<1>5. CASE op = "SUB"
  <2>1. Accumulate(op, a, x, f) = SubFrom(a, x, 0)
    BY <1>5 DEF Accumulate, SUB
  <2> QED BY <2>1, SubFromOK
<1>6. CASE op = "SBC"
  <2>1. Accumulate(op, a, x, f) = SubFrom(a, x, CarryOf(f))
    BY <1>6 DEF Accumulate, SBC
  <2> QED BY <1>2, <2>1, SubFromOK
<1>7. CASE op = "AND"
  <2>1. Accumulate(op, a, x, f) = AND(a, x)
    BY <1>7 DEF Accumulate
  <2> QED BY <2>1, LogicOK
<1>8. CASE op = "OR"
  <2>1. Accumulate(op, a, x, f) = OR(a, x)
    BY <1>8 DEF Accumulate
  <2> QED BY <2>1, LogicOK
<1>9. CASE op = "XOR"
  <2>1. Accumulate(op, a, x, f) = XOR(a, x)
    BY <1>9 DEF Accumulate
  <2> QED BY <2>1, LogicOK
<1>10. CASE op = "CP"
  <2>1. Accumulate(op, a, x, f) = CP(a, x)
    BY <1>10 DEF Accumulate
  <2> QED BY <2>1, CPOK
<1> QED BY <1>1, <1>3, <1>4, <1>5, <1>6, <1>7, <1>8, <1>9, <1>10

LEMMA IncDecOK ==
  ASSUME NEW x \in Byte, NEW f \in SUBSET Flag
  PROVE  INC(x, f) \in Result /\ DEC(x, f) \in Result
<1>1. x \in Int /\ x + 1 \in Int /\ x - 1 \in Int /\ 0 \in Int
  BY ByteIs
<1>2. INC(x, f) \in Result
  <2> DEFINE z == x + 1
  <2>1. INC(x, f) = [v |-> z % 256,
          f |-> (f \cap {"C"}) \cup Half(x, 0, z) \cup SZYX_FLAGS_TABLE[z % 256] \cup Overflow(x, 0, z)]
    BY DEF INC
  <2>2. z \in Int
    BY <1>1
  <2> HIDE DEF z
  <2>3. Half(x, 0, z) \cup SZYX_FLAGS_TABLE[z % 256] \cup Overflow(x, 0, z) \in SUBSET Flag
    BY <1>1, <2>2, SumFlagsOK
  <2>4. (f \cap {"C"}) \cup Half(x, 0, z) \cup SZYX_FLAGS_TABLE[z % 256] \cup Overflow(x, 0, z) \in SUBSET Flag
    BY <2>3
  <2>5. z % 256 \in Byte
    BY <2>2, InByte
  <2> QED BY <2>1, <2>4, <2>5 DEF Result
<1>3. DEC(x, f) \in Result
  <2> DEFINE z == x - 1
  <2>1. DEC(x, f) = [v |-> z % 256,
          f |-> {"N"} \cup (f \cap {"C"}) \cup Half(x, 0, z) \cup SZYX_FLAGS_TABLE[z % 256]
                  \cup Overflow(x, 0, z)]
    BY DEF DEC
  <2>2. z \in Int
    BY <1>1
  <2> HIDE DEF z
  <2>3. Half(x, 0, z) \cup SZYX_FLAGS_TABLE[z % 256] \cup Overflow(x, 0, z) \in SUBSET Flag
    BY <1>1, <2>2, SumFlagsOK
  <2>4. {"N"} \cup (f \cap {"C"}) \cup Half(x, 0, z) \cup SZYX_FLAGS_TABLE[z % 256] \cup Overflow(x, 0, z)
          \in SUBSET Flag
    BY <2>3, FlagsAre
  <2>5. z % 256 \in Byte
    BY <2>2, InByte
  <2> QED BY <2>1, <2>4, <2>5 DEF Result
<1> QED BY <1>2, <1>3

LEMMA DAAOK == ASSUME NEW a \in Byte, NEW f \in SUBSET Flag PROVE DAA(a, f) \in Result
<1> DEFINE high == a > 153 \/ "C" \in f
           d    == (IF high THEN 96 ELSE 0) + (IF a % 16 > 9 \/ "H" \in f THEN 6 ELSE 0)
           w    == IF "N" \in f THEN a - d ELSE a + d
           v    == w % 256
           h    == On(CarryInto(4, a, 0, v), "H")
           c    == IF high THEN {"C"} ELSE {}
<1>1. DAA(a, f) = [v |-> v, f |-> SZYXP_FLAGS_TABLE[v] \cup h \cup (f \cap {"N"}) \cup c]
  BY DEF DAA
<1>2. c \in SUBSET Flag /\ h \in SUBSET Flag
  BY FlagsAre, OnOK
<1>3. w \in Int
  <2>1. d \in Int
    OBVIOUS
  <2> HIDE DEF d
  <2> QED BY <2>1, ByteIs
<1> HIDE DEF w, h, c
<1>4. v \in Byte
  BY <1>3, InByte
<1>5. SZYXP_FLAGS_TABLE[v] \in SUBSET Flag
  BY <1>4, TablesOK
<1> QED BY <1>1, <1>2, <1>4, <1>5 DEF Result

LEMMA NEGOK == ASSUME NEW a \in Byte PROVE NEG(a) \in Result
<1> DEFINE z == -a
           g == Half(a, 0, z) \cup SZYX_FLAGS_TABLE[z % 256] \cup Overflow(a, 0, z)
           k == On(CarryInto(8, a, 0, z), "C")
<1>1. NEG(a) = [v |-> z % 256,
        f |-> {"N"} \cup Half(a, 0, z) \cup SZYX_FLAGS_TABLE[z % 256] \cup Overflow(a, 0, z) \cup k]
  BY DEF NEG
<1>2. a \in Int /\ z \in Int /\ 0 \in Int
  BY ByteIs
<1> HIDE DEF z
<1>3. z % 256 \in Byte /\ k \in SUBSET Flag
  BY <1>2, InByte, OnOK, FlagsAre
<1>4. g \in SUBSET Flag
  BY <1>2, SumFlagsOK
<1>5. {"N"} \cup Half(a, 0, z) \cup SZYX_FLAGS_TABLE[z % 256] \cup Overflow(a, 0, z) \cup k \in SUBSET Flag
  BY <1>3, <1>4, FlagsAre
<1> QED BY <1>1, <1>3, <1>5 DEF Result

LEMMA RotatesOK ==
  ASSUME NEW a \in Byte, NEW c \in {0, 1}
  PROVE  /\ ((2 * a) % 256) + c \in Byte
         /\ a \div 2 + 128 * c \in Byte
<1>1. a \in Nat /\ a <= 255
  BY ByteIs
<1>2. a \div 2 \in Int /\ 0 <= a \div 2 /\ a \div 2 <= 127
  BY <1>1
<1>3. (2 * a) % 256 \in Int /\ 0 <= (2 * a) % 256 /\ (2 * a) % 256 <= 254
  BY <1>1
<1> QED BY <1>2, <1>3, IsByte

LEMMA AccumulatorOK ==
  ASSUME NEW op \in ACCUMULATOR, NEW a \in Byte, NEW f \in SUBSET Flag
  PROVE  Accumulator(op, a, f) \in Result
<1>1. /\ FlagsIn[a] \in SUBSET Flag /\ a \in Int
  BY FlagsInOK, ByteIs
<1>2. CASE op = "DAA"
  <2>1. Accumulator(op, a, f) = DAA(a, f)
    BY <1>2 DEF Accumulator
  <2> QED BY <2>1, DAAOK
<1>3. CASE op = "CPL"
  <2>1. Accumulator(op, a, f) = CPL(a, f)
    BY <1>3 DEF Accumulator
  <2>2. 255 - a \in Byte
    BY DEF Byte
  <2>3. FlagsIn[255 - a] \in SUBSET Flag
    BY <2>2, FlagsInOK
  <2>4. f \cap (SZPV \cup {"C"}) \subseteq Flag /\ FlagsIn[255 - a] \cap YX \subseteq Flag
    BY <2>3
  <2>5. {"H", "N"} \subseteq Flag
    BY FlagsAre
  <2>6. (f \cap (SZPV \cup {"C"})) \cup (FlagsIn[255 - a] \cap YX) \cup {"H", "N"} \in SUBSET Flag
    BY <2>4, <2>5
  <2> QED BY <2>1, <2>2, <2>6 DEF CPL, Result
<1>4. CASE op = "NEG"
  <2>1. Accumulator(op, a, f) = NEG(a)
    BY <1>4 DEF Accumulator
  <2> QED BY <2>1, NEGOK
<1>5. CASE op = "CCF"
  <2>1. Accumulator(op, a, f) = CCF(a, f)
    BY <1>5 DEF Accumulator
  <2>2. (f \cap SZPV) \cup (FlagsIn[a] \cap YX) \cup (IF "C" \in f THEN {"H"} ELSE {"C"}) \in SUBSET Flag
    BY <1>1, FlagsAre
  <2> QED BY <2>1, <2>2 DEF CCF, Result
<1>6. CASE op = "SCF"
  <2>1. Accumulator(op, a, f) = SCF(a, f)
    BY <1>6 DEF Accumulator
  <2>2. (f \cap SZPV) \cup (FlagsIn[a] \cap YX) \cup {"C"} \in SUBSET Flag
    BY <1>1, FlagsAre
  <2> QED BY <2>1, <2>2 DEF SCF, Result
<1>7. CASE op = "RLCA"
  <2> DEFINE v == ((2 * a) % 256) + Bit(a, 7)
  <2>1. Accumulator(op, a, f) = [v |-> v, f |-> (f \cap SZPV) \cup (FlagsIn[v] \cap {"Y", "X", "C"})]
    BY <1>7 DEF Accumulator, RLCA
  <2>2. v \in Byte
    <3>1. Bit(a, 7) \in {0, 1}
      BY <1>1, BitOK
    <3> HIDE DEF v
    <3>2. ((2 * a) % 256) + Bit(a, 7) \in Byte
      BY <3>1, RotatesOK
    <3> QED BY <3>2 DEF v
  <2> HIDE DEF v
  <2>3. (f \cap SZPV) \cup (FlagsIn[v] \cap {"Y", "X", "C"}) \in SUBSET Flag
    BY <2>2, FlagsInOK
  <2> QED BY <2>1, <2>2, <2>3 DEF Result
<1>8. CASE op = "RLA"
  <2> DEFINE v == (2 * a) % 256
             w == v + CarryOf(f)
  <2>1. Accumulator(op, a, f) = [v |-> w, f |-> (f \cap SZPV) \cup (FlagsIn[v] \cap YX) \cup On(Bit(a, 7), "C")]
    BY <1>8 DEF Accumulator, RLA
  <2>2. v \in Byte /\ w \in Byte
    <3>1. v + 0 \in Byte /\ v + CarryOf(f) \in Byte
      BY CarryOfOK, RotatesOK
    <3>2. v \in Int
      BY <1>1
    <3> QED BY <3>1, <3>2
  <2> HIDE DEF v, w
  <2>3. FlagsIn[v] \in SUBSET Flag /\ On(Bit(a, 7), "C") \in SUBSET Flag
    BY <2>2, FlagsInOK, FlagsAre, OnOK
  <2>4. (f \cap SZPV) \cup (FlagsIn[v] \cap YX) \cup On(Bit(a, 7), "C") \in SUBSET Flag
    BY <2>3
  <2> QED BY <2>1, <2>2, <2>4 DEF Result
<1>9. CASE op = "RRCA"
  <2> DEFINE v == a \div 2 + 128 * Bit(a, 0)
  <2>1. Accumulator(op, a, f) = [v |-> v, f |-> (f \cap SZPV) \cup (FlagsIn[v] \cap YX) \cup On(Bit(a, 0), "C")]
    BY <1>9 DEF Accumulator, RRCA
  <2>2. v \in Byte
    <3>1. Bit(a, 0) \in {0, 1}
      BY <1>1, BitOK
    <3> HIDE DEF v
    <3>2. a \div 2 + 128 * Bit(a, 0) \in Byte
      BY <3>1, RotatesOK
    <3> QED BY <3>2 DEF v
  <2> HIDE DEF v
  <2>3. FlagsIn[v] \in SUBSET Flag /\ On(Bit(a, 0), "C") \in SUBSET Flag
    BY <2>2, FlagsInOK, FlagsAre, OnOK
  <2>4. (f \cap SZPV) \cup (FlagsIn[v] \cap YX) \cup On(Bit(a, 0), "C") \in SUBSET Flag
    BY <2>3
  <2> QED BY <2>1, <2>2, <2>4 DEF Result
<1>10. CASE op = "RRA"
  <2> DEFINE v == a \div 2 + 128 * CarryOf(f)
  <2>1. Accumulator(op, a, f) = [v |-> v, f |-> (f \cap SZPV) \cup (FlagsIn[v] \cap YX) \cup On(Bit(a, 0), "C")]
    BY <1>10 DEF Accumulator, RRA
  <2>2. v \in Byte
    <3>1. CarryOf(f) \in {0, 1}
      BY CarryOfOK
    <3> HIDE DEF v
    <3>2. a \div 2 + 128 * CarryOf(f) \in Byte
      BY <3>1, RotatesOK
    <3> QED BY <3>2 DEF v
  <2> HIDE DEF v
  <2>3. FlagsIn[v] \in SUBSET Flag /\ On(Bit(a, 0), "C") \in SUBSET Flag
    BY <2>2, FlagsInOK, FlagsAre, OnOK
  <2>4. (f \cap SZPV) \cup (FlagsIn[v] \cap YX) \cup On(Bit(a, 0), "C") \in SUBSET Flag
    BY <2>3
  <2> QED BY <2>1, <2>2, <2>4 DEF Result
<1> QED BY <1>2, <1>3, <1>4, <1>5, <1>6, <1>7, <1>8, <1>9, <1>10 DEF ACCUMULATOR

LEMMA HighOK == ASSUME NEW z \in Int PROVE High(z) \in SUBSET Flag
<1>1. z \div 256 \in Int
  OBVIOUS
<1>2. (z \div 256) % 256 \in Byte
  BY <1>1, InByte
<1> QED BY <1>2, FlagsInOK DEF High

LEMMA SZYX16OK == ASSUME NEW z \in Int PROVE SZYX16(z) \in SUBSET Flag
BY HighOK, FlagsAre DEF SZYX16

LEMMA WordSumsOK ==
  ASSUME NEW x \in Word, NEW y \in Word, NEW f \in SUBSET Flag
  PROVE  ADD_HL(x, y, f) \in Result16 /\ ADC_HL(x, y, f) \in Result16 /\ SBC_HL(x, y, f) \in Result16
<1>1. x \in Int /\ y \in Int /\ CarryOf(f) \in Int
  BY WordIs, CarryOfOK
<1>2. ADD_HL(x, y, f) \in Result16
  <2> DEFINE z == x + y
             h == On(CarryInto(12, x, y, z), "H")
             c == On(CarryInto(16, x, y, z), "C")
  <2>1. ADD_HL(x, y, f) = [v |-> z % 65536, f |-> (f \cap SZPV) \cup (High(z) \cap YX) \cup h \cup c]
    BY DEF ADD_HL
  <2>2. h \in SUBSET Flag /\ c \in SUBSET Flag /\ z \in Int
    BY <1>1, FlagsAre, OnOK
  <2> HIDE DEF z, h, c
  <2>3. z % 65536 \in Word /\ High(z) \in SUBSET Flag
    BY <2>2, InWord, HighOK
  <2>4. (f \cap SZPV) \cup (High(z) \cap YX) \cup h \cup c \in SUBSET Flag
    BY <2>2, <2>3
  <2> QED BY <2>1, <2>3, <2>4 DEF Result16
<1>3. ADC_HL(x, y, f) \in Result16
  <2> DEFINE z == x + y + CarryOf(f)
             h == On(CarryInto(12, x, y, z), "H")
             c == On(Bit(z, 16), "C")
             o == Overflow16(x, y, z)
  <2>1. ADC_HL(x, y, f) = [v |-> z % 65536, f |-> SZYX16(z) \cup h \cup o \cup c]
    BY DEF ADC_HL
  <2>2. h \in SUBSET Flag /\ c \in SUBSET Flag /\ z \in Int
    BY <1>1, FlagsAre, OnOK
  <2> HIDE DEF z, h, c
  <2>3. z % 65536 \in Word /\ SZYX16(z) \in SUBSET Flag /\ o \in SUBSET Flag
    BY <1>1, <2>2, InWord, SZYX16OK, Overflow16OK
  <2> HIDE DEF o
  <2>4. SZYX16(z) \cup h \cup o \cup c \in SUBSET Flag
    BY <2>2, <2>3
  <2> QED BY <2>1, <2>3, <2>4 DEF Result16
<1>4. SBC_HL(x, y, f) \in Result16
  <2> DEFINE z == x - y - CarryOf(f)
             h == On(CarryInto(12, x, y, z), "H")
             c == On(CarryInto(16, x, y, z), "C")
             o == Overflow16(x, y, z)
  <2>1. SBC_HL(x, y, f) = [v |-> z % 65536, f |-> {"N"} \cup SZYX16(z) \cup h \cup o \cup c]
    BY DEF SBC_HL
  <2>2. h \in SUBSET Flag /\ c \in SUBSET Flag /\ z \in Int
    BY <1>1, FlagsAre, OnOK
  <2> HIDE DEF z, h, c
  <2>3. z % 65536 \in Word /\ SZYX16(z) \in SUBSET Flag /\ o \in SUBSET Flag
    BY <1>1, <2>2, InWord, SZYX16OK, Overflow16OK
  <2> HIDE DEF o
  <2>4. {"N"} \cup SZYX16(z) \cup h \cup o \cup c \in SUBSET Flag
    <3>1. "N" \in Flag
      BY FlagsAre
    <3> QED BY <2>2, <2>3, <3>1
  <2> QED BY <2>1, <2>3, <2>4 DEF Result16
<1> QED BY <1>2, <1>3, <1>4

LEMMA ShiftOK ==
  ASSUME NEW op \in SHIFTS, NEW x \in Byte, NEW f \in SUBSET Flag
  PROVE  Shift(op, x, f) \in Result
<1> DEFINE left == op \in {"RLC", "RL", "SLA", "SLL"}
           out  == IF left THEN Bit(x, 7) ELSE Bit(x, 0)
           in   == CASE op = "RLC" \/ op = "RRC" -> out
                     [] op = "RL" \/ op = "RR"   -> CarryOf(f)
                     [] op = "SLA" \/ op = "SRL" -> 0
                     [] op = "SLL"               -> 1
                     [] op = "SRA"               -> Bit(x, 7)
           v    == IF left THEN ((2 * x) % 256) + in ELSE x \div 2 + 128 * in
<1>1. Shift(op, x, f) = [v |-> v, f |-> SZYXP_FLAGS_TABLE[v] \cup On(out, "C")]
  BY DEF Shift
<1>2. op \in {"RLC", "RRC", "RL", "RR", "SLA", "SRA", "SLL", "SRL"}
  <2>1. PICK k \in 1 .. 8 : op = SHIFT_OPS[k]
    BY DEF SHIFTS
  <2> QED BY <2>1 DEF SHIFT_OPS
<1>3. Bit(x, 7) \in {0, 1} /\ Bit(x, 0) \in {0, 1} /\ CarryOf(f) \in {0, 1}
  BY ByteIs, BitOK, CarryOfOK
<1>4. out \in {0, 1}
  BY <1>3
<1> HIDE DEF out
<1>5. in \in {0, 1}
  BY <1>2, <1>3, <1>4
<1> HIDE DEF in, left
<1>6. v \in Byte
  BY <1>5, RotatesOK
<1> HIDE DEF v
<1>7. SZYXP_FLAGS_TABLE[v] \in SUBSET Flag /\ On(out, "C") \in SUBSET Flag
  BY <1>6, TablesOK, OnOK, FlagsAre
<1>8. SZYXP_FLAGS_TABLE[v] \cup On(out, "C") \in SUBSET Flag
  BY <1>7
<1> QED BY <1>1, <1>6, <1>8 DEF Result

LEMMA TestBitOK ==
  ASSUME NEW b, NEW x, NEW y \in Byte, NEW f \in SUBSET Flag
  PROVE  TestBit(b, x, y, f) \in SUBSET Flag
<1>1. FlagsIn[y] \in SUBSET Flag
  BY FlagsInOK
<1> QED BY <1>1, FlagsAre DEF TestBit

LEMMA CopyFlagsOK ==
  ASSUME NEW n, NEW a, NEW bc, NEW f \in SUBSET Flag
  PROVE  CopyFlags(n, a, bc, f) \in SUBSET Flag
<1>1. On(Bit(n + a, 3), "X") \in SUBSET Flag /\ On(Bit(n + a, 1), "Y") \in SUBSET Flag
  BY OnOK, FlagsAre
<1> QED BY <1>1, FlagsAre DEF CopyFlags

LEMMA SearchFlagsOK ==
  ASSUME NEW n \in Byte, NEW a \in Byte, NEW bc, NEW f \in SUBSET Flag
  PROVE  SearchFlags(n, a, bc, f) \in SUBSET Flag
<1> DEFINE z == a - n
           h == CarryInto(4, a, n, z)
           m == z - h
           one == On(h, "H")
           two == On(Bit(m, 3), "X")
           three == On(Bit(m, 1), "Y")
           four == SZYX_FLAGS_TABLE[z % 256]
<1>1. SearchFlags(n, a, bc, f) = one \cup two \cup three \cup (four \cap {"S", "Z"})
        \cup (IF bc # 0 THEN {"PV"} ELSE {}) \cup {"N"} \cup (f \cap {"C"})
  BY DEF SearchFlags
<1>2. one \in SUBSET Flag /\ two \in SUBSET Flag /\ three \in SUBSET Flag
  BY OnOK, FlagsAre
<1>3. four \in SUBSET Flag
  <2>1. z \in Int
    BY ByteIs
  <2>2. z % 256 \in Byte
    BY <2>1, InByte
  <2> QED BY <2>2, TablesOK
<1> HIDE DEF one, two, three, four
<1> QED BY <1>1, <1>2, <1>3, FlagsAre

LEMMA WithBitOK ==
  ASSUME NEW op, NEW b \in 0 .. 7, NEW x \in Byte
  PROVE  WithBit(op, b, x) \in Byte
<1>1. BitsOf[x] \cup {b} \in SUBSET (0 .. 7) /\ BitsOf[x] \ {b} \in SUBSET (0 .. 7)
  BY BitsAre
<1> QED BY <1>1, ByteOfIs DEF WithBit

-----------------------------------------------------------------------------
(* Operands: the fields of an opcode, registers, constants and memory.     *)

Index == {"HL", "IX", "IY"}

LEMMA Fields ==
  ASSUME NEW opcode \in Byte
  PROVE  /\ Y(opcode) \in 0 .. 7 /\ Z(opcode) \in 0 .. 7
         /\ P(opcode) \in 0 .. 3 /\ Q(opcode) \in 0 .. 3
BY DEF Byte, Y, Z, P, Q

LEMMA RegisterTables ==
  ASSUME NEW p \in Index
  PROVE  /\ R(p, 0) \in ByteRegister /\ R(p, 1) \in ByteRegister /\ R(p, 2) \in ByteRegister
         /\ R(p, 3) \in ByteRegister /\ R(p, 4) \in ByteRegister /\ R(p, 5) \in ByteRegister
         /\ R(p, 7) \in ByteRegister
<1>1. CASE p = "HL"
  BY <1>1 DEF R, register_table, ByteRegister
<1>2. CASE p = "IX"
  BY <1>2 DEF R, register_table, ByteRegister
<1>3. CASE p = "IY"
  BY <1>3 DEF R, register_table, ByteRegister
<1> QED BY <1>1, <1>2, <1>3 DEF Index

LEMMA RIs == ASSUME NEW p \in Index, NEW code \in 0 .. 7, code # 6 PROVE R(p, code) \in ByteRegister
<1>1. code = 0 \/ code = 1 \/ code = 2 \/ code = 3 \/ code = 4 \/ code = 5 \/ code = 7
  OBVIOUS
<1> QED BY <1>1, RegisterTables

LEMMA WordTables ==
  ASSUME NEW p \in Index, NEW code \in 0 .. 3
  PROVE  RR(p, code) \in WordRegister /\ SS(p, code) \in WordRegister
<1>1. code = 0 \/ code = 1 \/ code = 2 \/ code = 3
  OBVIOUS
<1>2. p \in WordRegister
  BY DEF Index, WordRegister
<1>3. /\ RR(p, 0) = "BC" /\ RR(p, 1) = "DE" /\ RR(p, 2) = p /\ RR(p, 3) = "SP"
      /\ SS(p, 0) = "BC" /\ SS(p, 1) = "DE" /\ SS(p, 2) = p /\ SS(p, 3) = "AF"
  BY DEF RR, SS
<1> QED BY <1>1, <1>2, <1>3 DEF WordRegister

LEMMA IndexIsWord == Index \subseteq WordRegister /\ {"HL", "BC", "DE", "SP", "AF"} \subseteq WordRegister
BY DEF Index, WordRegister

LEMMA NamesAre == {"A", "B", "C", "D", "E", "H", "L"} \subseteq ByteRegister
BY DEF ByteRegister

LEMMA IndexIsPair == Index \subseteq Pair
BY DEF Index, Pair, WordRegister

LEMMA SetVFOK ==
  ASSUME NEW s \in Cpu, NEW name \in ByteRegister, NEW u \in Result
  PROVE  SetVF(s, name, u) \in Cpu
<1>1. u.v \in Byte /\ u.f \in SUBSET Flag
  BY DEF Result
<1>2. SetVF(s, name, u) = [SetR(s, name, u.v) EXCEPT !.F = u.f]
  BY DEF SetVF, SetR
<1>3. SetR(s, name, u.v) \in Cpu
  BY <1>1, SetROK
<1> QED BY <1>1, <1>2, <1>3, SetFlagsOK

LEMMA PcIs == ASSUME NEW s \in Cpu PROVE s.pc \in Int /\ s.SP \in Int
<1>1. s.pc \in Word /\ s.SP \in Word
  BY FieldsAre
<1> QED BY <1>1, WordIs

LEMMA ConstantsOK == ASSUME NEW s \in Cpu PROVE N(s) \in Byte /\ NN(s) \in Word
BY PcIs, ReadByteOK, ReadWordOK DEF N, NN

LEMMA PastOK == ASSUME NEW s \in Cpu PROVE PastN(s) \in Cpu /\ PastNN(s) \in Cpu
<1>1. s.pc + 1 \in Int /\ s.pc + 2 \in Int
  BY PcIs
<1>2. Jump(s, s.pc + 1) \in Cpu /\ Jump(s, s.pc + 2) \in Cpu
  BY <1>1, JumpOK
<1> QED BY <1>2, CyclesOK DEF PastN, PastNN

LEMMA LoadOK ==
  ASSUME NEW s \in Cpu, NEW name \in ByteRegister, NEW a \in Int PROVE Load(s, name, a) \in Cpu
<1>1. SetR(s, name, ReadByte(s, a)) \in Cpu
  BY ReadByteOK, SetROK
<1> QED BY <1>1, CyclesOK DEF Load

LEMMA StoreOK == ASSUME NEW s \in Cpu, NEW a \in Int, NEW v \in Int PROVE Store(s, a, v) \in Cpu
<1>1. WriteByte(s, a, v) \in Cpu
  BY WriteByteOK
<1> QED BY <1>1, CyclesOK DEF Store

LEMMA LoadWOK ==
  ASSUME NEW s \in Cpu, NEW w \in WordRegister, NEW a \in Int PROVE LoadW(s, w, a) \in Cpu
<1>1. ReadWord(s, a) \in Int
  BY ReadWordOK, WordIs
<1>2. SetW(s, w, ReadWord(s, a)) \in Cpu
  BY <1>1, SetWOK
<1> QED BY <1>2, CyclesOK DEF LoadW

LEMMA StoreWOK == ASSUME NEW s \in Cpu, NEW a \in Int, NEW v \in Int PROVE StoreW(s, a, v) \in Cpu
<1>1. WriteWord(s, a, v) \in Cpu
  BY WriteWordOK
<1> QED BY <1>1, CyclesOK DEF StoreW

LEMMA GetWInt == ASSUME NEW s \in Cpu, NEW w \in WordRegister PROVE GetW(s, w) \in Int
BY GetWOK, WordIs

LEMMA SignedOK == ASSUME NEW v \in Byte PROVE Signed(v) \in -128 .. 127
BY DEF Byte, Signed

LEMMA AddressIs == ASSUME NEW s \in Cpu, NEW p \in Index PROVE Address(s, p) \in Int
<1>1. GetW(s, "HL") \in Int /\ GetW(s, p) \in Int
  BY IndexIsWord, GetWInt
<1>2. Signed(N(s)) \in Int
  BY ConstantsOK, SignedOK
<1> QED BY <1>1, <1>2 DEF Address

LEMMA PastAddressOK == ASSUME NEW s \in Cpu, NEW p \in Index PROVE PastAddress(s, p) \in Cpu
<1>1. Cycles(PastN(s), 5) \in Cpu
  BY PastOK, CyclesOK
<1> QED BY <1>1 DEF PastAddress

LEMMA PushOK == ASSUME NEW s \in Cpu, NEW v \in Int PROVE PUSH(s, v) \in Cpu
<1>1. s.SP - 2 \in Int
  BY PcIs
<1>2. SetW(s, "SP", s.SP - 2) \in Cpu
  BY <1>1, SetWOK, IndexIsWord
<1> QED BY <1>1, <1>2, StoreWOK DEF PUSH

LEMMA PoppedOK == ASSUME NEW s \in Cpu PROVE Popped(s) \in Cpu
<1>1. s.SP + 2 \in Int
  BY PcIs
<1>2. Cycles(s, 6) \in Cpu
  BY CyclesOK
<1> QED BY <1>1, <1>2, SetWOK, IndexIsWord DEF Popped

LEMMA PopOK == ASSUME NEW s \in Cpu, NEW w \in WordRegister PROVE POP(s, w) \in Cpu /\ POP_PC(s) \in Cpu
<1>1. ReadWord(s, s.SP) \in Int
  BY PcIs, ReadWordOK, WordIs
<1> QED BY <1>1, PoppedOK, SetWOK, JumpOK DEF POP, POP_PC

-----------------------------------------------------------------------------
(* The instructions in the tables: which forms an operation has, and that  *)
(* a register form never names the memory operand.                         *)

ALU    == {"ADD", "ADC", "SUB", "SBC", "AND", "XOR", "OR", "CP"}
ROTATE == {"RLC", "RRC", "RL", "RR", "SLA", "SRA", "SLL", "SRL"}

LEMMA AluIs == ARITH8 = ALU
<1>1. \A k \in 1 .. 8 : k = 1 \/ k = 2 \/ k = 3 \/ k = 4 \/ k = 5 \/ k = 6 \/ k = 7 \/ k = 8
  OBVIOUS
<1>2. /\ ALU_OPS[1] = "ADD" /\ ALU_OPS[2] = "ADC" /\ ALU_OPS[3] = "SUB" /\ ALU_OPS[4] = "SBC"
      /\ ALU_OPS[5] = "AND" /\ ALU_OPS[6] = "XOR" /\ ALU_OPS[7] = "OR" /\ ALU_OPS[8] = "CP"
  BY DEF ALU_OPS
<1>3. ARITH8 \subseteq ALU
  BY <1>1, <1>2 DEF ARITH8, ALU
<1>4. ALU \subseteq ARITH8
  BY <1>2 DEF ARITH8, ALU
<1> QED BY <1>3, <1>4

LEMMA ShiftsAre == SHIFTS = ROTATE
<1>1. \A k \in 1 .. 8 : k = 1 \/ k = 2 \/ k = 3 \/ k = 4 \/ k = 5 \/ k = 6 \/ k = 7 \/ k = 8
  OBVIOUS
<1>2. /\ SHIFT_OPS[1] = "RLC" /\ SHIFT_OPS[2] = "RRC" /\ SHIFT_OPS[3] = "RL" /\ SHIFT_OPS[4] = "RR"
      /\ SHIFT_OPS[5] = "SLA" /\ SHIFT_OPS[6] = "SRA" /\ SHIFT_OPS[7] = "SLL" /\ SHIFT_OPS[8] = "SRL"
  BY DEF SHIFT_OPS
<1>3. SHIFTS \subseteq ROTATE
  BY <1>1, <1>2 DEF SHIFTS, ROTATE
<1>4. ROTATE \subseteq SHIFTS
  BY <1>2 DEF SHIFTS, ROTATE
<1> QED BY <1>3, <1>4

PREFIXES == {"CB_PREFIX", "DD_PREFIX", "ED_PREFIX", "FD_PREFIX"}
REPEATED == {"LDIR_LDDR", "CPIR_CPDR"}
EDSUMS   == {"ADC_HL_RR", "SBC_HL_RR"}

LoadForm(y, z, ins) ==
  \/ ins = I("LD_R", "R") /\ y # 6 /\ z # 6
  \/ ins = I("LD_N", "R") /\ y # 6
  \/ ins = I("LD_R", "INDIRECT_HL") /\ y # 6
  \/ ins = I("LD_INDIRECT_HL", "R") /\ z # 6
  \/ ins = I("LD_N", "INDIRECT_HL")
  \/ ins.op = "LD_A" /\ ins.form \in {"BC", "DE", "NN", "TO_BC", "TO_DE", "TO_NN"}
  \/ ins.op = "LD_A_I_LD_A_R"
  \/ ins.op = "LD_I_A_LD_R_A"

LoadWordForm(ins) ==
  \/ ins \in {I("LD_RR", "NN"), I("LD_RR", "INDIRECT_NN"), I("LD_RR", "TO_INDIRECT_NN"),
              I("LD_HL", "NN"), I("LD_HL", "TO_NN")}
  \/ ins.op \in {"LD_SP_HL", "PUSH_SS", "POP_SS"}

OTHERS == EXCHANGE \cup BLOCK_ONCE \cup ACCUMULATOR \cup ARITH16 \cup {"RLD_RRD"} \cup JUMP
            \cup CALL_RETURN \cup INTERRUPTS \cup {"IM_N"} \cup NOTHING \cup {"HALT"} \cup PORTS

KnownIns(y, z, ins) ==
  \/ ins.op \in LOAD8 /\ LoadForm(y, z, ins)
  \/ ins.op \in LOAD16 /\ LoadWordForm(ins)
  \/ ins.op \in ALU /\ ((ins.form = "R" /\ z # 6) \/ ins.form \in {"N", "INDIRECT_HL"})
  \/ ins.op \in INC_DEC /\ ((ins.form = "R" /\ y # 6) \/ ins.form = "INDIRECT_HL")
  \/ ins.op \in ROTATE \cup BITS /\ ((ins.form = "R" /\ z # 6) \/ ins.form = "INDIRECT_HL")
  \/ ins.op \in OTHERS /\ ins.form = ""
  \/ ins.op \in PREFIXES \cup REPEATED

LEMMA Eight == ASSUME NEW y \in 0 .. 7
               PROVE  y = 0 \/ y = 1 \/ y = 2 \/ y = 3 \/ y = 4 \/ y = 5 \/ y = 6 \/ y = 7
OBVIOUS

LEMMA KnownOther ==
  ASSUME NEW y, NEW z, NEW ins, ins.op \in OTHERS, ins.form = ""
  PROVE  KnownIns(y, z, ins) /\ ins.op \notin PREFIXES \cup REPEATED
<1>1. KnownIns(y, z, ins)
  BY DEF KnownIns
<1>2. ins.op \notin PREFIXES \cup REPEATED
  BY DEF PREFIXES, REPEATED, OTHERS, EXCHANGE, BLOCK_ONCE, ACCUMULATOR, ARITH16, JUMP, CALL_RETURN,
         INTERRUPTS, NOTHING, PORTS
<1> QED BY <1>1, <1>2

LEMMA KnownPlain ==
  ASSUME NEW y, NEW z, NEW ins, ins.op \in OTHERS \ EDSUMS, ins.form = ""
  PROVE  KnownIns(y, z, ins) /\ ins.op \notin PREFIXES \cup REPEATED \cup EDSUMS
BY KnownOther

LEMMA KnownLoad ==
  ASSUME NEW y, NEW z, NEW ins, LoadForm(y, z, ins)
  PROVE  KnownIns(y, z, ins) /\ ins.op \notin PREFIXES \cup REPEATED \cup EDSUMS
<1>1. ins.op \in LOAD8
  BY DEF LoadForm, LOAD8, I
<1>2. ins.op \notin PREFIXES \cup REPEATED \cup EDSUMS
  BY <1>1 DEF PREFIXES, REPEATED, EDSUMS, LOAD8
<1> QED BY <1>1, <1>2 DEF KnownIns

LEMMA KnownLoadWord ==
  ASSUME NEW y, NEW z, NEW ins, LoadWordForm(ins)
  PROVE  KnownIns(y, z, ins) /\ ins.op \notin PREFIXES \cup REPEATED \cup EDSUMS
<1>1. ins.op \in LOAD16
  BY DEF LoadWordForm, LOAD16, I
<1>2. ins.op \notin PREFIXES \cup REPEATED \cup EDSUMS
  BY <1>1 DEF PREFIXES, REPEATED, EDSUMS, LOAD16
<1> QED BY <1>1, <1>2 DEF KnownIns

LEMMA KnownAlu ==
  ASSUME NEW y, NEW z, NEW ins, ins.op \in ALU, ins.form = Form(z) \/ ins.form = "N"
  PROVE  KnownIns(y, z, ins) /\ ins.op \notin PREFIXES \cup REPEATED \cup EDSUMS
<1>1. (ins.form = "R" /\ z # 6) \/ ins.form \in {"N", "INDIRECT_HL"}
  BY DEF Form, INDIRECT_HL
<1>2. ins.op \notin PREFIXES \cup REPEATED \cup EDSUMS
  BY DEF PREFIXES, REPEATED, EDSUMS, ALU
<1> QED BY <1>1, <1>2 DEF KnownIns

LEMMA KnownIncDec ==
  ASSUME NEW y, NEW z, NEW ins, ins.op \in INC_DEC, ins.form = Form(y)
  PROVE  KnownIns(y, z, ins) /\ ins.op \notin PREFIXES \cup REPEATED \cup EDSUMS
<1>1. (ins.form = "R" /\ y # 6) \/ ins.form = "INDIRECT_HL"
  BY DEF Form, INDIRECT_HL
<1>2. ins.op \notin PREFIXES \cup REPEATED \cup EDSUMS
  BY DEF PREFIXES, REPEATED, EDSUMS, INC_DEC
<1> QED BY <1>1, <1>2 DEF KnownIns

LEMMA PlainIs == ASSUME NEW op PROVE Plain(op).op = op /\ Plain(op).form = ""
BY DEF Plain, I

LEMMA IIs == ASSUME NEW op, NEW form PROVE I(op, form).op = op /\ I(op, form).form = form
BY DEF I

LEMMA FirstQuarterOK ==
  ASSUME NEW y \in 0 .. 7, NEW z \in 0 .. 7
  PROVE  KnownIns(y, z, FirstQuarter(y, z)) /\ FirstQuarter(y, z).op \notin PREFIXES \cup REPEATED \cup EDSUMS
<1>1. CASE z = 0
  <2>1. /\ FirstQuarter(0, 0) = Plain("NOP")
        /\ FirstQuarter(1, 0) = Plain("EX_AF_AF_PRIME")
        /\ FirstQuarter(2, 0) = Plain("DJNZ_E")
        /\ FirstQuarter(3, 0) = Plain("JR_E")
        /\ FirstQuarter(4, 0) = Plain("JR_DD_E")
        /\ FirstQuarter(5, 0) = Plain("JR_DD_E")
        /\ FirstQuarter(6, 0) = Plain("JR_DD_E")
        /\ FirstQuarter(7, 0) = Plain("JR_DD_E")
    BY DEF FirstQuarter
  <2>2. \/ FirstQuarter(y, z) = Plain("NOP")
        \/ FirstQuarter(y, z) = Plain("EX_AF_AF_PRIME")
        \/ FirstQuarter(y, z) = Plain("DJNZ_E")
        \/ FirstQuarter(y, z) = Plain("JR_E")
        \/ FirstQuarter(y, z) = Plain("JR_DD_E")
    BY <1>1, <2>1, Eight
  <2>3. CASE FirstQuarter(y, z) = Plain("NOP") \/ FirstQuarter(y, z) = Plain("EX_AF_AF_PRIME") \/ FirstQuarter(y, z) = Plain("DJNZ_E") \/ FirstQuarter(y, z) = Plain("JR_E") \/ FirstQuarter(y, z) = Plain("JR_DD_E")
    <3>1. FirstQuarter(y, z).op \in {"DJNZ_E", "EX_AF_AF_PRIME", "JR_DD_E", "JR_E", "NOP"} /\ FirstQuarter(y, z).form = ""
      BY <2>3, PlainIs
    <3>2. FirstQuarter(y, z).op \in OTHERS \ EDSUMS
      BY <3>1 DEF EDSUMS, OTHERS, EXCHANGE, ACCUMULATOR, ARITH16, JUMP, CALL_RETURN, INTERRUPTS, NOTHING, PORTS
    <3> QED BY <3>1, <3>2, KnownPlain
  <2> QED BY <2>2, <2>3
<1>2. CASE z = 1
  <2>1. /\ FirstQuarter(0, 1) = I("LD_RR", "NN")
        /\ FirstQuarter(1, 1) = Plain("ADD_HL_RR")
        /\ FirstQuarter(2, 1) = I("LD_RR", "NN")
        /\ FirstQuarter(3, 1) = Plain("ADD_HL_RR")
        /\ FirstQuarter(4, 1) = I("LD_RR", "NN")
        /\ FirstQuarter(5, 1) = Plain("ADD_HL_RR")
        /\ FirstQuarter(6, 1) = I("LD_RR", "NN")
        /\ FirstQuarter(7, 1) = Plain("ADD_HL_RR")
    BY DEF FirstQuarter
  <2>2. \/ FirstQuarter(y, z) = I("LD_RR", "NN")
        \/ FirstQuarter(y, z) = Plain("ADD_HL_RR")
    BY <1>2, <2>1, Eight
  <2>3. CASE FirstQuarter(y, z) = I("LD_RR", "NN")
    <3>1. LoadWordForm(FirstQuarter(y, z))
      BY <2>3, PlainIs DEF LoadWordForm
    <3> QED BY <3>1, KnownLoadWord
  <2>4. CASE FirstQuarter(y, z) = Plain("ADD_HL_RR")
    <3>1. FirstQuarter(y, z).op \in {"ADD_HL_RR"} /\ FirstQuarter(y, z).form = ""
      BY <2>4, PlainIs
    <3>2. FirstQuarter(y, z).op \in OTHERS \ EDSUMS
      BY <3>1 DEF EDSUMS, OTHERS, EXCHANGE, ACCUMULATOR, ARITH16, JUMP, CALL_RETURN, INTERRUPTS, NOTHING, PORTS
    <3> QED BY <3>1, <3>2, KnownPlain
  <2> QED BY <2>2, <2>3, <2>4
<1>3. CASE z = 2
  <2>1. /\ FirstQuarter(0, 2) = I("LD_A", "TO_BC")
        /\ FirstQuarter(1, 2) = I("LD_A", "BC")
        /\ FirstQuarter(2, 2) = I("LD_A", "TO_DE")
        /\ FirstQuarter(3, 2) = I("LD_A", "DE")
        /\ FirstQuarter(4, 2) = I("LD_HL", "TO_NN")
        /\ FirstQuarter(5, 2) = I("LD_HL", "NN")
        /\ FirstQuarter(6, 2) = I("LD_A", "TO_NN")
        /\ FirstQuarter(7, 2) = I("LD_A", "NN")
    BY DEF FirstQuarter
  <2>2. \/ FirstQuarter(y, z) = I("LD_A", "TO_BC")
        \/ FirstQuarter(y, z) = I("LD_A", "BC")
        \/ FirstQuarter(y, z) = I("LD_A", "TO_DE")
        \/ FirstQuarter(y, z) = I("LD_A", "DE")
        \/ FirstQuarter(y, z) = I("LD_HL", "TO_NN")
        \/ FirstQuarter(y, z) = I("LD_HL", "NN")
        \/ FirstQuarter(y, z) = I("LD_A", "TO_NN")
        \/ FirstQuarter(y, z) = I("LD_A", "NN")
    BY <1>3, <2>1, Eight
  <2>3. CASE FirstQuarter(y, z) = I("LD_A", "TO_BC") \/ FirstQuarter(y, z) = I("LD_A", "BC") \/ FirstQuarter(y, z) = I("LD_A", "TO_DE") \/ FirstQuarter(y, z) = I("LD_A", "DE") \/ FirstQuarter(y, z) = I("LD_A", "TO_NN") \/ FirstQuarter(y, z) = I("LD_A", "NN")
    <3>1. LoadForm(y, z, FirstQuarter(y, z))
      BY <2>3 DEF LoadForm, I
    <3> QED BY <3>1, KnownLoad
  <2>4. CASE FirstQuarter(y, z) = I("LD_HL", "TO_NN") \/ FirstQuarter(y, z) = I("LD_HL", "NN")
    <3>1. LoadWordForm(FirstQuarter(y, z))
      BY <2>4, PlainIs DEF LoadWordForm
    <3> QED BY <3>1, KnownLoadWord
  <2> QED BY <2>2, <2>3, <2>4
<1>4. CASE z = 3
  <2>1. /\ FirstQuarter(0, 3) = Plain("INC_RR")
        /\ FirstQuarter(1, 3) = Plain("DEC_RR")
        /\ FirstQuarter(2, 3) = Plain("INC_RR")
        /\ FirstQuarter(3, 3) = Plain("DEC_RR")
        /\ FirstQuarter(4, 3) = Plain("INC_RR")
        /\ FirstQuarter(5, 3) = Plain("DEC_RR")
        /\ FirstQuarter(6, 3) = Plain("INC_RR")
        /\ FirstQuarter(7, 3) = Plain("DEC_RR")
    BY DEF FirstQuarter
  <2>2. \/ FirstQuarter(y, z) = Plain("INC_RR")
        \/ FirstQuarter(y, z) = Plain("DEC_RR")
    BY <1>4, <2>1, Eight
  <2>3. CASE FirstQuarter(y, z) = Plain("INC_RR") \/ FirstQuarter(y, z) = Plain("DEC_RR")
    <3>1. FirstQuarter(y, z).op \in {"DEC_RR", "INC_RR"} /\ FirstQuarter(y, z).form = ""
      BY <2>3, PlainIs
    <3>2. FirstQuarter(y, z).op \in OTHERS \ EDSUMS
      BY <3>1 DEF EDSUMS, OTHERS, EXCHANGE, ACCUMULATOR, ARITH16, JUMP, CALL_RETURN, INTERRUPTS, NOTHING, PORTS
    <3> QED BY <3>1, <3>2, KnownPlain
  <2> QED BY <2>2, <2>3
<1>5. CASE z = 7
  <2>1. /\ FirstQuarter(0, 7) = Plain("RLCA")
        /\ FirstQuarter(1, 7) = Plain("RRCA")
        /\ FirstQuarter(2, 7) = Plain("RLA")
        /\ FirstQuarter(3, 7) = Plain("RRA")
        /\ FirstQuarter(4, 7) = Plain("DAA")
        /\ FirstQuarter(5, 7) = Plain("CPL")
        /\ FirstQuarter(6, 7) = Plain("SCF")
        /\ FirstQuarter(7, 7) = Plain("CCF")
    BY DEF FirstQuarter
  <2>2. \/ FirstQuarter(y, z) = Plain("RLCA")
        \/ FirstQuarter(y, z) = Plain("RRCA")
        \/ FirstQuarter(y, z) = Plain("RLA")
        \/ FirstQuarter(y, z) = Plain("RRA")
        \/ FirstQuarter(y, z) = Plain("DAA")
        \/ FirstQuarter(y, z) = Plain("CPL")
        \/ FirstQuarter(y, z) = Plain("SCF")
        \/ FirstQuarter(y, z) = Plain("CCF")
    BY <1>5, <2>1, Eight
  <2>3. CASE FirstQuarter(y, z) = Plain("RLCA") \/ FirstQuarter(y, z) = Plain("RRCA") \/ FirstQuarter(y, z) = Plain("RLA") \/ FirstQuarter(y, z) = Plain("RRA") \/ FirstQuarter(y, z) = Plain("DAA") \/ FirstQuarter(y, z) = Plain("CPL") \/ FirstQuarter(y, z) = Plain("SCF") \/ FirstQuarter(y, z) = Plain("CCF")
    <3>1. FirstQuarter(y, z).op \in {"CCF", "CPL", "DAA", "RLA", "RLCA", "RRA", "RRCA", "SCF"} /\ FirstQuarter(y, z).form = ""
      BY <2>3, PlainIs
    <3>2. FirstQuarter(y, z).op \in OTHERS \ EDSUMS
      BY <3>1 DEF EDSUMS, OTHERS, EXCHANGE, ACCUMULATOR, ARITH16, JUMP, CALL_RETURN, INTERRUPTS, NOTHING, PORTS
    <3> QED BY <3>1, <3>2, KnownPlain
  <2> QED BY <2>2, <2>3
<1>6. CASE z = 4 \/ z = 5
  <2>1. FirstQuarter(y, z) = I("INC", Form(y)) \/ FirstQuarter(y, z) = I("DEC", Form(y))
    BY <1>6 DEF FirstQuarter
  <2>2. FirstQuarter(y, z).op \in INC_DEC /\ FirstQuarter(y, z).form = Form(y)
    BY <2>1, IIs DEF INC_DEC
  <2> QED BY <2>2, KnownIncDec
<1>7. CASE z = 6
  <2>1. FirstQuarter(y, z) = I("LD_N", Form(y))
    BY <1>7 DEF FirstQuarter
  <2>2. (FirstQuarter(y, z) = I("LD_N", "R") /\ y # 6) \/ FirstQuarter(y, z) = I("LD_N", "INDIRECT_HL")
    BY <2>1 DEF Form, INDIRECT_HL
  <2>3. LoadForm(y, z, FirstQuarter(y, z))
    BY <2>2 DEF LoadForm
  <2> QED BY <2>3, KnownLoad
<1>8. z = 0 \/ z = 1 \/ z = 2 \/ z = 3 \/ z = 4 \/ z = 5 \/ z = 6 \/ z = 7
  BY Eight
<1> QED BY <1>1, <1>2, <1>3, <1>4, <1>5, <1>6, <1>7, <1>8

LEMMA SecondQuarterOK ==
  ASSUME NEW y \in 0 .. 7, NEW z \in 0 .. 7
  PROVE  KnownIns(y, z, SecondQuarter(y, z)) /\ SecondQuarter(y, z).op \notin PREFIXES \cup REPEATED \cup EDSUMS
<1>1. CASE y = z
  <2>1. SecondQuarter(y, z) = Plain("HALT") \/ SecondQuarter(y, z) = Plain("NOP")
    BY <1>1 DEF SecondQuarter
  <2>2. SecondQuarter(y, z).op \in OTHERS \ EDSUMS /\ SecondQuarter(y, z).form = ""
    BY <2>1, PlainIs DEF EDSUMS, OTHERS, NOTHING
  <2> QED BY <2>2, KnownPlain
<1>2. CASE y # z
  <2>1. \/ SecondQuarter(y, z) = I("LD_R", "INDIRECT_HL") /\ y # 6
        \/ SecondQuarter(y, z) = I("LD_INDIRECT_HL", "R") /\ z # 6
        \/ SecondQuarter(y, z) = I("LD_R", "R") /\ y # 6 /\ z # 6
    BY <1>2 DEF SecondQuarter, INDIRECT_HL
  <2>2. LoadForm(y, z, SecondQuarter(y, z))
    BY <2>1 DEF LoadForm
  <2> QED BY <2>2, KnownLoad
<1> QED BY <1>1, <1>2

LEMMA AluOps == ASSUME NEW y \in 0 .. 7 PROVE ALU_OPS[y + 1] \in ALU
<1>1. y = 0 \/ y = 1 \/ y = 2 \/ y = 3 \/ y = 4 \/ y = 5 \/ y = 6 \/ y = 7
  BY Eight
<1> QED BY <1>1 DEF ALU_OPS, ALU

LEMMA ThirdQuarterOK ==
  ASSUME NEW y \in 0 .. 7, NEW z \in 0 .. 7
  PROVE  KnownIns(y, z, ThirdQuarter(y, z)) /\ ThirdQuarter(y, z).op \notin PREFIXES \cup REPEATED \cup EDSUMS
<1>1. ThirdQuarter(y, z).op \in ALU /\ ThirdQuarter(y, z).form = Form(z)
  BY AluOps, IIs DEF ThirdQuarter
<1> QED BY <1>1, KnownAlu

LEMMA LastQuarterOK ==
  ASSUME NEW y \in 0 .. 7, NEW z \in 0 .. 7
  PROVE  KnownIns(y, z, LastQuarter(y, z)) /\ LastQuarter(y, z).op \notin REPEATED \cup EDSUMS
<1>1. CASE z = 0
  <2>1. /\ LastQuarter(0, 0) = Plain("RET_CC")
        /\ LastQuarter(1, 0) = Plain("RET_CC")
        /\ LastQuarter(2, 0) = Plain("RET_CC")
        /\ LastQuarter(3, 0) = Plain("RET_CC")
        /\ LastQuarter(4, 0) = Plain("RET_CC")
        /\ LastQuarter(5, 0) = Plain("RET_CC")
        /\ LastQuarter(6, 0) = Plain("RET_CC")
        /\ LastQuarter(7, 0) = Plain("RET_CC")
    BY DEF LastQuarter
  <2>2. \/ LastQuarter(y, z) = Plain("RET_CC")
    BY <1>1, <2>1, Eight
  <2>3. CASE LastQuarter(y, z) = Plain("RET_CC")
    <3>1. LastQuarter(y, z).op \in {"RET_CC"} /\ LastQuarter(y, z).form = ""
      BY <2>3, PlainIs
    <3>2. LastQuarter(y, z).op \in OTHERS \ EDSUMS
      BY <3>1 DEF EDSUMS, OTHERS, EXCHANGE, ACCUMULATOR, ARITH16, JUMP, CALL_RETURN, INTERRUPTS, NOTHING, PORTS
    <3> QED BY <3>1, <3>2, KnownPlain
  <2> QED BY <2>2, <2>3
<1>2. CASE z = 1
  <2>1. /\ LastQuarter(0, 1) = Plain("POP_SS")
        /\ LastQuarter(1, 1) = Plain("RET")
        /\ LastQuarter(2, 1) = Plain("POP_SS")
        /\ LastQuarter(3, 1) = Plain("EXX")
        /\ LastQuarter(4, 1) = Plain("POP_SS")
        /\ LastQuarter(5, 1) = Plain("JP_HL")
        /\ LastQuarter(6, 1) = Plain("POP_SS")
        /\ LastQuarter(7, 1) = Plain("LD_SP_HL")
    BY DEF LastQuarter
  <2>2. \/ LastQuarter(y, z) = Plain("POP_SS")
        \/ LastQuarter(y, z) = Plain("RET")
        \/ LastQuarter(y, z) = Plain("EXX")
        \/ LastQuarter(y, z) = Plain("JP_HL")
        \/ LastQuarter(y, z) = Plain("LD_SP_HL")
    BY <1>2, <2>1, Eight
  <2>3. CASE LastQuarter(y, z) = Plain("POP_SS") \/ LastQuarter(y, z) = Plain("LD_SP_HL")
    <3>1. LoadWordForm(LastQuarter(y, z))
      BY <2>3, PlainIs DEF LoadWordForm
    <3> QED BY <3>1, KnownLoadWord
  <2>4. CASE LastQuarter(y, z) = Plain("RET") \/ LastQuarter(y, z) = Plain("EXX") \/ LastQuarter(y, z) = Plain("JP_HL")
    <3>1. LastQuarter(y, z).op \in {"EXX", "JP_HL", "RET"} /\ LastQuarter(y, z).form = ""
      BY <2>4, PlainIs
    <3>2. LastQuarter(y, z).op \in OTHERS \ EDSUMS
      BY <3>1 DEF EDSUMS, OTHERS, EXCHANGE, ACCUMULATOR, ARITH16, JUMP, CALL_RETURN, INTERRUPTS, NOTHING, PORTS
    <3> QED BY <3>1, <3>2, KnownPlain
  <2> QED BY <2>2, <2>3, <2>4
<1>3. CASE z = 2
  <2>1. /\ LastQuarter(0, 2) = Plain("JP_CC_NN")
        /\ LastQuarter(1, 2) = Plain("JP_CC_NN")
        /\ LastQuarter(2, 2) = Plain("JP_CC_NN")
        /\ LastQuarter(3, 2) = Plain("JP_CC_NN")
        /\ LastQuarter(4, 2) = Plain("JP_CC_NN")
        /\ LastQuarter(5, 2) = Plain("JP_CC_NN")
        /\ LastQuarter(6, 2) = Plain("JP_CC_NN")
        /\ LastQuarter(7, 2) = Plain("JP_CC_NN")
    BY DEF LastQuarter
  <2>2. \/ LastQuarter(y, z) = Plain("JP_CC_NN")
    BY <1>3, <2>1, Eight
  <2>3. CASE LastQuarter(y, z) = Plain("JP_CC_NN")
    <3>1. LastQuarter(y, z).op \in {"JP_CC_NN"} /\ LastQuarter(y, z).form = ""
      BY <2>3, PlainIs
    <3>2. LastQuarter(y, z).op \in OTHERS \ EDSUMS
      BY <3>1 DEF EDSUMS, OTHERS, EXCHANGE, ACCUMULATOR, ARITH16, JUMP, CALL_RETURN, INTERRUPTS, NOTHING, PORTS
    <3> QED BY <3>1, <3>2, KnownPlain
  <2> QED BY <2>2, <2>3
<1>4. CASE z = 3
  <2>1. /\ LastQuarter(0, 3) = Plain("JP_NN")
        /\ LastQuarter(1, 3) = Plain("CB_PREFIX")
        /\ LastQuarter(2, 3) = Plain("OUT_N_A")
        /\ LastQuarter(3, 3) = Plain("IN_A_N")
        /\ LastQuarter(4, 3) = Plain("EX_INDIRECT_SP_HL")
        /\ LastQuarter(5, 3) = Plain("EX_DE_HL")
        /\ LastQuarter(6, 3) = Plain("DI")
        /\ LastQuarter(7, 3) = Plain("EI")
    BY DEF LastQuarter
  <2>2. \/ LastQuarter(y, z) = Plain("JP_NN")
        \/ LastQuarter(y, z) = Plain("CB_PREFIX")
        \/ LastQuarter(y, z) = Plain("OUT_N_A")
        \/ LastQuarter(y, z) = Plain("IN_A_N")
        \/ LastQuarter(y, z) = Plain("EX_INDIRECT_SP_HL")
        \/ LastQuarter(y, z) = Plain("EX_DE_HL")
        \/ LastQuarter(y, z) = Plain("DI")
        \/ LastQuarter(y, z) = Plain("EI")
    BY <1>4, <2>1, Eight
  <2>3. CASE LastQuarter(y, z) = Plain("JP_NN") \/ LastQuarter(y, z) = Plain("OUT_N_A") \/ LastQuarter(y, z) = Plain("IN_A_N") \/ LastQuarter(y, z) = Plain("EX_INDIRECT_SP_HL") \/ LastQuarter(y, z) = Plain("EX_DE_HL") \/ LastQuarter(y, z) = Plain("DI") \/ LastQuarter(y, z) = Plain("EI")
    <3>1. LastQuarter(y, z).op \in {"DI", "EI", "EX_DE_HL", "EX_INDIRECT_SP_HL", "IN_A_N", "JP_NN", "OUT_N_A"} /\ LastQuarter(y, z).form = ""
      BY <2>3, PlainIs
    <3>2. LastQuarter(y, z).op \in OTHERS \ EDSUMS
      BY <3>1 DEF EDSUMS, OTHERS, EXCHANGE, ACCUMULATOR, ARITH16, JUMP, CALL_RETURN, INTERRUPTS, NOTHING, PORTS
    <3> QED BY <3>1, <3>2, KnownPlain
  <2>4. CASE LastQuarter(y, z) = Plain("CB_PREFIX")
    <3>1. LastQuarter(y, z).op \in PREFIXES
      BY <2>4, PlainIs DEF PREFIXES
    <3> QED BY <3>1 DEF KnownIns, PREFIXES, REPEATED, EDSUMS
  <2> QED BY <2>2, <2>3, <2>4
<1>5. CASE z = 4
  <2>1. /\ LastQuarter(0, 4) = Plain("CALL_CC_NN")
        /\ LastQuarter(1, 4) = Plain("CALL_CC_NN")
        /\ LastQuarter(2, 4) = Plain("CALL_CC_NN")
        /\ LastQuarter(3, 4) = Plain("CALL_CC_NN")
        /\ LastQuarter(4, 4) = Plain("CALL_CC_NN")
        /\ LastQuarter(5, 4) = Plain("CALL_CC_NN")
        /\ LastQuarter(6, 4) = Plain("CALL_CC_NN")
        /\ LastQuarter(7, 4) = Plain("CALL_CC_NN")
    BY DEF LastQuarter
  <2>2. \/ LastQuarter(y, z) = Plain("CALL_CC_NN")
    BY <1>5, <2>1, Eight
  <2>3. CASE LastQuarter(y, z) = Plain("CALL_CC_NN")
    <3>1. LastQuarter(y, z).op \in {"CALL_CC_NN"} /\ LastQuarter(y, z).form = ""
      BY <2>3, PlainIs
    <3>2. LastQuarter(y, z).op \in OTHERS \ EDSUMS
      BY <3>1 DEF EDSUMS, OTHERS, EXCHANGE, ACCUMULATOR, ARITH16, JUMP, CALL_RETURN, INTERRUPTS, NOTHING, PORTS
    <3> QED BY <3>1, <3>2, KnownPlain
  <2> QED BY <2>2, <2>3
<1>6. CASE z = 5
  <2>1. /\ LastQuarter(0, 5) = Plain("PUSH_SS")
        /\ LastQuarter(1, 5) = Plain("CALL_NN")
        /\ LastQuarter(2, 5) = Plain("PUSH_SS")
        /\ LastQuarter(3, 5) = Plain("DD_PREFIX")
        /\ LastQuarter(4, 5) = Plain("PUSH_SS")
        /\ LastQuarter(5, 5) = Plain("ED_PREFIX")
        /\ LastQuarter(6, 5) = Plain("PUSH_SS")
        /\ LastQuarter(7, 5) = Plain("FD_PREFIX")
    BY DEF LastQuarter
  <2>2. \/ LastQuarter(y, z) = Plain("PUSH_SS")
        \/ LastQuarter(y, z) = Plain("CALL_NN")
        \/ LastQuarter(y, z) = Plain("DD_PREFIX")
        \/ LastQuarter(y, z) = Plain("ED_PREFIX")
        \/ LastQuarter(y, z) = Plain("FD_PREFIX")
    BY <1>6, <2>1, Eight
  <2>3. CASE LastQuarter(y, z) = Plain("PUSH_SS")
    <3>1. LoadWordForm(LastQuarter(y, z))
      BY <2>3, PlainIs DEF LoadWordForm
    <3> QED BY <3>1, KnownLoadWord
  <2>4. CASE LastQuarter(y, z) = Plain("CALL_NN")
    <3>1. LastQuarter(y, z).op \in {"CALL_NN"} /\ LastQuarter(y, z).form = ""
      BY <2>4, PlainIs
    <3>2. LastQuarter(y, z).op \in OTHERS \ EDSUMS
      BY <3>1 DEF EDSUMS, OTHERS, EXCHANGE, ACCUMULATOR, ARITH16, JUMP, CALL_RETURN, INTERRUPTS, NOTHING, PORTS
    <3> QED BY <3>1, <3>2, KnownPlain
  <2>5. CASE LastQuarter(y, z) = Plain("DD_PREFIX") \/ LastQuarter(y, z) = Plain("ED_PREFIX") \/ LastQuarter(y, z) = Plain("FD_PREFIX")
    <3>1. LastQuarter(y, z).op \in PREFIXES
      BY <2>5, PlainIs DEF PREFIXES
    <3> QED BY <3>1 DEF KnownIns, PREFIXES, REPEATED, EDSUMS
  <2> QED BY <2>2, <2>3, <2>4, <2>5
<1>7. CASE z = 7
  <2>1. /\ LastQuarter(0, 7) = Plain("RST_P")
        /\ LastQuarter(1, 7) = Plain("RST_P")
        /\ LastQuarter(2, 7) = Plain("RST_P")
        /\ LastQuarter(3, 7) = Plain("RST_P")
        /\ LastQuarter(4, 7) = Plain("RST_P")
        /\ LastQuarter(5, 7) = Plain("RST_P")
        /\ LastQuarter(6, 7) = Plain("RST_P")
        /\ LastQuarter(7, 7) = Plain("RST_P")
    BY DEF LastQuarter
  <2>2. \/ LastQuarter(y, z) = Plain("RST_P")
    BY <1>7, <2>1, Eight
  <2>3. CASE LastQuarter(y, z) = Plain("RST_P")
    <3>1. LastQuarter(y, z).op \in {"RST_P"} /\ LastQuarter(y, z).form = ""
      BY <2>3, PlainIs
    <3>2. LastQuarter(y, z).op \in OTHERS \ EDSUMS
      BY <3>1 DEF EDSUMS, OTHERS, EXCHANGE, ACCUMULATOR, ARITH16, JUMP, CALL_RETURN, INTERRUPTS, NOTHING, PORTS
    <3> QED BY <3>1, <3>2, KnownPlain
  <2> QED BY <2>2, <2>3
<1>8. CASE z = 6
  <2>1. LastQuarter(y, z) = I(ALU_OPS[y + 1], "N")
    BY <1>8 DEF LastQuarter
  <2>2. LastQuarter(y, z).op \in ALU /\ LastQuarter(y, z).form = "N"
    BY <2>1, AluOps, IIs
  <2> QED BY <2>2, KnownAlu
<1>9. z = 0 \/ z = 1 \/ z = 2 \/ z = 3 \/ z = 4 \/ z = 5 \/ z = 6 \/ z = 7
  BY Eight
<1> QED BY <1>1, <1>2, <1>3, <1>4, <1>5, <1>6, <1>7, <1>8, <1>9

LEMMA TableOK ==
  ASSUME NEW opcode \in Byte
  PROVE  /\ KnownIns(Y(opcode), Z(opcode), INSTRUCTION_TABLE[opcode])
         /\ INSTRUCTION_TABLE[opcode].op \notin REPEATED \cup EDSUMS
<1> DEFINE y == Y(opcode)
           z == Z(opcode)
<1>1. y \in 0 .. 7 /\ z \in 0 .. 7
  BY Fields
<1>2. INSTRUCTION_TABLE[opcode] = CASE opcode < 64    -> FirstQuarter(y, z)
                                    [] opcode < 128   -> SecondQuarter(y, z)
                                    [] opcode < 192   -> ThirdQuarter(y, z)
                                    [] OTHER          -> LastQuarter(y, z)
  BY DEF INSTRUCTION_TABLE, Byte
<1> HIDE DEF y, z
<1>3. \/ INSTRUCTION_TABLE[opcode] = FirstQuarter(y, z) \/ INSTRUCTION_TABLE[opcode] = SecondQuarter(y, z)
      \/ INSTRUCTION_TABLE[opcode] = ThirdQuarter(y, z) \/ INSTRUCTION_TABLE[opcode] = LastQuarter(y, z)
  BY <1>2
<1>4. KnownIns(y, z, INSTRUCTION_TABLE[opcode]) /\ INSTRUCTION_TABLE[opcode].op \notin REPEATED \cup EDSUMS
  BY <1>1, <1>3, FirstQuarterOK, SecondQuarterOK, ThirdQuarterOK, LastQuarterOK
<1> QED BY <1>4 DEF y, z

LEMMA CbTableOK ==
  ASSUME NEW opcode \in Byte
  PROVE  /\ KnownIns(Y(opcode), Z(opcode), CB_INSTRUCTION_TABLE[opcode])
         /\ CB_INSTRUCTION_TABLE[opcode].op \in ROTATE \cup BITS
<1> DEFINE o == IF opcode < 64 THEN SHIFT_OPS[Y(opcode) + 1] ELSE <<"BIT_B", "RES_B", "SET_B">>[opcode \div 64]
<1>1. CB_INSTRUCTION_TABLE[opcode] = I(o, Form(Z(opcode)))
  BY DEF CB_INSTRUCTION_TABLE, Byte
<1>2. o \in ROTATE \cup BITS
  <2>1. CASE opcode < 64
    <3>1. Y(opcode) \in 0 .. 7
      BY Fields
    <3>2. \/ Y(opcode) = 0 \/ Y(opcode) = 1 \/ Y(opcode) = 2 \/ Y(opcode) = 3
          \/ Y(opcode) = 4 \/ Y(opcode) = 5 \/ Y(opcode) = 6 \/ Y(opcode) = 7
      BY <3>1, Eight
    <3>3. SHIFT_OPS[Y(opcode) + 1] \in ROTATE
      BY <3>2 DEF SHIFT_OPS, ROTATE
    <3> QED BY <2>1, <3>3
  <2>2. CASE ~(opcode < 64)
    <3>1. opcode \div 64 = 1 \/ opcode \div 64 = 2 \/ opcode \div 64 = 3
      BY <2>2 DEF Byte
    <3> QED BY <2>2, <3>1 DEF BITS
  <2> QED BY <2>1, <2>2
<1> HIDE DEF o
<1>3. (Form(Z(opcode)) = "R" /\ Z(opcode) # 6) \/ Form(Z(opcode)) = "INDIRECT_HL"
  BY DEF Form, INDIRECT_HL
<1>4. CB_INSTRUCTION_TABLE[opcode].op \in ROTATE \cup BITS
  BY <1>1, <1>2, IIs
<1>5. CB_INSTRUCTION_TABLE[opcode].form = Form(Z(opcode))
  BY <1>1, IIs
<1> QED BY <1>3, <1>4, <1>5 DEF KnownIns

LEMMA EdSecondQuarterOK ==
  ASSUME NEW y \in 0 .. 7, NEW z \in 0 .. 7
  PROVE  KnownIns(y, z, EdSecondQuarter(y, z)) /\ EdSecondQuarter(y, z).op \notin PREFIXES \cup REPEATED
<1>1. CASE z = 7
  <2>1. /\ EdSecondQuarter(0, 7) = Plain("LD_I_A_LD_R_A")
        /\ EdSecondQuarter(1, 7) = Plain("LD_I_A_LD_R_A")
        /\ EdSecondQuarter(2, 7) = Plain("LD_A_I_LD_A_R")
        /\ EdSecondQuarter(3, 7) = Plain("LD_A_I_LD_A_R")
        /\ EdSecondQuarter(4, 7) = Plain("RLD_RRD")
        /\ EdSecondQuarter(5, 7) = Plain("RLD_RRD")
        /\ EdSecondQuarter(6, 7) = Plain("ED_UNDEFINED")
        /\ EdSecondQuarter(7, 7) = Plain("ED_UNDEFINED")
    <3>1. EdSecondQuarter(0, 7) = Plain("LD_I_A_LD_R_A") /\ EdSecondQuarter(1, 7) = Plain("LD_I_A_LD_R_A")
      BY DEF EdSecondQuarter
    <3>2. EdSecondQuarter(2, 7) = Plain("LD_A_I_LD_A_R") /\ EdSecondQuarter(3, 7) = Plain("LD_A_I_LD_A_R")
      BY DEF EdSecondQuarter
    <3>3. EdSecondQuarter(4, 7) = Plain("RLD_RRD") /\ EdSecondQuarter(5, 7) = Plain("RLD_RRD")
      BY DEF EdSecondQuarter
    <3>4. EdSecondQuarter(6, 7) = Plain("ED_UNDEFINED") /\ EdSecondQuarter(7, 7) = Plain("ED_UNDEFINED")
      BY DEF EdSecondQuarter
    <3> QED BY <3>1, <3>2, <3>3, <3>4
  <2>2.  \/ EdSecondQuarter(y, z) = Plain("LD_I_A_LD_R_A") \/ EdSecondQuarter(y, z) = Plain("LD_A_I_LD_A_R")
         \/ EdSecondQuarter(y, z) = Plain("RLD_RRD") \/ EdSecondQuarter(y, z) = Plain("ED_UNDEFINED")
    BY <1>1, <2>1, Eight
  <2>3. CASE EdSecondQuarter(y, z) = Plain("LD_I_A_LD_R_A") \/ EdSecondQuarter(y, z) = Plain("LD_A_I_LD_A_R")
    <3>1. LoadForm(y, z, EdSecondQuarter(y, z))
      BY <2>3, PlainIs DEF LoadForm
    <3> QED BY <3>1, KnownLoad
  <2>4. CASE EdSecondQuarter(y, z) = Plain("RLD_RRD") \/ EdSecondQuarter(y, z) = Plain("ED_UNDEFINED")
    <3>1. EdSecondQuarter(y, z).op \in {"RLD_RRD", "ED_UNDEFINED"} /\ EdSecondQuarter(y, z).form = ""
      BY <2>4, PlainIs
    <3>2. {"RLD_RRD", "ED_UNDEFINED"} \subseteq OTHERS
      BY DEF OTHERS, NOTHING
    <3> QED BY <3>1, <3>2, KnownOther
  <2> QED BY <2>2, <2>3, <2>4
<1>2. CASE z = 3
  <2>1. EdSecondQuarter(y, z) = I("LD_RR", "TO_INDIRECT_NN") \/ EdSecondQuarter(y, z) = I("LD_RR", "INDIRECT_NN")
    BY <1>2 DEF EdSecondQuarter
  <2>2. LoadWordForm(EdSecondQuarter(y, z))
    BY <2>1 DEF LoadWordForm
  <2> QED BY <2>2, KnownLoadWord
<1>3. CASE z # 3 /\ z # 7
  <2>1. z = 0 \/ z = 1 \/ z = 2 \/ z = 4 \/ z = 5 \/ z = 6
    BY <1>3
  <2>2. \/ EdSecondQuarter(y, z) = Plain("IN_R_C") \/ EdSecondQuarter(y, z) = Plain("OUT_C_R")
        \/ EdSecondQuarter(y, z) = Plain("SBC_HL_RR") \/ EdSecondQuarter(y, z) = Plain("ADC_HL_RR")
        \/ EdSecondQuarter(y, z) = Plain("NEG") \/ EdSecondQuarter(y, z) = Plain("RETI_RETN")
        \/ EdSecondQuarter(y, z) = Plain("IM_N")
    BY <2>1 DEF EdSecondQuarter
  <2>3. /\ EdSecondQuarter(y, z).op \in {"IN_R_C", "OUT_C_R", "SBC_HL_RR", "ADC_HL_RR", "NEG", "RETI_RETN", "IM_N"}
        /\ EdSecondQuarter(y, z).form = ""
    BY <2>2, PlainIs
  <2>4. EdSecondQuarter(y, z).op \in OTHERS
    BY <2>3 DEF OTHERS, PORTS, ARITH16, ACCUMULATOR, CALL_RETURN
  <2> QED BY <2>3, <2>4, KnownOther
<1> QED BY <1>1, <1>2, <1>3

LEMMA EdTableOK ==
  ASSUME NEW opcode \in Byte
  PROVE  /\ KnownIns(Y(opcode), Z(opcode), ED_INSTRUCTION_TABLE[opcode])
         /\ ED_INSTRUCTION_TABLE[opcode].op \notin PREFIXES
<1> DEFINE y == Y(opcode)
           z == Z(opcode)
           ins == ED_INSTRUCTION_TABLE[opcode]
<1>1. y \in 0 .. 7 /\ z \in 0 .. 7
  BY Fields
<1>2. \/ ins = EdSecondQuarter(y, z)
      \/ z < 4 /\ ins = EdBlock(y, z)
      \/ ins = Plain("ED_UNDEFINED")
  BY DEF ED_INSTRUCTION_TABLE, Byte
<1> SUFFICES KnownIns(y, z, ins) /\ ins.op \notin PREFIXES
  OBVIOUS
<1> HIDE DEF y, z, ins
<1>3. CASE ins = EdSecondQuarter(y, z)
  BY <1>1, <1>3, EdSecondQuarterOK
<1>4. CASE z < 4 /\ ins = EdBlock(y, z)
  <2>1. z = 0 \/ z = 1 \/ z = 2 \/ z = 3
    BY <1>1, <1>4
  <2>2. \/ ins = Plain("LDI_LDD") \/ ins = Plain("CPI_CPD") \/ ins = Plain("INI_IND")
        \/ ins = Plain("OUTI_OUTD") \/ ins = Plain("LDIR_LDDR") \/ ins = Plain("CPIR_CPDR")
        \/ ins = Plain("INIR_INDR") \/ ins = Plain("OTIR_OTDR")
    BY <1>4, <2>1 DEF EdBlock
  <2>3. CASE ins = Plain("LDIR_LDDR") \/ ins = Plain("CPIR_CPDR")
    <3>1. ins.op \in REPEATED
      BY <2>3, PlainIs DEF REPEATED
    <3> QED BY <3>1 DEF KnownIns, REPEATED, PREFIXES
  <2>4. CASE \/ ins = Plain("LDI_LDD") \/ ins = Plain("CPI_CPD") \/ ins = Plain("INI_IND")
             \/ ins = Plain("OUTI_OUTD") \/ ins = Plain("INIR_INDR") \/ ins = Plain("OTIR_OTDR")
    <3>1. /\ ins.op \in {"LDI_LDD", "CPI_CPD", "INI_IND", "OUTI_OUTD", "INIR_INDR", "OTIR_OTDR"}
          /\ ins.form = ""
      BY <2>4, PlainIs
    <3>2. {"LDI_LDD", "CPI_CPD", "INI_IND", "OUTI_OUTD", "INIR_INDR", "OTIR_OTDR"} \subseteq OTHERS
      BY DEF OTHERS, PORTS, BLOCK_ONCE
    <3> QED BY <3>1, <3>2, KnownOther
  <2> QED BY <2>2, <2>3, <2>4
<1>5. CASE ins = Plain("ED_UNDEFINED")
  <2>1. ins.op \in OTHERS /\ ins.form = ""
    BY <1>5, PlainIs DEF OTHERS, NOTHING
  <2> QED BY <2>1, KnownOther
<1> QED BY <1>2, <1>3, <1>4, <1>5

-----------------------------------------------------------------------------
(* No operation is in two groups.                                          *)

LEMMA LOAD8Only ==
  ASSUME NEW op \in LOAD8
  PROVE  op \notin UNION {LOAD16, EXCHANGE, BLOCK_ONCE, ALU, INC_DEC, ACCUMULATOR, ARITH16, ROTATE,
                   BITS, {"RLD_RRD"}, JUMP, CALL_RETURN, INTERRUPTS, {"IM_N"}, NOTHING,
                   PREFIXES, REPEATED, PORTS, {"HALT"}}
BY DEF LOAD8, LOAD16, EXCHANGE, BLOCK_ONCE, ALU, INC_DEC, ACCUMULATOR, ARITH16, ROTATE, BITS,
       JUMP, CALL_RETURN, INTERRUPTS, NOTHING, PREFIXES, REPEATED, PORTS

LEMMA LOAD16Only ==
  ASSUME NEW op \in LOAD16
  PROVE  op \notin UNION {EXCHANGE, BLOCK_ONCE, ALU, INC_DEC, ACCUMULATOR, ARITH16, ROTATE, BITS,
                   {"RLD_RRD"}, JUMP, CALL_RETURN, INTERRUPTS, {"IM_N"}, NOTHING, PREFIXES,
                   REPEATED, PORTS, {"HALT"}}
BY DEF LOAD16, EXCHANGE, BLOCK_ONCE, ALU, INC_DEC, ACCUMULATOR, ARITH16, ROTATE, BITS, JUMP,
       CALL_RETURN, INTERRUPTS, NOTHING, PREFIXES, REPEATED, PORTS

LEMMA EXCHANGEOnly ==
  ASSUME NEW op \in EXCHANGE
  PROVE  op \notin UNION {BLOCK_ONCE, ALU, INC_DEC, ACCUMULATOR, ARITH16, ROTATE, BITS, {"RLD_RRD"},
                   JUMP, CALL_RETURN, INTERRUPTS, {"IM_N"}, NOTHING, PREFIXES, REPEATED, PORTS,
                   {"HALT"}}
BY DEF EXCHANGE, BLOCK_ONCE, ALU, INC_DEC, ACCUMULATOR, ARITH16, ROTATE, BITS, JUMP,
       CALL_RETURN, INTERRUPTS, NOTHING, PREFIXES, REPEATED, PORTS

LEMMA BLOCK_ONCEOnly ==
  ASSUME NEW op \in BLOCK_ONCE
  PROVE  op \notin UNION {ALU, INC_DEC, ACCUMULATOR, ARITH16, ROTATE, BITS, {"RLD_RRD"}, JUMP,
                   CALL_RETURN, INTERRUPTS, {"IM_N"}, NOTHING, PREFIXES, REPEATED, PORTS,
                   {"HALT"}}
BY DEF BLOCK_ONCE, ALU, INC_DEC, ACCUMULATOR, ARITH16, ROTATE, BITS, JUMP, CALL_RETURN,
       INTERRUPTS, NOTHING, PREFIXES, REPEATED, PORTS

LEMMA ALUOnly ==
  ASSUME NEW op \in ALU
  PROVE  op \notin UNION {INC_DEC, ACCUMULATOR, ARITH16, ROTATE, BITS, {"RLD_RRD"}, JUMP, CALL_RETURN,
                   INTERRUPTS, {"IM_N"}, NOTHING, PREFIXES, REPEATED, PORTS, {"HALT"}}
BY DEF ALU, INC_DEC, ACCUMULATOR, ARITH16, ROTATE, BITS, JUMP, CALL_RETURN, INTERRUPTS, NOTHING,
       PREFIXES, REPEATED, PORTS

LEMMA INC_DECOnly ==
  ASSUME NEW op \in INC_DEC
  PROVE  op \notin UNION {ACCUMULATOR, ARITH16, ROTATE, BITS, {"RLD_RRD"}, JUMP, CALL_RETURN,
                   INTERRUPTS, {"IM_N"}, NOTHING, PREFIXES, REPEATED, PORTS, {"HALT"}}
BY DEF INC_DEC, ACCUMULATOR, ARITH16, ROTATE, BITS, JUMP, CALL_RETURN, INTERRUPTS, NOTHING,
       PREFIXES, REPEATED, PORTS

LEMMA ACCUMULATOROnly ==
  ASSUME NEW op \in ACCUMULATOR
  PROVE  op \notin UNION {ARITH16, ROTATE, BITS, {"RLD_RRD"}, JUMP, CALL_RETURN, INTERRUPTS, {"IM_N"},
                   NOTHING, PREFIXES, REPEATED, PORTS, {"HALT"}}
BY DEF ACCUMULATOR, ARITH16, ROTATE, BITS, JUMP, CALL_RETURN, INTERRUPTS, NOTHING, PREFIXES,
       REPEATED, PORTS

LEMMA ARITH16Only ==
  ASSUME NEW op \in ARITH16
  PROVE  op \notin UNION {ROTATE, BITS, {"RLD_RRD"}, JUMP, CALL_RETURN, INTERRUPTS, {"IM_N"}, NOTHING,
                   PREFIXES, REPEATED, PORTS, {"HALT"}}
BY DEF ARITH16, ROTATE, BITS, JUMP, CALL_RETURN, INTERRUPTS, NOTHING, PREFIXES, REPEATED, PORTS

LEMMA ROTATEOnly ==
  ASSUME NEW op \in ROTATE
  PROVE  op \notin UNION {BITS, {"RLD_RRD"}, JUMP, CALL_RETURN, INTERRUPTS, {"IM_N"}, NOTHING,
                   PREFIXES, REPEATED, PORTS, {"HALT"}}
BY DEF ROTATE, BITS, JUMP, CALL_RETURN, INTERRUPTS, NOTHING, PREFIXES, REPEATED, PORTS

LEMMA BITSOnly ==
  ASSUME NEW op \in BITS
  PROVE  op \notin UNION {{"RLD_RRD"}, JUMP, CALL_RETURN, INTERRUPTS, {"IM_N"}, NOTHING, PREFIXES,
                   REPEATED, PORTS, {"HALT"}}
BY DEF BITS, JUMP, CALL_RETURN, INTERRUPTS, NOTHING, PREFIXES, REPEATED, PORTS

LEMMA DIGITOnly ==
  ASSUME NEW op \in {"RLD_RRD"}
  PROVE  op \notin UNION {JUMP, CALL_RETURN, INTERRUPTS, {"IM_N"}, NOTHING, PREFIXES, REPEATED, PORTS,
                   {"HALT"}}
BY DEF JUMP, CALL_RETURN, INTERRUPTS, NOTHING, PREFIXES, REPEATED, PORTS

LEMMA JUMPOnly ==
  ASSUME NEW op \in JUMP
  PROVE  op \notin UNION {CALL_RETURN, INTERRUPTS, {"IM_N"}, NOTHING, PREFIXES, REPEATED, PORTS,
                   {"HALT"}}
BY DEF JUMP, CALL_RETURN, INTERRUPTS, NOTHING, PREFIXES, REPEATED, PORTS

LEMMA CALL_RETURNOnly ==
  ASSUME NEW op \in CALL_RETURN
  PROVE  op \notin UNION {INTERRUPTS, {"IM_N"}, NOTHING, PREFIXES, REPEATED, PORTS, {"HALT"}}
BY DEF CALL_RETURN, INTERRUPTS, NOTHING, PREFIXES, REPEATED, PORTS

LEMMA INTERRUPTSOnly ==
  ASSUME NEW op \in INTERRUPTS
  PROVE  op \notin UNION {{"IM_N"}, NOTHING, PREFIXES, REPEATED, PORTS, {"HALT"}}
BY DEF INTERRUPTS, NOTHING, PREFIXES, REPEATED, PORTS

LEMMA MODEOnly ==
  ASSUME NEW op \in {"IM_N"}
  PROVE  op \notin UNION {NOTHING, PREFIXES, REPEATED, PORTS, {"HALT"}}
BY DEF NOTHING, PREFIXES, REPEATED, PORTS

LEMMA NOTHINGOnly ==
  ASSUME NEW op \in NOTHING
  PROVE  op \notin UNION {PREFIXES, REPEATED, PORTS, {"HALT"}}
BY DEF NOTHING, PREFIXES, REPEATED, PORTS

LEMMA PREFIXESOnly ==
  ASSUME NEW op \in PREFIXES
  PROVE  op \notin UNION {REPEATED, PORTS, {"HALT"}}
BY DEF PREFIXES, REPEATED, PORTS

LEMMA REPEATEDOnly ==
  ASSUME NEW op \in REPEATED
  PROVE  op \notin UNION {PORTS, {"HALT"}}
BY DEF REPEATED, PORTS

LEMMA PORTSOnly ==
  ASSUME NEW op \in PORTS
  PROVE  op \notin UNION {{"HALT"}}
BY DEF PORTS

-----------------------------------------------------------------------------
(* Each group of instructions leaves a processor.                          *)

LEMMA LoadForms ==
  ASSUME NEW y, NEW z, NEW ins, KnownIns(y, z, ins), ins.op \in LOAD8 PROVE LoadForm(y, z, ins)
<1>1. /\ ins.op \notin LOAD16 /\ ins.op \notin ALU /\ ins.op \notin INC_DEC /\ ins.op \notin ROTATE \cup BITS
      /\ ins.op \notin PREFIXES \cup REPEATED
  BY LOAD8Only
<1>2. ins.op \notin OTHERS
  BY LOAD8Only DEF OTHERS
<1> QED BY <1>1, <1>2 DEF KnownIns

LEMMA LoadWordForms ==
  ASSUME NEW y, NEW z, NEW ins, KnownIns(y, z, ins), ins.op \in LOAD16 PROVE LoadWordForm(ins)
<1>1. /\ ins.op \notin LOAD8 /\ ins.op \notin ALU /\ ins.op \notin INC_DEC /\ ins.op \notin ROTATE \cup BITS
      /\ ins.op \notin PREFIXES \cup REPEATED
  BY LOAD8Only, LOAD16Only
<1>2. ins.op \notin OTHERS
  BY LOAD16Only DEF OTHERS
<1> QED BY <1>1, <1>2 DEF KnownIns

LEMMA AluForms ==
  ASSUME NEW y, NEW z, NEW ins, KnownIns(y, z, ins), ins.op \in ALU
  PROVE  (ins.form = "R" /\ z # 6) \/ ins.form \in {"N", "INDIRECT_HL"}
<1>1. /\ ins.op \notin LOAD8 /\ ins.op \notin LOAD16 /\ ins.op \notin INC_DEC /\ ins.op \notin ROTATE \cup BITS
      /\ ins.op \notin PREFIXES \cup REPEATED
  BY LOAD8Only, LOAD16Only, ALUOnly
<1>2. ins.op \notin OTHERS
  BY ALUOnly, EXCHANGEOnly, BLOCK_ONCEOnly DEF OTHERS
<1> QED BY <1>1, <1>2 DEF KnownIns

LEMMA IncDecForms ==
  ASSUME NEW y, NEW z, NEW ins, KnownIns(y, z, ins), ins.op \in INC_DEC
  PROVE  (ins.form = "R" /\ y # 6) \/ ins.form = "INDIRECT_HL"
<1>1. /\ ins.op \notin LOAD8 /\ ins.op \notin LOAD16 /\ ins.op \notin ALU /\ ins.op \notin ROTATE \cup BITS
      /\ ins.op \notin PREFIXES \cup REPEATED
  BY LOAD8Only, LOAD16Only, ALUOnly, INC_DECOnly
<1>2. ins.op \notin OTHERS
  BY INC_DECOnly, EXCHANGEOnly, BLOCK_ONCEOnly DEF OTHERS
<1> QED BY <1>1, <1>2 DEF KnownIns

LEMMA CbForms ==
  ASSUME NEW y, NEW z, NEW ins, KnownIns(y, z, ins), ins.op \in ROTATE \cup BITS
  PROVE  (ins.form = "R" /\ z # 6) \/ ins.form = "INDIRECT_HL"
<1>1. /\ ins.op \notin LOAD8 /\ ins.op \notin LOAD16 /\ ins.op \notin ALU /\ ins.op \notin INC_DEC
      /\ ins.op \notin PREFIXES \cup REPEATED
  BY LOAD8Only, LOAD16Only, ALUOnly, INC_DECOnly, ROTATEOnly, BITSOnly
<1>2. ins.op \notin OTHERS
  BY ROTATEOnly, BITSOnly, EXCHANGEOnly, BLOCK_ONCEOnly, ACCUMULATOROnly, ARITH16Only DEF OTHERS
<1> QED BY <1>1, <1>2 DEF KnownIns

LEMMA LdAOK ==
  ASSUME NEW s \in Cpu, NEW form \in {"BC", "DE", "NN", "TO_BC", "TO_DE", "TO_NN"}
  PROVE  LD_A(s, form) \in Cpu
<1>1. /\ GetW(s, "BC") \in Int /\ GetW(s, "DE") \in Int /\ NN(s) \in Int /\ s.reg["A"] \in Int
      /\ "A" \in ByteRegister /\ PastNN(s) \in Cpu
  <2>1. s.reg["A"] \in Byte /\ NN(s) \in Word /\ "A" \in ByteRegister
    BY FieldsAre, NamesAre, ConstantsOK
  <2> QED BY <2>1, IndexIsWord, GetWInt, ByteIs, WordIs, PastOK
<1>2. CASE form \in {"BC", "DE", "NN"}
  <2>1. \/ LD_A(s, form) = Load(s, "A", GetW(s, "BC")) \/ LD_A(s, form) = Load(s, "A", GetW(s, "DE"))
        \/ LD_A(s, form) = Load(PastNN(s), "A", NN(s))
    BY <1>2 DEF LD_A
  <2> QED BY <1>1, <2>1, LoadOK
<1>3. CASE form \in {"TO_BC", "TO_DE", "TO_NN"}
  <2>1. \/ LD_A(s, form) = Store(s, GetW(s, "BC"), s.reg["A"]) \/ LD_A(s, form) = Store(s, GetW(s, "DE"), s.reg["A"])
        \/ LD_A(s, form) = Store(PastNN(s), NN(s), s.reg["A"])
    BY <1>3 DEF LD_A
  <2> QED BY <1>1, <2>1, StoreOK
<1> QED BY <1>2, <1>3

LEMMA LdSpecialOK == ASSUME NEW s \in Cpu, NEW a \in Byte PROVE LD_A_SPECIAL(s, a) \in Cpu
<1> DEFINE f == SZYX_FLAGS_TABLE[a] \cup On(s.iff2, "PV") \cup (s.F \cap {"C"})
<1>1. f \in SUBSET Flag
  BY FieldsAre, TablesOK, OnOK, FlagsAre
<1> HIDE DEF f
<1>2. [SetR(s, "A", a) EXCEPT !.F = f] \in Cpu
  BY <1>1, NamesAre, SetROK, SetFlagsOK
<1>3. [SetR(s, "A", a) EXCEPT !.F = f] = [s EXCEPT !.reg["A"] = a, !.F = f]
  BY DEF SetR
<1>4. LD_A_SPECIAL(s, a) = Cycles([s EXCEPT !.reg["A"] = a, !.F = f], 1)
  BY DEF LD_A_SPECIAL, f
<1> QED BY <1>2, <1>3, <1>4, CyclesOK

LEMMA Load8OK ==
  ASSUME NEW s \in Cpu, NEW p \in Index, NEW opcode \in Byte, NEW ins,
         ins.op \in LOAD8, LoadForm(Y(opcode), Z(opcode), ins)
  PROVE  Load8(s, p, opcode, ins) \in Cpu
<1> DEFINE y == Y(opcode)
           z == Z(opcode)
<1>1. y \in 0 .. 7 /\ z \in 0 .. 7
  BY Fields
<1>2. /\ PastN(s) \in Cpu /\ PastAddress(s, p) \in Cpu /\ PastN(PastN(s)) \in Cpu
  BY PastOK, PastAddressOK
<1>3. N(s) \in Byte /\ N(s) \in Int /\ N(PastN(s)) \in Int /\ Address(s, p) \in Int
  BY <1>2, ConstantsOK, ByteIs, AddressIs
<1>4. "HL" \in Index
  BY DEF Index
<1>5. CASE ins = I("LD_R", "R") /\ y # 6 /\ z # 6
  <2>1. R(p, y) \in ByteRegister /\ R(p, z) \in ByteRegister
    BY <1>1, <1>5, RIs
  <2>2. s.reg[R(p, z)] \in Byte
    BY <2>1, FieldsAre
  <2>3. Load8(s, p, opcode, ins) = SetR(s, R(p, y), s.reg[R(p, z)])
    BY <1>5 DEF Load8, I
  <2> QED BY <2>1, <2>2, <2>3, SetROK
<1>6. CASE ins = I("LD_N", "R") /\ y # 6
  <2>1. R(p, y) \in ByteRegister
    BY <1>1, <1>6, RIs
  <2>2. Load8(s, p, opcode, ins) = SetR(PastN(s), R(p, y), N(s))
    BY <1>6 DEF Load8, I
  <2> QED BY <1>2, <1>3, <2>1, <2>2, SetROK
<1>7. CASE ins = I("LD_R", "INDIRECT_HL") /\ y # 6
  <2>1. R("HL", y) \in ByteRegister
    BY <1>1, <1>4, <1>7, RIs
  <2>2. Load8(s, p, opcode, ins) = Load(PastAddress(s, p), R("HL", y), Address(s, p))
    BY <1>7 DEF Load8, I
  <2> QED BY <1>2, <1>3, <2>1, <2>2, LoadOK
<1>8. CASE ins = I("LD_INDIRECT_HL", "R") /\ z # 6
  <2>1. R("HL", z) \in ByteRegister
    BY <1>1, <1>4, <1>8, RIs
  <2>2. s.reg[R("HL", z)] \in Int
    BY <2>1, FieldsAre, ByteIs
  <2>3. Load8(s, p, opcode, ins) = Store(PastAddress(s, p), Address(s, p), s.reg[R("HL", z)])
    BY <1>8 DEF Load8, I
  <2> QED BY <1>2, <1>3, <2>2, <2>3, StoreOK
<1>9. CASE ins = I("LD_N", "INDIRECT_HL")
  <2>1. Store(PastN(s), Address(s, p), N(s)) \in Cpu
    BY <1>2, <1>3, StoreOK
  <2>2. Cycles(Store(PastN(PastN(s)), Address(s, p), N(PastN(s))), 2) \in Cpu
    BY <1>2, <1>3, StoreOK, CyclesOK
  <2>3. \/ Load8(s, p, opcode, ins) = Store(PastN(s), Address(s, p), N(s))
        \/ Load8(s, p, opcode, ins) = Cycles(Store(PastN(PastN(s)), Address(s, p), N(PastN(s))), 2)
    BY <1>9 DEF Load8, I
  <2> QED BY <2>1, <2>2, <2>3
<1>10. CASE ins.op = "LD_A" /\ ins.form \in {"BC", "DE", "NN", "TO_BC", "TO_DE", "TO_NN"}
  <2>1. Load8(s, p, opcode, ins) = LD_A(s, ins.form)
    BY <1>10 DEF Load8, I
  <2> QED BY <1>10, <2>1, LdAOK
<1>11. CASE ins.op = "LD_A_I_LD_A_R"
  <2>1. Load8(s, p, opcode, ins) = LD_A_SPECIAL(s, IF opcode = OPCODE_LD_A_I THEN s.i ELSE s.r)
    BY <1>11 DEF Load8, I
  <2> QED BY <2>1, FieldsAre, LdSpecialOK
<1>12. CASE ins.op = "LD_I_A_LD_R_A"
  <2>1. Load8(s, p, opcode, ins) =
          Cycles(IF opcode = OPCODE_LD_I_A THEN [s EXCEPT !.i = s.reg["A"]] ELSE [s EXCEPT !.r = s.reg["A"]], 1)
    BY <1>12 DEF Load8, I
  <2>2. s.reg["A"] \in Byte
    BY FieldsAre, NamesAre
  <2>3. [s EXCEPT !.i = s.reg["A"]] \in Cpu /\ [s EXCEPT !.r = s.reg["A"]] \in Cpu
    BY <2>2 DEF Cpu
  <2> QED BY <2>1, <2>3, CyclesOK
<1> QED BY <1>5, <1>6, <1>7, <1>8, <1>9, <1>10, <1>11, <1>12 DEF LoadForm

LEMMA Load16OK ==
  ASSUME NEW s \in Cpu, NEW p \in Index, NEW opcode \in Byte, NEW ins, LoadWordForm(ins)
  PROVE  Load16(s, p, opcode, ins) \in Cpu
<1> DEFINE rr == RR(p, P(opcode))
           ss == SS(p, P(opcode))
<1>1. rr \in WordRegister /\ ss \in WordRegister /\ p \in WordRegister
  BY Fields, WordTables, IndexIsWord
<1>2. GetW(s, rr) \in Int /\ GetW(s, ss) \in Int /\ GetW(s, p) \in Int
  BY <1>1, GetWInt
<1>3. PastNN(s) \in Cpu /\ NN(s) \in Int /\ "SP" \in WordRegister
  BY PastOK, ConstantsOK, WordIs, IndexIsWord
<1>4. \/ Load16(s, p, opcode, ins) = SetW(PastNN(s), rr, NN(s))
      \/ Load16(s, p, opcode, ins) = LoadW(PastNN(s), rr, NN(s))
      \/ Load16(s, p, opcode, ins) = StoreW(PastNN(s), NN(s), GetW(s, rr))
      \/ Load16(s, p, opcode, ins) = LoadW(PastNN(s), p, NN(s))
      \/ Load16(s, p, opcode, ins) = StoreW(PastNN(s), NN(s), GetW(s, p))
      \/ Load16(s, p, opcode, ins) = Cycles(SetW(s, "SP", GetW(s, p)), 2)
      \/ Load16(s, p, opcode, ins) = Cycles(PUSH(s, GetW(s, ss)), 1)
      \/ Load16(s, p, opcode, ins) = POP(s, ss)
  BY DEF Load16, LoadWordForm, I
<1> HIDE DEF rr, ss
<1>5. /\ SetW(PastNN(s), rr, NN(s)) \in Cpu /\ LoadW(PastNN(s), rr, NN(s)) \in Cpu
      /\ LoadW(PastNN(s), p, NN(s)) \in Cpu
  BY <1>1, <1>3, SetWOK, LoadWOK
<1>6. StoreW(PastNN(s), NN(s), GetW(s, rr)) \in Cpu /\ StoreW(PastNN(s), NN(s), GetW(s, p)) \in Cpu
  BY <1>2, <1>3, StoreWOK
<1>7. Cycles(SetW(s, "SP", GetW(s, p)), 2) \in Cpu /\ Cycles(PUSH(s, GetW(s, ss)), 1) \in Cpu
  BY <1>2, <1>3, SetWOK, PushOK, CyclesOK
<1>8. POP(s, ss) \in Cpu
  BY <1>1, PopOK
<1> QED BY <1>4, <1>5, <1>6, <1>7, <1>8

LEMMA SwapOK ==
  ASSUME NEW s \in Cpu, NEW w \in {"AF", "BC", "DE", "HL"}
  PROVE  SwapAlternate(s, w) \in Cpu
<1>1. w \in WordRegister
  BY DEF WordRegister
<1>2. GetW(s, w) \in Word /\ s.alt[w] \in Word
  BY <1>1, GetWOK, FieldsAre
<1>3. [s EXCEPT !.alt[w] = GetW(s, w)] \in Cpu
  BY <1>2 DEF Cpu
<1>4. s.alt[w] \in Int
  BY <1>2, WordIs
<1> QED BY <1>1, <1>3, <1>4, SetWOK DEF SwapAlternate

LEMMA ExchangeOK ==
  ASSUME NEW s \in Cpu, NEW p \in Index, NEW opcode, NEW ins, ins.op \in EXCHANGE
  PROVE  Exchange(s, p, opcode, ins) \in Cpu
<1>1. /\ p \in WordRegister /\ "DE" \in WordRegister /\ "HL" \in WordRegister
      /\ GetW(s, p) \in Int /\ GetW(s, "HL") \in Int /\ GetW(s, "DE") \in Int
  BY IndexIsWord, GetWInt
<1>2. s.SP \in Int /\ ReadWord(s, s.SP) \in Int
  BY PcIs, ReadWordOK, WordIs
<1>3. SetW(SetW(s, "DE", GetW(s, "HL")), "HL", GetW(s, "DE")) \in Cpu
  BY <1>1, SetWOK
<1>4. SwapAlternate(s, "AF") \in Cpu /\ SwapAlternate(SwapAlternate(SwapAlternate(s, "BC"), "DE"), "HL") \in Cpu
  <2>1. SwapAlternate(s, "BC") \in Cpu
    BY SwapOK
  <2>2. SwapAlternate(SwapAlternate(s, "BC"), "DE") \in Cpu
    BY <2>1, SwapOK
  <2> QED BY <2>2, SwapOK
<1>5. Cycles(SetW(StoreW(s, s.SP, GetW(s, p)), p, ReadWord(s, s.SP)), 6 + 3) \in Cpu
  <2>1. StoreW(s, s.SP, GetW(s, p)) \in Cpu
    BY <1>1, <1>2, StoreWOK
  <2>2. SetW(StoreW(s, s.SP, GetW(s, p)), p, ReadWord(s, s.SP)) \in Cpu
    BY <1>1, <1>2, <2>1, SetWOK
  <2>3. 6 + 3 \in Nat
    OBVIOUS
  <2> QED BY <2>2, <2>3, CyclesOK
<1> QED BY <1>3, <1>4, <1>5 DEF Exchange, EXCHANGE

LEMMA TowardsOK == ASSUME NEW opcode PROVE Towards(opcode) \in {1, -1}
BY DEF Towards

LEMMA BlockOnceOK ==
  ASSUME NEW s \in Cpu, NEW p, NEW opcode, NEW ins, ins.op \in BLOCK_ONCE
  PROVE  BlockOnce(s, p, opcode, ins) \in Cpu
<1> DEFINE n  == ReadByte(s, GetW(s, "HL"))
           bc == (GetW(s, "BC") - 1) % 65536
           t  == SetW(SetW(s, "BC", bc), "HL", GetW(s, "HL") + Towards(opcode))
           u  == WriteByte(SetW(t, "DE", GetW(s, "DE") + Towards(opcode)), GetW(s, "DE"), n)
           f  == CopyFlags(n, s.reg["A"], bc, s.F)
           g  == SearchFlags(n, s.reg["A"], bc, s.F)
<1>1. /\ "BC" \in WordRegister /\ "DE" \in WordRegister /\ "HL" \in WordRegister
      /\ GetW(s, "BC") \in Int /\ GetW(s, "HL") \in Int /\ GetW(s, "DE") \in Int
  BY IndexIsWord, GetWInt
<1>2. n \in Byte /\ n \in Int /\ s.reg["A"] \in Byte /\ s.F \in SUBSET Flag
  BY <1>1, ReadByteOK, ByteIs, FieldsAre, NamesAre
<1>3. /\ bc \in Int /\ GetW(s, "HL") + Towards(opcode) \in Int /\ GetW(s, "DE") + Towards(opcode) \in Int
  BY <1>1, TowardsOK
<1>4. BlockOnce(s, p, opcode, ins) =
        CASE ins.op = "LDI_LDD" -> Cycles([u EXCEPT !.F = f], 3 + 3 + 2)
          [] ins.op = "CPI_CPD" -> Cycles([t EXCEPT !.F = g], 3 + 5)
  BY DEF BlockOnce
<1> HIDE DEF n, bc
<1>5. t \in Cpu
  BY <1>1, <1>3, SetWOK
<1> HIDE DEF t
<1>6. SetW(t, "DE", GetW(s, "DE") + Towards(opcode)) \in Cpu
  BY <1>1, <1>3, <1>5, SetWOK
<1>7. u \in Cpu
  BY <1>1, <1>2, <1>6, WriteByteOK
<1>8. f \in SUBSET Flag /\ g \in SUBSET Flag
  BY <1>2, CopyFlagsOK, SearchFlagsOK
<1> HIDE DEF u, f, g
<1>9. [u EXCEPT !.F = f] \in Cpu /\ [t EXCEPT !.F = g] \in Cpu /\ 3 + 3 + 2 \in Nat /\ 3 + 5 \in Nat
  BY <1>5, <1>7, <1>8, SetFlagsOK
<1> QED BY <1>4, <1>9, CyclesOK DEF BLOCK_ONCE

LEMMA Arith8OK ==
  ASSUME NEW s \in Cpu, NEW p \in Index, NEW opcode \in Byte, NEW ins, ins.op \in ARITH8,
         (ins.form = "R" /\ Z(opcode) # 6) \/ ins.form \in {"N", "INDIRECT_HL"}
  PROVE  Arith8(s, p, opcode, ins) \in Cpu
<1> DEFINE on(t, x) == SetVF(t, "A", Accumulate(ins.op, s.reg["A"], x, s.F))
<1>1. s.reg["A"] \in Byte /\ s.F \in SUBSET Flag /\ "A" \in ByteRegister
  BY FieldsAre, NamesAre
<1>2. ASSUME NEW t \in Cpu, NEW x \in Byte PROVE on(t, x) \in Cpu
  BY <1>1, AccumulateOK, SetVFOK
<1>3. CASE ins.form = "R" /\ Z(opcode) # 6
  <2>1. R(p, Z(opcode)) \in ByteRegister
    BY <1>3, Fields, RIs
  <2>2. s.reg[R(p, Z(opcode))] \in Byte
    BY <2>1, FieldsAre
  <2>3. Arith8(s, p, opcode, ins) = on(s, s.reg[R(p, Z(opcode))])
    BY <1>3 DEF Arith8
  <2> QED BY <1>2, <2>2, <2>3
<1>4. CASE ins.form = "N"
  <2>1. Arith8(s, p, opcode, ins) = on(PastN(s), N(s))
    BY <1>4 DEF Arith8
  <2>2. PastN(s) \in Cpu /\ N(s) \in Byte
    BY PastOK, ConstantsOK
  <2> QED BY <1>2, <2>1, <2>2
<1>5. CASE ins.form = "INDIRECT_HL"
  <2>1. Arith8(s, p, opcode, ins) = on(Cycles(PastAddress(s, p), 3), ReadByte(s, Address(s, p)))
    BY <1>5 DEF Arith8
  <2>2. Cycles(PastAddress(s, p), 3) \in Cpu /\ ReadByte(s, Address(s, p)) \in Byte
    BY PastAddressOK, CyclesOK, AddressIs, ReadByteOK
  <2> QED BY <1>2, <2>1, <2>2
<1> QED BY <1>3, <1>4, <1>5

LEMMA StoredFlagsOK ==
  ASSUME NEW s \in Cpu, NEW a \in Int, NEW u \in Result, NEW n \in Nat
  PROVE  Cycles([WriteByte(s, a, u.v) EXCEPT !.F = u.f], n) \in Cpu
<1>1. u.v \in Byte /\ u.f \in SUBSET Flag
  BY DEF Result
<1>2. u.v \in Int
  BY <1>1, ByteIs
<1>3. WriteByte(s, a, u.v) \in Cpu
  BY <1>2, WriteByteOK
<1> QED BY <1>1, <1>3, SetFlagsOK, CyclesOK

LEMMA IncDecGroupOK ==
  ASSUME NEW s \in Cpu, NEW p \in Index, NEW opcode \in Byte, NEW ins, ins.op \in INC_DEC,
         (ins.form = "R" /\ Y(opcode) # 6) \/ ins.form = "INDIRECT_HL"
  PROVE  IncDec(s, p, opcode, ins) \in Cpu
<1> DEFINE step(x) == IF ins.op = "INC" THEN INC(x, s.F) ELSE DEC(x, s.F)
<1>1. ASSUME NEW x \in Byte PROVE step(x) \in Result
  BY FieldsAre, IncDecOK
<1>2. CASE ins.form = "R" /\ Y(opcode) # 6
  <2>1. R(p, Y(opcode)) \in ByteRegister
    BY <1>2, Fields, RIs
  <2>2. s.reg[R(p, Y(opcode))] \in Byte
    BY <2>1, FieldsAre
  <2>3. IncDec(s, p, opcode, ins) = SetVF(s, R(p, Y(opcode)), step(s.reg[R(p, Y(opcode))]))
    BY <1>2 DEF IncDec
  <2>4. step(s.reg[R(p, Y(opcode))]) \in Result
    BY <1>1, <2>2
  <2> HIDE DEF step
  <2> QED BY <2>1, <2>3, <2>4, SetVFOK
<1>3. CASE ins.form = "INDIRECT_HL"
  <2> DEFINE u == step(ReadByte(s, Address(s, p)))
  <2>1. IncDec(s, p, opcode, ins) =
          Cycles([WriteByte(PastAddress(s, p), Address(s, p), u.v) EXCEPT !.F = u.f], 3 + 3 + 1)
    BY <1>3 DEF IncDec
  <2>2. u \in Result /\ PastAddress(s, p) \in Cpu /\ Address(s, p) \in Int /\ 3 + 3 + 1 \in Nat
    BY <1>1, AddressIs, ReadByteOK, PastAddressOK
  <2> HIDE DEF u
  <2> QED BY <2>1, <2>2, StoredFlagsOK
<1> QED BY <1>2, <1>3

LEMMA OnAccumulatorOK ==
  ASSUME NEW s \in Cpu, NEW p, NEW opcode, NEW ins, ins.op \in ACCUMULATOR
  PROVE  OnAccumulator(s, p, opcode, ins) \in Cpu
<1>1. s.reg["A"] \in Byte /\ s.F \in SUBSET Flag /\ "A" \in ByteRegister
  BY FieldsAre, NamesAre
<1>2. Accumulator(ins.op, s.reg["A"], s.F) \in Result
  BY <1>1, AccumulatorOK
<1> QED BY <1>1, <1>2, SetVFOK DEF OnAccumulator

LEMMA Arith16OK ==
  ASSUME NEW s \in Cpu, NEW p \in Index, NEW opcode \in Byte, NEW ins, ins.op \in ARITH16
  PROVE  Arith16(s, p, opcode, ins) \in Cpu
<1> DEFINE rr == RR(p, P(opcode))
           y  == GetW(s, rr)
           to(w, u) == Cycles([SetW(s, w, u.v) EXCEPT !.F = u.f], 7)
<1>1. rr \in WordRegister /\ p \in WordRegister /\ "HL" \in WordRegister
  BY Fields, WordTables, IndexIsWord
<1>2. y \in Word /\ GetW(s, p) \in Word /\ GetW(s, "HL") \in Word /\ s.F \in SUBSET Flag
  BY <1>1, GetWOK, FieldsAre
<1>3. ASSUME NEW w \in WordRegister, NEW u \in Result16 PROVE to(w, u) \in Cpu
  <2>1. u.v \in Word /\ u.f \in SUBSET Flag
    BY DEF Result16
  <2>2. u.v \in Int
    BY <2>1, WordIs
  <2>3. SetW(s, w, u.v) \in Cpu
    BY <2>2, SetWOK
  <2> QED BY <2>1, <2>3, SetFlagsOK, CyclesOK
<1>4. Arith16(s, p, opcode, ins) =
        CASE ins.op = "ADD_HL_RR" -> to(p, ADD_HL(GetW(s, p), y, s.F))
          [] ins.op = "ADC_HL_RR" -> to("HL", ADC_HL(GetW(s, "HL"), y, s.F))
          [] ins.op = "SBC_HL_RR" -> to("HL", SBC_HL(GetW(s, "HL"), y, s.F))
          [] ins.op = "INC_RR"    -> Cycles(SetW(s, rr, y + 1), 2)
          [] ins.op = "DEC_RR"    -> Cycles(SetW(s, rr, y - 1), 2)
  BY DEF Arith16
<1> HIDE DEF to, y, rr
<1>5. /\ to(p, ADD_HL(GetW(s, p), y, s.F)) \in Cpu /\ to("HL", ADC_HL(GetW(s, "HL"), y, s.F)) \in Cpu
      /\ to("HL", SBC_HL(GetW(s, "HL"), y, s.F)) \in Cpu
  BY <1>1, <1>2, <1>3, WordSumsOK
<1>6. Cycles(SetW(s, rr, y + 1), 2) \in Cpu /\ Cycles(SetW(s, rr, y - 1), 2) \in Cpu
  <2>1. y + 1 \in Int /\ y - 1 \in Int
    BY <1>2, WordIs
  <2> QED BY <1>1, <2>1, SetWOK, CyclesOK
<1> QED BY <1>4, <1>5, <1>6 DEF ARITH16

LEMMA PastIndexedCbOK == ASSUME NEW s \in Cpu, NEW p PROVE PastIndexedCb(s, p) \in Cpu
<1>1. s.pc + 2 \in Int
  BY PcIs
<1> QED BY <1>1, JumpOK, CyclesOK DEF PastIndexedCb

LEMMA StoreCbOK ==
  ASSUME NEW s \in Cpu, NEW p \in Index, NEW opcode \in Byte, NEW u \in Result
  PROVE  StoreCb(s, p, opcode, u) \in Cpu
<1> DEFINE t == [WriteByte(PastIndexedCb(s, p), Address(s, p), u.v) EXCEPT !.F = u.f]
<1>1. u.v \in Byte /\ u.f \in SUBSET Flag
  BY DEF Result
<1>2. t \in Cpu
  <2>1. u.v \in Int /\ PastIndexedCb(s, p) \in Cpu /\ Address(s, p) \in Int
    BY <1>1, ByteIs, PastIndexedCbOK, AddressIs
  <2>2. WriteByte(PastIndexedCb(s, p), Address(s, p), u.v) \in Cpu
    BY <2>1, WriteByteOK
  <2> QED BY <1>1, <2>2, SetFlagsOK
<1>3. StoreCb(s, p, opcode, u) =
        Cycles(IF p # "HL" /\ Z(opcode) # INDIRECT_HL THEN SetR(t, R(p, Z(opcode)), u.v) ELSE t, 3 + 3)
  BY DEF StoreCb
<1>4. Z(opcode) # 6 => R(p, Z(opcode)) \in ByteRegister
  BY Fields, RIs
<1> HIDE DEF t
<1>5. Z(opcode) # 6 => SetR(t, R(p, Z(opcode)), u.v) \in Cpu
  BY <1>1, <1>2, <1>4, SetROK
<1>6. 3 + 3 \in Nat
  OBVIOUS
<1> QED BY <1>2, <1>3, <1>5, <1>6, CyclesOK DEF INDIRECT_HL

LEMMA ShiftOneOK ==
  ASSUME NEW s \in Cpu, NEW p \in Index, NEW opcode \in Byte, NEW ins, ins.op \in SHIFTS,
         (ins.form = "R" /\ Z(opcode) # 6) \/ ins.form = "INDIRECT_HL"
  PROVE  ShiftOne(s, p, opcode, ins) \in Cpu
<1>1. s.F \in SUBSET Flag
  BY FieldsAre
<1>2. CASE ins.form = "R" /\ Z(opcode) # 6
  <2>1. R(p, Z(opcode)) \in ByteRegister
    BY <1>2, Fields, RIs
  <2>2. s.reg[R(p, Z(opcode))] \in Byte
    BY <2>1, FieldsAre
  <2>3. ShiftOne(s, p, opcode, ins) =
          SetVF(s, R(p, Z(opcode)), Shift(ins.op, s.reg[R(p, Z(opcode))], s.F))
    BY <1>2 DEF ShiftOne
  <2>4. Shift(ins.op, s.reg[R(p, Z(opcode))], s.F) \in Result
    BY <1>1, <2>2, ShiftOK
  <2> QED BY <2>1, <2>3, <2>4, SetVFOK
<1>3. CASE ins.form = "INDIRECT_HL"
  <2>1. ShiftOne(s, p, opcode, ins) = StoreCb(s, p, opcode, Shift(ins.op, ReadByte(s, Address(s, p)), s.F))
    BY <1>3 DEF ShiftOne
  <2>2. Shift(ins.op, ReadByte(s, Address(s, p)), s.F) \in Result
    BY <1>1, AddressIs, ReadByteOK, ShiftOK
  <2> QED BY <2>1, <2>2, StoreCbOK
<1> QED BY <1>2, <1>3

LEMMA OneBitOK ==
  ASSUME NEW s \in Cpu, NEW p \in Index, NEW opcode \in Byte, NEW ins, ins.op \in BITS,
         (ins.form = "R" /\ Z(opcode) # 6) \/ ins.form = "INDIRECT_HL"
  PROVE  OneBit(s, p, opcode, ins) \in Cpu
<1> DEFINE b    == Y(opcode)
           name == R(p, Z(opcode))
           x    == IF ins.form = "R" THEN s.reg[name] ELSE ReadByte(s, Address(s, p))
           v    == WithBit(ins.op, b, x)
<1>1. b \in 0 .. 7
  BY Fields
<1>2. ins.form = "R" => name \in ByteRegister
  BY Fields, RIs
<1>3. x \in Byte
  <2>1. CASE ins.form = "R"
    BY <1>2, <2>1, FieldsAre
  <2>2. CASE ins.form # "R"
    BY <2>2, AddressIs, ReadByteOK
  <2> QED BY <2>1, <2>2
<1>4. \/ OneBit(s, p, opcode, ins) = [s EXCEPT !.F = TestBit(b, x, x, s.F)]
      \/ OneBit(s, p, opcode, ins) =
           Cycles([PastIndexedCb(s, p) EXCEPT !.F = TestBit(b, x, Address(s, p) % 256, s.F)], 3)
      \/ ins.form = "R" /\ OneBit(s, p, opcode, ins) = SetR(s, name, v)
      \/ OneBit(s, p, opcode, ins) = StoreCb(s, p, opcode, [v |-> v, f |-> s.F])
  BY DEF OneBit
<1> HIDE DEF x, b, name
<1>5. v \in Byte
  BY <1>1, <1>3, WithBitOK
<1>6. s.F \in SUBSET Flag
  BY FieldsAre
<1> HIDE DEF v
<1>7. [s EXCEPT !.F = TestBit(b, x, x, s.F)] \in Cpu
  BY <1>3, <1>6, TestBitOK, SetFlagsOK
<1>8. Cycles([PastIndexedCb(s, p) EXCEPT !.F = TestBit(b, x, Address(s, p) % 256, s.F)], 3) \in Cpu
  <2>1. Address(s, p) % 256 \in Byte
    BY AddressIs, InByte
  <2>2. TestBit(b, x, Address(s, p) % 256, s.F) \in SUBSET Flag
    BY <1>6, <2>1, TestBitOK
  <2> QED BY <2>2, PastIndexedCbOK, SetFlagsOK, CyclesOK
<1>9. ins.form = "R" => SetR(s, name, v) \in Cpu
  BY <1>2, <1>5, SetROK
<1>10. StoreCb(s, p, opcode, [v |-> v, f |-> s.F]) \in Cpu
  <2>1. [v |-> v, f |-> s.F] \in Result
    BY <1>5, <1>6 DEF Result
  <2> QED BY <2>1, StoreCbOK
<1> QED BY <1>4, <1>7, <1>8, <1>9, <1>10

LEMMA RotateDigitOK ==
  ASSUME NEW s \in Cpu, NEW p, NEW opcode, NEW ins PROVE RotateDigit(s, p, opcode, ins) \in Cpu
<1> DEFINE x   == ReadByte(s, GetW(s, "HL"))
           a   == s.reg["A"]
           low == IF opcode = OPCODE_RLD THEN x \div 16 ELSE x % 16
           v   == 16 * (a \div 16) + low
           m   == IF opcode = OPCODE_RLD THEN 16 * (x % 16) + (a % 16) ELSE 16 * (a % 16) + (x \div 16)
           f   == SZYXP_FLAGS_TABLE[v] \cup (s.F \cap {"C"})
           t   == WriteByte(s, GetW(s, "HL"), m)
<1>1. GetW(s, "HL") \in Int
  BY IndexIsWord, GetWInt
<1>2. x \in Byte /\ a \in Byte
  BY <1>1, ReadByteOK, FieldsAre, NamesAre
<1>3. RotateDigit(s, p, opcode, ins) = Cycles([t EXCEPT !.reg["A"] = v, !.F = f], 3 + 3 + 4)
  BY DEF RotateDigit
<1> HIDE DEF x, a
<1>4. low \in 0 .. 15 /\ m \in Int
  BY <1>2 DEF Byte
<1> HIDE DEF low, m
<1>5. v \in Byte
  <2>1. a \div 16 \in 0 .. 15
    BY <1>2 DEF Byte
  <2>2. v \in Int /\ 0 <= v /\ v <= 255
    BY <1>4, <2>1
  <2> QED BY <2>2, IsByte
<1> HIDE DEF v
<1>6. f \in SUBSET Flag /\ t \in Cpu
  BY <1>1, <1>4, <1>5, TablesOK, WriteByteOK, FieldsAre
<1> HIDE DEF f, t
<1>7. [SetR(t, "A", v) EXCEPT !.F = f] \in Cpu
  BY <1>5, <1>6, NamesAre, SetROK, SetFlagsOK
<1>8. [SetR(t, "A", v) EXCEPT !.F = f] = [t EXCEPT !.reg["A"] = v, !.F = f]
  BY DEF SetR
<1>9. 3 + 3 + 4 \in Nat
  OBVIOUS
<1> QED BY <1>3, <1>7, <1>8, <1>9, CyclesOK

LEMMA RelativeOK == ASSUME NEW s \in Cpu PROVE Relative(s) \in Cpu
<1>1. s.pc + Signed(N(s)) + 1 \in Int
  BY PcIs, ConstantsOK, SignedOK
<1> QED BY <1>1, JumpOK DEF Relative

LEMMA JumpGroupOK ==
  ASSUME NEW s \in Cpu, NEW p \in Index, NEW opcode, NEW ins, ins.op \in JUMP
  PROVE  JumpGroup(s, p, opcode, ins) \in Cpu
<1> DEFINE t == SetR(s, "B", (s.reg["B"] - 1) % 256)
<1>1. t \in Cpu
  <2>1. s.reg["B"] \in Byte /\ "B" \in ByteRegister
    BY FieldsAre, NamesAre
  <2>2. s.reg["B"] - 1 \in Int
    BY <2>1, ByteIs
  <2>3. (s.reg["B"] - 1) % 256 \in Byte
    BY <2>2, InByte
  <2> QED BY <2>1, <2>3, SetROK
<1>2. \/ JumpGroup(s, p, opcode, ins) = Cycles(Jump(s, NN(s)), 6)
      \/ JumpGroup(s, p, opcode, ins) = Cycles(Jump(s, s.pc + 2), 6)
      \/ JumpGroup(s, p, opcode, ins) = Cycles(Relative(s), 8)
      \/ JumpGroup(s, p, opcode, ins) = Cycles(Jump(s, s.pc + 1), 3)
      \/ JumpGroup(s, p, opcode, ins) = Jump(s, GetW(s, p))
      \/ JumpGroup(s, p, opcode, ins) = Cycles(Relative(t), 9)
      \/ JumpGroup(s, p, opcode, ins) = Cycles(Jump(t, t.pc + 1), 4)
  <2>1. CASE ins.op = "DJNZ_E"
    BY <2>1 DEF JumpGroup
  <2>2. CASE ins.op \in {"JP_NN", "JP_CC_NN", "JP_HL"}
    BY <2>2 DEF JumpGroup
  <2>3. CASE ins.op \in {"JR_E", "JR_DD_E"}
    BY <2>3 DEF JumpGroup
  <2> QED BY <2>1, <2>2, <2>3 DEF JUMP
<1> HIDE DEF t
<1>3. /\ NN(s) \in Int /\ s.pc + 2 \in Int /\ s.pc + 1 \in Int /\ GetW(s, p) \in Int /\ t.pc + 1 \in Int
  BY <1>1, ConstantsOK, WordIs, PcIs, IndexIsWord, GetWInt
<1>4. /\ Jump(s, NN(s)) \in Cpu /\ Jump(s, s.pc + 2) \in Cpu /\ Jump(s, s.pc + 1) \in Cpu
      /\ Jump(s, GetW(s, p)) \in Cpu /\ Jump(t, t.pc + 1) \in Cpu
  BY <1>1, <1>3, JumpOK
<1>5. Relative(s) \in Cpu /\ Relative(t) \in Cpu
  BY <1>1, RelativeOK
<1> QED BY <1>2, <1>4, <1>5, CyclesOK

LEMMA CallReturnOK ==
  ASSUME NEW s \in Cpu, NEW p, NEW opcode \in Byte, NEW ins, ins.op \in CALL_RETURN
  PROVE  CallReturn(s, p, opcode, ins) \in Cpu
<1>1. Call(s) \in Cpu
  <2>1. s.pc + 2 \in Int /\ NN(s) \in Int /\ PastNN(s) \in Cpu
    BY PcIs, ConstantsOK, WordIs, PastOK
  <2>2. PUSH(PastNN(s), s.pc + 2) \in Cpu
    BY <2>1, PushOK
  <2>3. Jump(PUSH(PastNN(s), s.pc + 2), NN(s)) \in Cpu
    BY <2>1, <2>2, JumpOK
  <2> QED BY <2>3, CyclesOK DEF Call
<1>2. POP_PC(s) \in Cpu
  BY PopOK, IndexIsWord
<1>3. POP_PC([s EXCEPT !.iff1 = s.iff2]) \in Cpu
  <2>1. [s EXCEPT !.iff1 = s.iff2] \in Cpu
    BY DEF Cpu
  <2> QED BY <2>1, PopOK, IndexIsWord
<1>4. Cycles(Jump(PUSH(s, s.pc), RST_TABLE[Y(opcode)]), 1) \in Cpu
  <2>1. s.pc \in Int /\ RST_TABLE[Y(opcode)] \in Int
    BY PcIs, Fields DEF RST_TABLE
  <2>2. PUSH(s, s.pc) \in Cpu
    BY <2>1, PushOK
  <2> QED BY <2>1, <2>2, JumpOK, CyclesOK
<1>5. Cycles(IF CC(Y(opcode), s.F) THEN POP_PC(s) ELSE s, 1) \in Cpu
  BY <1>2, CyclesOK
<1>6. \/ CallReturn(s, p, opcode, ins) = Call(s)
      \/ CallReturn(s, p, opcode, ins) = PastNN(s)
      \/ CallReturn(s, p, opcode, ins) = POP_PC(s)
      \/ CallReturn(s, p, opcode, ins) = Cycles(IF CC(Y(opcode), s.F) THEN POP_PC(s) ELSE s, 1)
      \/ CallReturn(s, p, opcode, ins) = POP_PC([s EXCEPT !.iff1 = s.iff2])
      \/ CallReturn(s, p, opcode, ins) = Cycles(Jump(PUSH(s, s.pc), RST_TABLE[Y(opcode)]), 1)
  BY DEF CallReturn, CALL_RETURN
<1> QED BY <1>1, <1>2, <1>3, <1>4, <1>5, <1>6, PastOK

LEMMA ControlOK ==
  ASSUME NEW s \in Cpu, NEW opcode, NEW ins
  PROVE  SetInterrupts(s, ins) \in Cpu /\ SetMode(s, opcode) \in Cpu
<1>1. SetInterrupts(s, ins) \in Cpu
  BY DEF SetInterrupts, Cpu
<1>2. SetMode(s, opcode) \in Cpu
  BY DEF SetMode, Cpu
<1> QED BY <1>1, <1>2

-----------------------------------------------------------------------------
(* The inductive invariant: the shapes of the variables, what has been     *)
(* decoded, and how much of the budget is left.                            *)

Phases == {"host", "opcode", "execute", "copy", "search", "aborted", "gave_up"}
Blocks == {"copy", "search"}

Shapes ==
  /\ cpu \in Cpu
  /\ phase \in Phases
  /\ call \in [start : Nat, budget : Int]
  /\ cur = [p |-> cur.p, opcode |-> cur.opcode, ins |-> cur.ins]
  /\ cur.p \in Index /\ cur.opcode \in Byte
  /\ blk \in [bc : Int, de : Int, hl : Int, n : Byte, turns : Nat]
  /\ sub = NoSub \/ (sub.sp \in Word /\ sub.pc \in Word)
  /\ begun \in [pc : Word, r : Byte, cycles : Nat, bus : Byte \cup {NoOpcode}]
  /\ calls \subseteq HostCalls

\* An instruction of the tables is executed; a repeating one was read with ED in front,
\* and so were ADC HL, rr and SBC HL, rr, which therefore no index prefix applies to.
Decoding ==
  phase = "execute" =>
    /\ KnownIns(Y(cur.opcode), Z(cur.opcode), cur.ins)
    /\ cpu.cycles >= IF cur.ins.op \in REPEATED THEN 8 ELSE 4
    /\ cur.ins.op \in EDSUMS => cur.p = "HL"

\* What is done in a call was begun before its budget was used up.
Budgets ==
  /\ phase = "opcode" => Elapsed(cpu) < call.budget
  /\ phase \in Blocks \cup {"execute"} => begun.cycles - call.start < call.budget
  /\ phase \in Blocks /\ blk.turns > 0 => Elapsed(cpu) < call.budget

Sound == Shapes /\ Decoding /\ Budgets

LEMMA CallsAre ==
  ASSUME NEW c \in HostCalls
  PROVE  /\ c.name = "Z80Emulate" => c.arg \in Nat \ {0}
         /\ c.name = "Z80Interrupt" => c.arg \in Byte
         /\ c.arg \in Nat
BY DEF HostCalls, Byte

LEMMA NoBlockOK == NoBlock \in [bc : Int, de : Int, hl : Int, n : Byte, turns : Nat]
<1>1. 0 \in Byte
  BY IsByte
<1> QED BY <1>1 DEF NoBlock

LEMMA InitSound == ASSUME Init PROVE Sound
<1>1. cpu \in Cpu /\ calls \subseteq HostCalls
  <2>1. PICK s \in Starts : cpu = s.cpu /\ calls = s.calls
    BY DEF Init
  <2> QED BY <2>1, StartsAssumption
<1>2. 0 \in Byte /\ 0 \in Word
  BY IsByte, IsWord
<1>3. Shapes
  <2>1. begun \in [pc : Word, r : Byte, cycles : Nat, bus : Byte \cup {NoOpcode}]
    BY <1>2 DEF Init
  <2>2. cur = [p |-> cur.p, opcode |-> cur.opcode, ins |-> cur.ins] /\ cur.p \in Index /\ cur.opcode \in Byte
    BY <1>2 DEF Init, Idle, Index
  <2> QED BY <1>1, <2>1, <2>2, NoBlockOK DEF Init, Shapes, Phases
<1>4. Decoding /\ Budgets
  BY DEF Init, Decoding, Budgets, Blocks
<1> QED BY <1>3, <1>4 DEF Sound

\* After an instruction or a turn the host has control, or budget is left.
LEMMA FinishSound ==
  ASSUME Sound, NEW s \in Cpu, NEW b \in Int, Finish(s, b), phase \in Blocks \cup {"execute"},
         blk' \in [bc : Int, de : Int, hl : Int, n : Byte, turns : Nat]
  PROVE  Sound'
<1>1. Shapes'
  BY DEF Sound, Shapes, Finish, Phases
<1>2. phase' \in {"host", "opcode"} /\ (phase' = "opcode" => ~(Elapsed(s) >= b))
  BY DEF Finish
<1>3. Decoding'
  BY <1>2 DEF Decoding
<1>4. phase' = "opcode" => (Elapsed(cpu) < call.budget)'
  <2>1. (Elapsed(cpu))' = Elapsed(s) /\ call'.budget = b
    BY DEF Elapsed, Finish, Sound, Shapes
  <2>2. Elapsed(s) \in Int
    BY FieldsAre DEF Elapsed, Sound, Shapes
  <2> QED BY <1>2, <2>1, <2>2
<1>5. Budgets'
  BY <1>2, <1>4 DEF Budgets, Blocks
<1> QED BY <1>1, <1>3, <1>5 DEF Sound

LEMMA DoSound ==
  ASSUME Sound, NEW s \in Cpu, Do(s), phase = "execute"
  PROVE  Sound'
<1>1. Finish(s, call.budget) /\ blk' = blk
  BY DEF Do
<1>2. call.budget \in Int /\ blk \in [bc : Int, de : Int, hl : Int, n : Byte, turns : Nat]
  BY DEF Sound, Shapes
<1> QED BY <1>1, <1>2, FinishSound

\* The host has control: nothing is being executed.
LEMMA HostSound ==
  ASSUME Shapes', phase' \in {"host", "aborted", "gave_up"}
  PROVE  Sound'
BY DEF Sound, Decoding, Budgets, Blocks

LEMMA PushedOK == ASSUME NEW s \in Cpu PROVE Pushed(s) \in Cpu
<1>1. s.SP - 2 \in Int /\ s.pc \in Int
  BY PcIs
<1>2. SetW(s, "SP", s.SP - 2) \in Cpu
  BY <1>1, SetWOK, IndexIsWord
<1> QED BY <1>1, <1>2, WriteWordOK DEF Pushed

LEMMA CountedOK == ASSUME NEW s \in Cpu PROVE Counted(s) \in Cpu /\ Counted(s).cycles = s.cycles + 4
<1>1. Cycles(s, 4) \in Cpu /\ Cycles(s, 4).cycles = s.cycles + 4
  BY CyclesOK DEF Cycles, Cpu
<1>2. Refreshed(Cycles(s, 4)).cycles = Cycles(s, 4).cycles
  BY <1>1 DEF Refreshed, Cpu
<1> QED BY <1>1, <1>2, RefreshedOK DEF Counted

LEMMA InterruptedOK ==
  ASSUME NEW s \in Cpu
  PROVE  /\ [s EXCEPT !.iff1 = 0, !.iff2 = 0] \in Cpu
         /\ [s EXCEPT !.iff2 = s.iff1, !.iff1 = 0] \in Cpu
BY DEF Cpu

LEMMA EmulateSound == ASSUME Sound, NEW c \in calls, Z80Emulate(c.arg) PROVE Sound'
<1>1. EMULATE(c.arg) \in HostCalls
  BY DEF Z80Emulate, MayCall, Sound, Shapes
<1>2. c.arg \in Nat \ {0}
  BY <1>1, CallsAre DEF EMULATE
<1>3. cpu.cycles \in Nat
  BY FieldsAre DEF Sound, Shapes
<1>4. Shapes'
  BY <1>2, <1>3 DEF Z80Emulate, StartCall, Sound, Shapes, Phases
<1>5. Decoding'
  BY DEF Z80Emulate, StartCall, Decoding
<1>6. Budgets'
  BY <1>2, <1>3 DEF Z80Emulate, StartCall, Budgets, Blocks, Elapsed
<1> QED BY <1>4, <1>5, <1>6 DEF Sound

LEMMA InterruptSound == ASSUME Sound, NEW c \in calls, Z80Interrupt(c.arg) PROVE Sound'
<1>1. INTERRUPT(c.arg) \in HostCalls
  BY DEF Z80Interrupt, MayCall, Sound, Shapes
<1>2. c.arg \in Byte
  BY <1>1, CallsAre DEF INTERRUPT
<1> DEFINE t == [cpu EXCEPT !.iff1 = 0, !.iff2 = 0]
           s == Refreshed(t)
<1>3. t \in Cpu /\ t.cycles = cpu.cycles /\ cpu \in Cpu /\ cpu.cycles \in Nat
  BY InterruptedOK, FieldsAre DEF Sound, Shapes, Cpu
<1>4. s \in Cpu /\ s.cycles = t.cycles
  <2>1. s \in Cpu
    BY <1>3, RefreshedOK
  <2>2. s.cycles = t.cycles
    BY <1>3 DEF Refreshed, Cpu
  <2> QED BY <2>1, <2>2
<1>5. phase = "host" /\ UNCHANGED <<blk, sub, calls>>
  BY DEF Z80Interrupt, MayCall
<1>6. CASE InterruptMode0(c.arg)
  <2>1. /\ cpu' = Counted(s)
        /\ cur' = [p |-> "HL", opcode |-> c.arg, ins |-> INSTRUCTION_TABLE[c.arg]]
        /\ begun' = [pc |-> s.pc, r |-> s.r, cycles |-> s.cycles, bus |-> c.arg]
        /\ call' = [start |-> cpu.cycles, budget |-> 4]
        /\ phase' = "execute"
    BY <1>6 DEF InterruptMode0
  <2> HIDE DEF s, t
  <2>2. s.pc \in Word /\ s.r \in Byte /\ s.cycles \in Nat
    BY <1>4, FieldsAre
  <2>3. begun' \in [pc : Word, r : Byte, cycles : Nat, bus : Byte \cup {NoOpcode}]
    BY <1>2, <2>1, <2>2
  <2>4. cpu' \in Cpu /\ cpu'.cycles = s.cycles + 4
    BY <1>4, <2>1, CountedOK
  <2>5. cur'.p = "HL" /\ cur'.opcode = c.arg /\ cur'.ins = INSTRUCTION_TABLE[c.arg]
    BY <2>1
  <2>6. cur' = [p |-> cur'.p, opcode |-> cur'.opcode, ins |-> cur'.ins]
    BY <2>1, <2>5
  <2>7. call' \in [start : Nat, budget : Int]
    BY <1>3, <2>1
  <2>8. Shapes'
    BY <1>2, <1>5, <2>1, <2>3, <2>4, <2>5, <2>6, <2>7 DEF Sound, Shapes, Phases, Index
  <2>9. Decoding'
    BY <1>2, <2>2, <2>4, <2>5, TableOK DEF Decoding
  <2>10. Budgets'
    BY <1>3, <1>4, <2>1 DEF Budgets, Blocks
  <2> QED BY <2>8, <2>9, <2>10 DEF Sound
<1>7. CASE InterruptMode1
  <2>1. cpu' = Cycles(Jump(Pushed(s), 56), 13) /\ UNCHANGED <<cur, begun, call, phase>>
    BY <1>7 DEF InterruptMode1
  <2>2. cpu' \in Cpu
    BY <1>4, <2>1, PushedOK, JumpOK, CyclesOK
  <2>3. Shapes'
    BY <1>5, <2>1, <2>2 DEF Sound, Shapes
  <2> QED BY <1>5, <2>1, <2>3, HostSound
<1>8. CASE InterruptMode2(c.arg)
  <2>1. cpu' = Cycles(Pushed(s), 19) /\ UNCHANGED <<cur, begun, call, phase>>
    BY <1>8 DEF InterruptMode2
  <2>2. cpu' \in Cpu
    BY <1>4, <2>1, PushedOK, CyclesOK
  <2>3. Shapes'
    BY <1>5, <2>1, <2>2 DEF Sound, Shapes
  <2> QED BY <1>5, <2>1, <2>3, HostSound
<1> QED BY <1>6, <1>7, <1>8 DEF Z80Interrupt

LEMMA NmiSound == ASSUME Sound, Z80NonMaskableInterrupt PROVE Sound'
<1> DEFINE s == Refreshed([cpu EXCEPT !.iff2 = cpu.iff1, !.iff1 = 0])
<1>1. s \in Cpu
  BY InterruptedOK, RefreshedOK DEF Sound, Shapes
<1>2. cpu' = Cycles(Jump(Pushed(s), 102), 11)
  BY DEF Z80NonMaskableInterrupt
<1> HIDE DEF s
<1>3. cpu' \in Cpu
  BY <1>1, <1>2, PushedOK, JumpOK, CyclesOK
<1>4. Shapes'
  BY <1>3 DEF Z80NonMaskableInterrupt, Sound, Shapes
<1>5. phase' = "host"
  BY DEF Z80NonMaskableInterrupt, MayCall
<1> QED BY <1>4, <1>5, HostSound

LEMMA EnterSound == ASSUME Sound, NEW c \in calls, EnterSubroutine(c.arg) PROVE Sound'
<1>1. c.arg \in Int
  BY CallsAre DEF Sound, Shapes
<1>2. cpu \in Cpu
  BY DEF Sound, Shapes
<1>3. cpu' \in Cpu
  BY <1>1, <1>2, PushedOK, JumpOK DEF EnterSubroutine
<1>4. (cpu.SP - 2) % 65536 \in Word /\ cpu.pc \in Word
  BY <1>2, PcIs, InWord, FieldsAre
<1>5. sub'.sp \in Word /\ sub'.pc \in Word
  BY <1>4 DEF EnterSubroutine
<1>6. Shapes'
  BY <1>3, <1>5 DEF EnterSubroutine, Sound, Shapes
<1>7. phase' = "host"
  BY DEF EnterSubroutine, MayCall
<1> QED BY <1>6, <1>7, HostSound

LEMMA StepSound == ASSUME Sound, StepSubroutine PROVE Sound'
<1>1. cpu.cycles \in Nat
  BY FieldsAre DEF Sound, Shapes
<1>2. Shapes'
  BY <1>1 DEF StepSubroutine, StartCall, Sound, Shapes, Phases
<1>3. Decoding'
  BY DEF StepSubroutine, StartCall, Decoding
<1>4. Budgets'
  BY <1>1 DEF StepSubroutine, StartCall, Budgets, Blocks, Elapsed
<1> QED BY <1>2, <1>3, <1>4 DEF Sound

LEMMA LeaveSound == ASSUME Sound, LeaveSubroutine PROVE Sound'
<1>1. cpu \in Cpu
  BY DEF Sound, Shapes
<1>2. ReadWord(cpu, cpu.SP - 2) \in Int
  <2>1. cpu.SP - 2 \in Int
    BY <1>1, PcIs
  <2> QED BY <1>1, <2>1, ReadWordOK, WordIs
<1>3. cpu' \in Cpu
  BY <1>1, <1>2, JumpOK DEF LeaveSubroutine
<1>4. Shapes'
  BY <1>3 DEF LeaveSubroutine, Sound, Shapes
<1>5. phase' = "host"
  BY DEF LeaveSubroutine
<1> QED BY <1>4, <1>5, HostSound

LEMMA AbortSound == ASSUME Sound, AbortSubroutine \/ InputOutput PROVE Sound'
<1>1. Shapes'
  BY DEF AbortSubroutine, InputOutput, Sound, Shapes, Phases
<1>2. phase' \in {"gave_up", "aborted"}
  BY DEF AbortSubroutine, InputOutput
<1> QED BY <1>1, <1>2, HostSound

LEMMA FetchSound == ASSUME Sound, FetchOpcode PROVE Sound'
<1>1. cpu \in Cpu /\ cpu.pc \in Int /\ cpu.cycles \in Nat /\ cpu.pc \in Word /\ cpu.r \in Byte
  BY PcIs, FieldsAre DEF Sound, Shapes
<1> DEFINE opcode == ReadByte(cpu, cpu.pc)
<1>2. opcode \in Byte
  BY <1>1, ReadByteOK
<1>3. cur'.p = "HL" /\ cur'.opcode = opcode /\ cur'.ins = INSTRUCTION_TABLE[opcode]
  BY DEF FetchOpcode
<1>4. cur' = [p |-> cur'.p, opcode |-> cur'.opcode, ins |-> cur'.ins]
  BY <1>3 DEF FetchOpcode
<1> HIDE DEF opcode
<1>5. Jump(cpu, cpu.pc + 1) \in Cpu /\ Jump(cpu, cpu.pc + 1).cycles = cpu.cycles
  <2>1. cpu.pc + 1 \in Int
    BY <1>1
  <2>2. Jump(cpu, cpu.pc + 1) \in Cpu
    BY <1>1, <2>1, JumpOK
  <2>3. Jump(cpu, cpu.pc + 1).cycles = cpu.cycles
    BY <1>1 DEF Jump, Cpu
  <2> QED BY <2>2, <2>3
<1>6. cpu' \in Cpu /\ cpu'.cycles = cpu.cycles + 4
  BY <1>5, CountedOK DEF FetchOpcode
<1>7. begun' = [pc |-> cpu.pc, r |-> cpu.r, cycles |-> cpu.cycles, bus |-> NoOpcode] /\ phase' = "execute"
      /\ UNCHANGED <<call, blk, sub, last, calls>>
  BY DEF FetchOpcode
<1>8. begun' \in [pc : Word, r : Byte, cycles : Nat, bus : Byte \cup {NoOpcode}]
  BY <1>1, <1>7
<1>9. Shapes'
  BY <1>2, <1>3, <1>4, <1>6, <1>7, <1>8 DEF Sound, Shapes, Phases, Index
<1>10. Decoding'
  BY <1>1, <1>2, <1>3, <1>6, TableOK DEF Decoding
<1>11. Budgets'
  <2>1. phase = "opcode"
    BY DEF FetchOpcode
  <2> QED BY <1>7, <2>1 DEF Sound, Budgets, Blocks, Elapsed
<1> QED BY <1>9, <1>10, <1>11 DEF Sound

LEMMA PrefixSound ==
  ASSUME Sound, phase = "execute", NEW p \in Index, NEW table, ReadNextOpcode(p, table),
         \A opcode \in Byte : KnownIns(Y(opcode), Z(opcode), table[opcode]),
         p = "HL" \/ \A opcode \in Byte : table[opcode].op \notin EDSUMS
  PROVE  Sound'
<1>1. cpu \in Cpu /\ cpu.pc \in Int /\ cpu.cycles \in Nat /\ cpu.cycles >= 4
  <2>1. cpu \in Cpu
    BY DEF Sound, Shapes
  <2> QED BY <2>1, PcIs, FieldsAre DEF Sound, Decoding
<1> DEFINE opcode == ReadByte(cpu, cpu.pc)
<1>2. opcode \in Byte
  BY <1>1, ReadByteOK
<1>3. cur'.p = p /\ cur'.opcode = opcode /\ cur'.ins = table[opcode]
  BY DEF ReadNextOpcode
<1>4. cur' = [p |-> cur'.p, opcode |-> cur'.opcode, ins |-> cur'.ins]
  BY <1>3 DEF ReadNextOpcode
<1> HIDE DEF opcode
<1>5. Jump(cpu, cpu.pc + 1) \in Cpu /\ Jump(cpu, cpu.pc + 1).cycles = cpu.cycles
  <2>1. cpu.pc + 1 \in Int
    BY <1>1
  <2>2. Jump(cpu, cpu.pc + 1) \in Cpu
    BY <1>1, <2>1, JumpOK
  <2>3. Jump(cpu, cpu.pc + 1).cycles = cpu.cycles
    BY <1>1 DEF Jump, Cpu
  <2> QED BY <2>2, <2>3
<1>6. cpu' \in Cpu /\ cpu'.cycles = cpu.cycles + 4
  BY <1>5, CountedOK DEF ReadNextOpcode
<1>7. UNCHANGED <<phase, call, blk, sub, begun, last, calls>>
  BY DEF ReadNextOpcode
<1>8. Shapes'
  BY <1>2, <1>3, <1>4, <1>6, <1>7 DEF Sound, Shapes
<1>9. Decoding'
  BY <1>1, <1>2, <1>3, <1>6 DEF Decoding
<1>10. Budgets'
  BY <1>7 DEF Sound, Budgets, Blocks
<1> QED BY <1>8, <1>9, <1>10 DEF Sound

LEMMA IndexedCbSound == ASSUME Sound, IndexedCbPrefix PROVE Sound'
<1>1. cpu \in Cpu /\ cpu.cycles \in Nat /\ cpu.cycles >= 4 /\ cpu.pc + 1 \in Int /\ phase = "execute"
  <2>1. cpu \in Cpu /\ phase = "execute"
    BY DEF IndexedCbPrefix, Executing, Sound, Shapes
  <2> QED BY <2>1, PcIs, FieldsAre DEF Sound, Decoding
<1> DEFINE opcode == ReadByte(cpu, cpu.pc + 1)
<1>2. opcode \in Byte
  BY <1>1, ReadByteOK
<1>3. cur' = [cur EXCEPT !.opcode = opcode, !.ins = CB_INSTRUCTION_TABLE[opcode]]
  BY DEF IndexedCbPrefix
<1> HIDE DEF opcode
<1>4. cur' = [p |-> cur.p, opcode |-> opcode, ins |-> CB_INSTRUCTION_TABLE[opcode]]
  BY <1>3 DEF Sound, Shapes
<1>5. cur'.p = cur.p /\ cur'.opcode = opcode /\ cur'.ins = CB_INSTRUCTION_TABLE[opcode]
  BY <1>4
<1>6. cur' = [p |-> cur'.p, opcode |-> cur'.opcode, ins |-> cur'.ins]
  BY <1>4, <1>5
<1>7. cpu' \in Cpu /\ cpu'.cycles = cpu.cycles + 4
  <2>1. cpu' = Cycles(cpu, 4)
    BY DEF IndexedCbPrefix
  <2>2. Cycles(cpu, 4).cycles = cpu.cycles + 4
    BY <1>1 DEF Cycles, Cpu
  <2> QED BY <1>1, <2>1, <2>2, CyclesOK
<1>8. UNCHANGED <<phase, call, blk, sub, begun, last, calls>>
  BY DEF IndexedCbPrefix
<1>9. Shapes'
  BY <1>2, <1>5, <1>6, <1>7, <1>8 DEF Sound, Shapes
<1>10. Decoding'
  <2>1. CB_INSTRUCTION_TABLE[opcode].op \in ROTATE \cup BITS
    BY <1>2, CbTableOK
  <2>2. CB_INSTRUCTION_TABLE[opcode].op \notin EDSUMS
    BY <2>1 DEF ROTATE, BITS, EDSUMS
  <2> QED BY <1>1, <1>2, <1>5, <1>7, <2>2, CbTableOK DEF Decoding
<1>11. Budgets'
  BY <1>1, <1>8 DEF Sound, Budgets, Blocks
<1> QED BY <1>9, <1>10, <1>11 DEF Sound

Prefix == IndexPrefix \/ EdPrefix \/ CbPrefix \/ IndexedCbPrefix

LEMMA PrefixesSound == ASSUME Sound, Prefix PROVE Sound'
<1>1. CASE IndexPrefix
  BY <1>1, TableOK, PrefixSound DEF IndexPrefix, Executing, Index
<1>2. CASE EdPrefix
  BY <1>2, EdTableOK, PrefixSound DEF EdPrefix, Executing, Index
<1>3. CASE CbPrefix
  BY <1>3, CbTableOK, PrefixSound DEF CbPrefix, Executing, Index
<1> QED BY <1>1, <1>2, <1>3, IndexedCbSound DEF Prefix

-----------------------------------------------------------------------------
(* The actions that execute an instruction: which processor they finish    *)
(* with.                                                                   *)

Group ==
  \/ LoadGroup \/ LoadWordGroup \/ ExchangeGroup \/ BlockGroup
  \/ ArithmeticGroup \/ IncrementGroup \/ AccumulatorGroup \/ WordGroup
  \/ ShiftGroup \/ BitGroup \/ DigitGroup
  \/ Jumps \/ CallsAndReturns \/ ModeGroup \/ Nothing

LEMMA Ready ==
  ASSUME Sound, NEW ops, Executing(ops)
  PROVE  /\ phase = "execute" /\ cur.ins.op \in ops /\ cpu \in Cpu /\ cur.p \in Index /\ cur.opcode \in Byte
         /\ KnownIns(Y(cur.opcode), Z(cur.opcode), cur.ins)
BY DEF Executing, Sound, Shapes, Decoding

LEMMA GroupDoes ==
  ASSUME Sound, Group
  PROVE  phase = "execute" /\ \E s \in Cpu : Do(s)
<1> DEFINE y == Y(cur.opcode)
           z == Z(cur.opcode)
<1>1. CASE LoadGroup
  <2>1. Executing(LOAD8) /\ Do(Load8(cpu, cur.p, cur.opcode, cur.ins))
    BY <1>1 DEF LoadGroup
  <2>2. LoadForm(y, z, cur.ins)
    BY <2>1, Ready, LoadForms
  <2>3. Load8(cpu, cur.p, cur.opcode, cur.ins) \in Cpu
    BY <2>1, <2>2, Ready, Load8OK
  <2> QED BY <2>1, <2>3, Ready
<1>2. CASE LoadWordGroup
  <2>1. Executing(LOAD16) /\ Do(Load16(cpu, cur.p, cur.opcode, cur.ins))
    BY <1>2 DEF LoadWordGroup
  <2>2. LoadWordForm(cur.ins)
    BY <2>1, Ready, LoadWordForms
  <2>3. Load16(cpu, cur.p, cur.opcode, cur.ins) \in Cpu
    BY <2>1, <2>2, Ready, Load16OK
  <2> QED BY <2>1, <2>3, Ready
<1>3. CASE ExchangeGroup
  <2>1. Executing(EXCHANGE) /\ Do(Exchange(cpu, cur.p, cur.opcode, cur.ins))
    BY <1>3 DEF ExchangeGroup
  <2>2. Exchange(cpu, cur.p, cur.opcode, cur.ins) \in Cpu
    BY <2>1, Ready, ExchangeOK
  <2> QED BY <2>1, <2>2, Ready
<1>4. CASE BlockGroup
  <2>1. Executing(BLOCK_ONCE) /\ Do(BlockOnce(cpu, cur.p, cur.opcode, cur.ins))
    BY <1>4 DEF BlockGroup
  <2>2. BlockOnce(cpu, cur.p, cur.opcode, cur.ins) \in Cpu
    BY <2>1, Ready, BlockOnceOK
  <2> QED BY <2>1, <2>2, Ready
<1>5. CASE ArithmeticGroup
  <2>1. Executing(ARITH8) /\ Do(Arith8(cpu, cur.p, cur.opcode, cur.ins))
    BY <1>5 DEF ArithmeticGroup
  <2>2. (cur.ins.form = "R" /\ z # 6) \/ cur.ins.form \in {"N", "INDIRECT_HL"}
    BY <2>1, Ready, AluIs, AluForms
  <2>3. Arith8(cpu, cur.p, cur.opcode, cur.ins) \in Cpu
    BY <2>1, <2>2, Ready, Arith8OK
  <2> QED BY <2>1, <2>3, Ready
<1>6. CASE IncrementGroup
  <2>1. Executing(INC_DEC) /\ Do(IncDec(cpu, cur.p, cur.opcode, cur.ins))
    BY <1>6 DEF IncrementGroup
  <2>2. (cur.ins.form = "R" /\ y # 6) \/ cur.ins.form = "INDIRECT_HL"
    BY <2>1, Ready, IncDecForms
  <2>3. IncDec(cpu, cur.p, cur.opcode, cur.ins) \in Cpu
    BY <2>1, <2>2, Ready, IncDecGroupOK
  <2> QED BY <2>1, <2>3, Ready
<1>7. CASE AccumulatorGroup
  <2>1. Executing(ACCUMULATOR) /\ Do(OnAccumulator(cpu, cur.p, cur.opcode, cur.ins))
    BY <1>7 DEF AccumulatorGroup
  <2>2. OnAccumulator(cpu, cur.p, cur.opcode, cur.ins) \in Cpu
    BY <2>1, Ready, OnAccumulatorOK
  <2> QED BY <2>1, <2>2, Ready
<1>8. CASE WordGroup
  <2>1. Executing(ARITH16) /\ Do(Arith16(cpu, cur.p, cur.opcode, cur.ins))
    BY <1>8 DEF WordGroup
  <2>2. Arith16(cpu, cur.p, cur.opcode, cur.ins) \in Cpu
    BY <2>1, Ready, Arith16OK
  <2> QED BY <2>1, <2>2, Ready
<1>9. CASE ShiftGroup
  <2>1. Executing(SHIFTS) /\ Do(ShiftOne(cpu, cur.p, cur.opcode, cur.ins))
    BY <1>9 DEF ShiftGroup
  <2>2. (cur.ins.form = "R" /\ z # 6) \/ cur.ins.form = "INDIRECT_HL"
    BY <2>1, Ready, ShiftsAre, CbForms
  <2>3. ShiftOne(cpu, cur.p, cur.opcode, cur.ins) \in Cpu
    BY <2>1, <2>2, Ready, ShiftOneOK
  <2> QED BY <2>1, <2>3, Ready
<1>10. CASE BitGroup
  <2>1. Executing(BITS) /\ Do(OneBit(cpu, cur.p, cur.opcode, cur.ins))
    BY <1>10 DEF BitGroup
  <2>2. (cur.ins.form = "R" /\ z # 6) \/ cur.ins.form = "INDIRECT_HL"
    BY <2>1, Ready, CbForms
  <2>3. OneBit(cpu, cur.p, cur.opcode, cur.ins) \in Cpu
    BY <2>1, <2>2, Ready, OneBitOK
  <2> QED BY <2>1, <2>3, Ready
<1>11. CASE DigitGroup
  <2>1. Executing({"RLD_RRD"}) /\ Do(RotateDigit(cpu, cur.p, cur.opcode, cur.ins))
    BY <1>11 DEF DigitGroup
  <2> QED BY <2>1, Ready, RotateDigitOK
<1>12. CASE Jumps
  <2>1. Executing(JUMP) /\ Do(JumpGroup(cpu, cur.p, cur.opcode, cur.ins))
    BY <1>12 DEF Jumps
  <2>2. JumpGroup(cpu, cur.p, cur.opcode, cur.ins) \in Cpu
    BY <2>1, Ready, JumpGroupOK
  <2> QED BY <2>1, <2>2, Ready
<1>13. CASE CallsAndReturns
  <2>1. Executing(CALL_RETURN) /\ Do(CallReturn(cpu, cur.p, cur.opcode, cur.ins))
    BY <1>13 DEF CallsAndReturns
  <2>2. CallReturn(cpu, cur.p, cur.opcode, cur.ins) \in Cpu
    BY <2>1, Ready, CallReturnOK
  <2> QED BY <2>1, <2>2, Ready
<1>14. CASE ModeGroup
  <2>1. Executing({"IM_N"}) /\ Do(SetMode(cpu, cur.opcode))
    BY <1>14 DEF ModeGroup
  <2> QED BY <2>1, Ready, ControlOK
<1>15. CASE Nothing
  <2>1. Executing(NOTHING) /\ Do(cpu)
    BY <1>15 DEF Nothing
  <2> QED BY <2>1, Ready
<1> QED BY <1>1, <1>2, <1>3, <1>4, <1>5, <1>6, <1>7, <1>8, <1>9, <1>10, <1>11, <1>12, <1>13, <1>14, <1>15
        DEF Group

\* HALT and DI, EI: as a group, but they change the cycles or the budget.
LEMMA HaltDoes == ASSUME Sound, Halt PROVE phase = "execute" /\ \E s \in Cpu : Do(s)
<1> DEFINE s == IF Elapsed(cpu) < call.budget THEN [cpu EXCEPT !.cycles = call.start + call.budget] ELSE cpu
<1>1. Executing({"HALT"}) /\ Do(s)
  BY DEF Halt
<1>2. cpu \in Cpu /\ cpu.cycles \in Nat /\ call.start \in Nat /\ call.budget \in Int
  BY FieldsAre DEF Sound, Shapes
<1>3. Elapsed(cpu) < call.budget => call.start + call.budget \in Nat
  BY <1>2 DEF Elapsed
<1>4. s \in Cpu
  BY <1>2, <1>3, SetCyclesOK
<1> QED BY <1>1, <1>4, Ready

LEMMA InterruptsDo ==
  ASSUME Sound, InterruptGroup
  PROVE  /\ phase = "execute"
         /\ \E s \in Cpu, b \in Int : b >= call.budget /\ Finish(s, b) /\ UNCHANGED blk
<1> DEFINE b == IF Elapsed(cpu) >= call.budget THEN call.budget + 4 ELSE call.budget
<1>1. Executing(INTERRUPTS) /\ Finish(SetInterrupts(cpu, cur.ins), b) /\ UNCHANGED blk
  BY DEF InterruptGroup
<1>2. call.budget \in Int
  BY DEF Sound, Shapes
<1>3. b \in Int /\ b >= call.budget
  BY <1>2
<1> HIDE DEF b
<1>4. SetInterrupts(cpu, cur.ins) \in Cpu
  BY <1>1, Ready, ControlOK
<1> QED BY <1>1, <1>3, <1>4, Ready

-----------------------------------------------------------------------------
(* The repeating block instructions.                                       *)

BlockLocals == [bc : Int, de : Int, hl : Int, n : Byte, turns : Nat]

LEMMA BeginSound == ASSUME Sound, BeginBlock PROVE Sound'
<1>1. /\ cpu \in Cpu /\ cpu.cycles >= 8 /\ phase = "execute"
  <2>1. Executing({"LDIR_LDDR", "CPIR_CPDR"})
    BY DEF BeginBlock
  <2>2. cur.ins.op \in REPEATED /\ phase = "execute"
    BY <2>1 DEF Executing, REPEATED
  <2> QED BY <2>2 DEF Sound, Shapes, Decoding
<1>2. cpu' \in Cpu
  BY <1>1, UncountedOK DEF BeginBlock
<1>3. blk' \in [bc : Int, de : Int, hl : Int, n : Byte, turns : Nat] /\ blk'.turns = 0
  <2>1. GetW(cpu, "BC") \in Int /\ GetW(cpu, "DE") \in Int /\ GetW(cpu, "HL") \in Int
    BY <1>1, IndexIsWord, GetWInt
  <2>2. 0 \in Byte
    BY IsByte
  <2> QED BY <2>1, <2>2 DEF BeginBlock
<1>4. phase' \in Blocks
  BY DEF BeginBlock, Blocks
<1>5. UNCHANGED <<call, cur, sub, begun, last, calls>>
  BY DEF BeginBlock
<1>6. Shapes'
  BY <1>2, <1>3, <1>4, <1>5 DEF Sound, Shapes, Phases, Blocks
<1>7. Decoding'
  BY <1>4 DEF Decoding, Blocks
<1>8. Budgets'
  BY <1>1, <1>3, <1>4, <1>5 DEF Sound, Budgets, Blocks
<1> QED BY <1>6, <1>7, <1>8 DEF Sound

LEMMA StoredOK ==
  ASSUME NEW s \in Cpu, NEW b \in BlockLocals PROVE StoredBlock(s, b) \in Cpu
<1>1. b.hl \in Int /\ b.de \in Int /\ b.bc \in Int
  BY DEF BlockLocals
<1>2. SetW(s, "HL", b.hl) \in Cpu
  BY <1>1, SetWOK, IndexIsWord
<1>3. SetW(SetW(s, "HL", b.hl), "DE", b.de) \in Cpu
  BY <1>1, <1>2, SetWOK, IndexIsWord
<1> QED BY <1>1, <1>3, SetWOK, IndexIsWord DEF StoredBlock

\* A turn ends the instruction or the slice, or budget is left for the next one.
LEMMA TurnDoes ==
  ASSUME Sound, NEW s \in Cpu, NEW b \in BlockLocals, NEW done \in BOOLEAN, NEW f \in SUBSET Flag,
         phase \in Blocks, Turn(s, b, done, f)
  PROVE  \/ /\ \E t \in Cpu : Finish(t, call.budget)
            /\ blk' = NoBlock
         \/ /\ cpu' \in Cpu /\ blk' = b
            /\ ~(Elapsed(cpu') >= call.budget)
            /\ UNCHANGED <<phase, call, cur, sub, begun, last, calls>>
<1> DEFINE t    == Refreshed(Refreshed(Cycles(s, IF done THEN 16 ELSE 21)))
           left == [StoredBlock(t, b) EXCEPT !.F = f]
<1>1. t \in Cpu
  <2>1. (IF done THEN 16 ELSE 21) \in Nat
    OBVIOUS
  <2> QED BY <2>1, CyclesOK, RefreshedOK
<1>2. IF done \/ Elapsed(t) >= call.budget
      THEN /\ Finish(IF done THEN left ELSE Jump(left, t.pc - 2), call.budget)
           /\ blk' = NoBlock
      ELSE /\ cpu' = t
           /\ blk' = b
           /\ UNCHANGED <<phase, call, cur, sub, begun, last, calls>>
  BY DEF Turn
<1> HIDE DEF t
<1>3. left \in Cpu
  BY <1>1, StoredOK, SetFlagsOK
<1>4. t.pc - 2 \in Int
  BY <1>1, PcIs
<1> HIDE DEF left
<1>5. (IF done THEN left ELSE Jump(left, t.pc - 2)) \in Cpu
  BY <1>3, <1>4, JumpOK
<1> QED BY <1>1, <1>2, <1>5

LEMMA CopyDoes ==
  ASSUME Sound, CopyTurn
  PROVE  phase \in Blocks /\ \E s \in Cpu, b \in BlockLocals, done \in BOOLEAN, f \in SUBSET Flag : Turn(s, b, done, f)
<1> DEFINE n == ReadByte(cpu, blk.hl)
           b == [bc |-> blk.bc - 1, de |-> blk.de + Towards(cur.opcode), hl |-> blk.hl + Towards(cur.opcode),
                 n |-> n, turns |-> blk.turns + 1]
           f == CopyFlags(n, cpu.reg["A"], b.bc, cpu.F)
           s == WriteByte(cpu, blk.de, n)
<1>1. phase = "copy" /\ Turn(s, b, b.bc = 0, f)
  BY DEF CopyTurn
<1>2. /\ blk.bc \in Int /\ blk.de \in Int /\ blk.hl \in Int /\ blk.turns \in Nat /\ cpu \in Cpu
  BY DEF Sound, Shapes
<1>3. n \in Byte /\ n \in Int
  BY <1>2, ReadByteOK, ByteIs
<1>4. Towards(cur.opcode) \in Int
  BY TowardsOK
<1> HIDE DEF n
<1>5. b \in BlockLocals
  BY <1>2, <1>3, <1>4 DEF BlockLocals
<1>6. s \in Cpu
  BY <1>2, <1>3, WriteByteOK
<1> HIDE DEF b
<1>7. f \in SUBSET Flag
  BY <1>2, FieldsAre, CopyFlagsOK
<1> HIDE DEF s, f
<1> QED BY <1>1, <1>5, <1>6, <1>7 DEF Blocks

LEMMA SearchDoes ==
  ASSUME Sound, SearchTurn
  PROVE  phase \in Blocks /\ \E s \in Cpu, b \in BlockLocals, done \in BOOLEAN, f \in SUBSET Flag : Turn(s, b, done, f)
<1> DEFINE n == ReadByte(cpu, blk.hl)
           b == [bc |-> blk.bc - 1, de |-> blk.de, hl |-> blk.hl + Towards(cur.opcode), n |-> n,
                 turns |-> blk.turns + 1]
           f == SearchFlags(n, cpu.reg["A"], b.bc, cpu.F)
<1>1. phase = "search" /\ Turn(cpu, b, b.bc = 0 \/ cpu.reg["A"] = n, f)
  BY DEF SearchTurn
<1>2. blk \in BlockLocals /\ blk.hl \in Int /\ cpu \in Cpu
  BY DEF Sound, Shapes, BlockLocals
<1>3. n \in Byte
  BY <1>2, ReadByteOK
<1>4. Towards(cur.opcode) \in Int
  BY TowardsOK
<1> HIDE DEF n
<1>5. b \in BlockLocals
  <2>1. /\ blk.bc - 1 \in Int /\ blk.hl + Towards(cur.opcode) \in Int /\ blk.turns + 1 \in Nat
        /\ blk.de \in Int
    BY <1>2, <1>4 DEF BlockLocals
  <2> QED BY <1>3, <2>1 DEF BlockLocals
<1> HIDE DEF b
<1>6. f \in SUBSET Flag
  <2>1. cpu.reg["A"] \in Byte /\ cpu.F \in SUBSET Flag
    BY <1>2, FieldsAre, NamesAre
  <2> QED BY <1>3, <2>1, SearchFlagsOK
<1> HIDE DEF f
<1> QED BY <1>1, <1>2, <1>5, <1>6 DEF Blocks

LEMMA TurnsSound == ASSUME Sound, CopyTurn \/ SearchTurn PROVE Sound'
<1>1. phase \in Blocks
  BY CopyDoes, SearchDoes
<1>2. \/ /\ \E t \in Cpu : Finish(t, call.budget)
         /\ blk' = NoBlock
      \/ /\ cpu' \in Cpu /\ blk' \in BlockLocals
         /\ ~(Elapsed(cpu') >= call.budget)
         /\ UNCHANGED <<phase, call, cur, sub, begun, last, calls>>
  BY CopyDoes, SearchDoes, TurnDoes
<1>3. call.budget \in Int /\ call.start \in Nat
  BY DEF Sound, Shapes
<1>4. CASE blk' = NoBlock /\ \E t \in Cpu : Finish(t, call.budget)
  BY <1>1, <1>3, <1>4, NoBlockOK, FinishSound
<1>5. CASE /\ cpu' \in Cpu /\ blk' \in BlockLocals
           /\ ~(Elapsed(cpu') >= call.budget)
           /\ UNCHANGED <<phase, call, cur, sub, begun, last, calls>>
  <2>1. Shapes'
    BY <1>5 DEF Sound, Shapes, BlockLocals
  <2>2. Decoding'
    BY <1>1, <1>5 DEF Decoding, Blocks
  <2>3. Elapsed(cpu') \in Int
    BY <1>3, <1>5, FieldsAre DEF Elapsed
  <2>4. (Elapsed(cpu) < call.budget)'
    BY <1>3, <1>5, <2>3 DEF Elapsed
  <2>5. Budgets'
    BY <1>1, <1>5, <2>4 DEF Sound, Budgets, Blocks
  <2> QED BY <2>1, <2>2, <2>5 DEF Sound
<1> QED BY <1>2, <1>4, <1>5

LEMMA NextSound == ASSUME Sound, [Next]_vars PROVE Sound'
<1>1. CASE Host
  <2>1. CASE \E c \in calls : Z80Emulate(c.arg) \/ Z80Interrupt(c.arg) \/ EnterSubroutine(c.arg)
    BY <2>1, EmulateSound, InterruptSound, EnterSound
  <2> QED BY <1>1, <2>1, NmiSound, StepSound, LeaveSound, AbortSound DEF Host
<1>2. CASE FetchOpcode
  BY <1>2, FetchSound
<1>3. CASE Prefix
  BY <1>3, PrefixesSound
<1>4. CASE Group \/ Halt
  BY <1>4, GroupDoes, HaltDoes, DoSound
<1>5. CASE InterruptGroup
  <2>1. blk \in [bc : Int, de : Int, hl : Int, n : Byte, turns : Nat]
    BY DEF Sound, Shapes
  <2> QED BY <1>5, <2>1, InterruptsDo, FinishSound
<1>6. CASE InputOutput
  BY <1>6, AbortSound
<1>7. CASE BeginBlock
  BY <1>7, BeginSound
<1>8. CASE CopyTurn \/ SearchTurn
  BY <1>8, TurnsSound
<1>9. CASE UNCHANGED vars
  BY <1>9 DEF vars, Sound, Shapes, Decoding, Budgets, Elapsed
<1>10. Host \/ Emulation \/ UNCHANGED vars
  BY DEF Next
<1> QED BY <1>1, <1>2, <1>3, <1>4, <1>5, <1>6, <1>7, <1>8, <1>9, <1>10 DEF Emulation, Prefix, Group

-----------------------------------------------------------------------------

\* The invariant holds of every program, memory size and host.
THEOREM EmulatorInvariance == Spec => []Sound
<1>1. Init => Sound
  BY InitSound
<1>2. Sound /\ [Next]_vars => Sound'
  BY NextSound
<1> QED BY <1>1, <1>2, PTL DEF Spec

\* The registers keep their widths and the memory its bytes, whatever the program
\* does and however the host cuts it into slices.
THEOREM RegistersKeepWidths == Spec => []TypeOK
<1>1. Sound => TypeOK
  BY DEF Sound, Shapes, TypeOK, Phases, Index
<1> QED BY <1>1, EmulatorInvariance, PTL

\* What one step has to do with a slice.
SliceStep ==
  phase # "host" /\ phase' = "host" =>
    /\ cpu'.cycles - call'.start >= call'.budget
    /\ (IF Midway THEN cpu.cycles ELSE begun.cycles) - call'.start < call'.budget

LEMMA FinishSlice ==
  ASSUME Sound, NEW s \in Cpu, NEW b \in Int, Finish(s, b), b >= call.budget, phase \in Blocks \cup {"execute"}
  PROVE  SliceStep
<1>1. cpu' = s /\ call'.start = call.start /\ call'.budget = b /\ (phase' = "host" => Elapsed(s) >= b)
  BY DEF Finish, Sound, Shapes
<1>2. call.start \in Nat /\ call.budget \in Int /\ begun.cycles \in Nat /\ cpu.cycles \in Nat /\ s.cycles \in Nat
  BY FieldsAre DEF Sound, Shapes
<1>3. begun.cycles - call.start < b
  BY <1>2 DEF Sound, Budgets
<1>4. Midway => cpu.cycles - call.start < b
  <2>1. Midway => Elapsed(cpu) < call.budget
    BY DEF Midway, Blocks, Sound, Budgets
  <2> QED BY <1>2, <2>1 DEF Elapsed
<1> QED BY <1>1, <1>2, <1>3, <1>4 DEF SliceStep, Elapsed

LEMMA NextSlice == ASSUME Sound, [Next]_vars PROVE SliceStep
<1>1. CASE phase = "host" \/ phase' # "host"
  BY <1>1 DEF SliceStep
<1>2. CASE phase # "host" /\ phase' = "host"
  <2>1. ~Host
    BY <1>2 DEF Host, Z80Emulate, Z80Interrupt, EnterSubroutine, MayCall, Z80NonMaskableInterrupt,
                StepSubroutine, LeaveSubroutine, AbortSubroutine
  <2>2. ~FetchOpcode /\ ~InputOutput /\ ~BeginBlock /\ ~UNCHANGED vars
    BY <1>2 DEF FetchOpcode, InputOutput, BeginBlock, vars
  <2>3. ~Prefix
    BY <1>2 DEF Prefix, IndexPrefix, EdPrefix, CbPrefix, IndexedCbPrefix, ReadNextOpcode
  <2>4. call.budget \in Int /\ call.budget >= call.budget
    BY DEF Sound, Shapes
  <2>5. CASE Group \/ Halt
    BY <2>4, <2>5, GroupDoes, HaltDoes, FinishSlice DEF Do
  <2>6. CASE InterruptGroup
    BY <2>6, InterruptsDo, FinishSlice
  <2>7. CASE CopyTurn \/ SearchTurn
    <3>1. phase \in Blocks /\ \E t \in Cpu : Finish(t, call.budget)
      BY <1>2, <2>7, CopyDoes, SearchDoes, TurnDoes
    <3> QED BY <2>4, <3>1, FinishSlice
  <2> QED BY <2>1, <2>2, <2>3, <2>5, <2>6, <2>7 DEF Next, Emulation, Prefix, Group
<1> QED BY <1>1, <1>2

\* A call of Z80Emulate comes back when its cycles have passed, and neither the last
\* instruction nor the last turn of a block instruction was begun after that.
THEOREM SlicesEndInTime == Spec => SliceLength
<1>1. Sound /\ [Next]_vars => [phase # "host" /\ phase' = "host" =>
       /\ cpu'.cycles - call'.start >= call'.budget
       /\ (IF Midway THEN cpu.cycles ELSE begun.cycles) - call'.start < call'.budget]_vars
  BY NextSlice DEF SliceStep
<1> QED BY <1>1, EmulatorInvariance, PTL DEF Spec, SliceLength

-----------------------------------------------------------------------------
(* The flags of sums and differences.                                      *)

\* The carry into a bit, from the operands' parts above it.
LEMMA CarryBit ==
  ASSUME NEW m \in Int, NEW n \in Int, NEW k \in {0, 1}
  PROVE  /\ ((m % 2) + (n % 2) + ((m + n + k) % 2)) % 2 = k
         /\ ((m % 2) + (n % 2) + ((m - n - k) % 2)) % 2 = k
<1>1. PICK i \in Int, d \in {0, 1} : m = 2 * i + d
  <2>1. m = 2 * (m \div 2) + (m % 2) /\ m \div 2 \in Int /\ m % 2 \in {0, 1}
    OBVIOUS
  <2> QED BY <2>1
<1>2. PICK j \in Int, e \in {0, 1} : n = 2 * j + e
  <2>1. n = 2 * (n \div 2) + (n % 2) /\ n \div 2 \in Int /\ n % 2 \in {0, 1}
    OBVIOUS
  <2> QED BY <2>1
<1>3. m % 2 = d /\ n % 2 = e
  BY <1>1, <1>2
<1>4. (m + n + k) % 2 = (d + e + k) % 2 /\ (m - n - k) % 2 = (d - e - k) % 2
  BY <1>1, <1>2
<1> QED BY <1>3, <1>4

\* What a carry out of the part below the power q comes from.
Over(a, x, c, q)  == (a % q) + (x % q) + c >= q
Under(a, x, c, q) == (a % q) - (x % q) - c < 0

\* For a divisor of the address space: what a sum carries over it.
Divisor == {16, 128, 256, 4096, 32768, 65536}

LEMMA CarryOver ==
  ASSUME NEW a \in Int, NEW x \in Int, NEW c \in Int, NEW q \in Divisor, 0 <= c, c <= 1
  PROVE  /\ (a + x + c) \div q = (a \div q) + (x \div q) + (IF Over(a, x, c, q) THEN 1 ELSE 0)
         /\ (a - x - c) \div q = (a \div q) - (x \div q) - (IF Under(a, x, c, q) THEN 1 ELSE 0)
<1>1. CASE q = 16
  BY <1>1 DEF Over, Under
<1>2. CASE q = 128
  BY <1>2 DEF Over, Under
<1>3. CASE q = 256
  BY <1>3 DEF Over, Under
<1>4. CASE q = 4096
  BY <1>4 DEF Over, Under
<1>5. CASE q = 32768
  BY <1>5 DEF Over, Under
<1>6. CASE q = 65536
  BY <1>6 DEF Over, Under
<1> QED BY <1>1, <1>2, <1>3, <1>4, <1>5, <1>6 DEF Divisor

Place == {4, 7, 8, 12, 15, 16}

LEMMA PlacesAre == 4 \in Place /\ 7 \in Place /\ 8 \in Place /\ 12 \in Place /\ 15 \in Place /\ 16 \in Place
BY DEF Place

LEMMA CarryIntoIs ==
  ASSUME NEW a \in Int, NEW x \in Int, NEW c \in Int, 0 <= c, c <= 1, NEW i \in Place
  PROVE  /\ CarryInto(i, a, x, a + x + c) = IF Over(a, x, c, Pow2[i]) THEN 1 ELSE 0
         /\ CarryInto(i, a, x, a - x - c) = IF Under(a, x, c, Pow2[i]) THEN 1 ELSE 0
<1> DEFINE q == Pow2[i]
           k == IF Over(a, x, c, q) THEN 1 ELSE 0
           l == IF Under(a, x, c, q) THEN 1 ELSE 0
<1>1. q \in Divisor
  BY Powers DEF Place, Divisor
<1> HIDE DEF q
<1>2. /\ (a + x + c) \div q = (a \div q) + (x \div q) + k
      /\ (a - x - c) \div q = (a \div q) - (x \div q) - l
  BY <1>1, CarryOver
<1>3. a \div q \in Int /\ x \div q \in Int
  BY <1>1 DEF Divisor
<1>4. k \in {0, 1} /\ l \in {0, 1}
  OBVIOUS
<1> HIDE DEF k, l
<1>5. /\ (((a \div q) % 2) + ((x \div q) % 2) + (((a + x + c) \div q) % 2)) % 2 = k
      /\ (((a \div q) % 2) + ((x \div q) % 2) + (((a - x - c) \div q) % 2)) % 2 = l
  <2> DEFINE m == a \div q
             n == x \div q
             y == (a + x + c) \div q
             w == (a - x - c) \div q
  <2>1. m \in Int /\ n \in Int /\ y = m + n + k /\ w = m - n - l
    BY <1>2, <1>3
  <2> HIDE DEF m, n, y, w
  <2>2. ((m % 2) + (n % 2) + ((m + n + k) % 2)) % 2 = k
    BY <1>4, <2>1, CarryBit
  <2>3. ((m % 2) + (n % 2) + ((m - n - l) % 2)) % 2 = l
    BY <1>4, <2>1, CarryBit
  <2>4. ((m % 2) + (n % 2) + (y % 2)) % 2 = k /\ ((m % 2) + (n % 2) + (w % 2)) % 2 = l
    BY <2>1, <2>2, <2>3
  <2> QED BY <2>4 DEF m, n, y, w
<1>6. /\ CarryInto(i, a, x, a + x + c) = k
      /\ CarryInto(i, a, x, a - x - c) = l
  BY <1>5 DEF CarryInto, Bit, q
<1> QED BY <1>6 DEF k, l, q

LEMMA SignAndZero ==
  ASSUME NEW v \in Byte
  PROVE  /\ SZYX_FLAGS_TABLE[v] \ YX = (IF v = 0 THEN {"Z"} ELSE {}) \cup (IF v >= 128 THEN {"S"} ELSE {})
         /\ SZYX_FLAGS_TABLE[v] \subseteq {"S", "Z", "Y", "X"}
<1>1. SZYX_FLAGS_TABLE[v] = (FlagsIn[v] \cap {"S", "Y", "X"}) \cup (IF v = 0 THEN {"Z"} ELSE {})
  BY DEF SZYX_FLAGS_TABLE
<1>2. "S" \in FlagsIn[v] <=> v >= 128
  <2>0. v \in Nat /\ v <= 255 /\ v \in Int
    BY ByteIs
  <2>1. Bit(v, 7) = (v \div 128) % 2
    BY <2>0, LowBits
  <2>2. (v \div 128) % 2 = 1 <=> v >= 128
    BY <2>0
  <2>3. FlagBit["S"] = 7 /\ "S" \in Flag
    BY FlagsAre DEF FlagBit
  <2>4. FlagsIn[v] = {x \in Flag : Bit(v, FlagBit[x]) = 1}
    BY DEF FlagsIn
  <2> QED BY <2>1, <2>2, <2>3, <2>4
<1> QED BY <1>1, <1>2 DEF YX


Toggle(condition, flag) == IF condition THEN {flag} ELSE {}

FlagsBy(h, c, v, z, s, n) ==
  Toggle(h, "H") \cup Toggle(c, "C") \cup Toggle(v, "PV") \cup Toggle(z, "Z") \cup Toggle(s, "S")
    \cup Toggle(n, "N")

SignedBy(v, half, size) == IF v < half THEN v ELSE v - size
InSigned(v, half) == -half <= v /\ v < half

\* The signed sum or difference is outside the range of the signed numbers.
SumLeaves(a, x, c, half, size) ==
  ~InSigned(SignedBy(a, half, size) + SignedBy(x, half, size) + c, half)
DifferenceLeaves(a, x, c, half, size) ==
  ~InSigned(SignedBy(a, half, size) - SignedBy(x, half, size) - c, half)

\* The bits of the result are all 0; its top bit is 1.
Null(z, size)           == z % size = 0
Negative(z, half, size) == z % size >= half

LEMMA SwappedCarry ==
  ASSUME NEW a \in Int, NEW x \in Int, NEW z \in Int, NEW i \in Place
  PROVE  CarryInto(i, a, x, z) = CarryInto(i, x, a, z)
<1>1. Bit(a, i) \in {0, 1} /\ Bit(x, i) \in {0, 1} /\ Bit(z, i) \in {0, 1}
  <2>1. i \in (0 .. 8) \cup {12, 15, 16}
    BY DEF Place
  <2> QED BY <2>1, BitOK
<1> QED BY <1>1 DEF CarryInto

LEMMA PowersUsed ==
  Pow2[4] = 16 /\ Pow2[7] = 128 /\ Pow2[8] = 256 /\ Pow2[12] = 4096 /\ Pow2[15] = 32768 /\ Pow2[16] = 65536
BY Powers

\* A flag made of one carry, and the overflow made of two.
LEMMA OnCarry ==
  ASSUME NEW a \in Int, NEW x \in Int, NEW c \in Int, 0 <= c, c <= 1, NEW i \in Place, NEW flag
  PROVE  /\ On(CarryInto(i, a, x, a + x + c), flag) = Toggle(Over(a, x, c, Pow2[i]), flag)
         /\ On(CarryInto(i, a, x, a - x - c), flag) = Toggle(Under(a, x, c, Pow2[i]), flag)
<1> DEFINE b == Over(a, x, c, Pow2[i])
           d == Under(a, x, c, Pow2[i])
<1>1. CarryInto(i, a, x, a + x + c) = IF b THEN 1 ELSE 0
  BY CarryIntoIs
<1>2. CarryInto(i, a, x, a - x - c) = IF d THEN 1 ELSE 0
  BY CarryIntoIs
<1> HIDE DEF b, d
<1>3. On(IF b THEN 1 ELSE 0, flag) = Toggle(b, flag) /\ On(IF d THEN 1 ELSE 0, flag) = Toggle(d, flag)
  BY DEF On, Toggle
<1> QED BY <1>1, <1>2, <1>3 DEF b, d

LEMMA OverflowWhen ==
  ASSUME NEW a \in Int, NEW x \in Int, NEW c \in Int, 0 <= c, c <= 1, NEW i \in Place, NEW j \in Place
  PROVE  /\ OVERFLOW_TABLE[2 * CarryInto(i, a, x, a + x + c) + CarryInto(j, a, x, a + x + c) + 1]
              = Toggle(~(Over(a, x, c, Pow2[i]) <=> Over(a, x, c, Pow2[j])), "PV")
         /\ OVERFLOW_TABLE[2 * CarryInto(i, a, x, a - x - c) + CarryInto(j, a, x, a - x - c) + 1]
              = Toggle(~(Under(a, x, c, Pow2[i]) <=> Under(a, x, c, Pow2[j])), "PV")
<1> DEFINE m == Over(a, x, c, Pow2[i])
           n == Over(a, x, c, Pow2[j])
           k == Under(a, x, c, Pow2[i])
           l == Under(a, x, c, Pow2[j])
<1>1. CarryInto(i, a, x, a + x + c) = IF m THEN 1 ELSE 0
  BY CarryIntoIs
<1>2. CarryInto(j, a, x, a + x + c) = IF n THEN 1 ELSE 0
  BY CarryIntoIs
<1>3. CarryInto(i, a, x, a - x - c) = IF k THEN 1 ELSE 0
  BY CarryIntoIs
<1>4. CarryInto(j, a, x, a - x - c) = IF l THEN 1 ELSE 0
  BY CarryIntoIs
<1> HIDE DEF m, n, k, l
<1>5. ASSUME NEW b, NEW d
      PROVE  OVERFLOW_TABLE[2 * (IF b THEN 1 ELSE 0) + (IF d THEN 1 ELSE 0) + 1] = Toggle(~(b <=> d), "PV")
  <2>1. OVERFLOW_TABLE[1] = {} /\ OVERFLOW_TABLE[2] = {"PV"} /\ OVERFLOW_TABLE[3] = {"PV"} /\ OVERFLOW_TABLE[4] = {}
    BY DEF OVERFLOW_TABLE
  <2>2. CASE b /\ d
    BY <2>1, <2>2 DEF Toggle
  <2>3. CASE b /\ ~d
    BY <2>1, <2>3 DEF Toggle
  <2>4. CASE ~b /\ d
    BY <2>1, <2>4 DEF Toggle
  <2>5. CASE ~b /\ ~d
    BY <2>1, <2>5 DEF Toggle
  <2> QED BY <2>2, <2>3, <2>4, <2>5
<1>6. OVERFLOW_TABLE[2 * (IF m THEN 1 ELSE 0) + (IF n THEN 1 ELSE 0) + 1] = Toggle(~(m <=> n), "PV")
  BY <1>5
<1>7. OVERFLOW_TABLE[2 * (IF k THEN 1 ELSE 0) + (IF l THEN 1 ELSE 0) + 1] = Toggle(~(k <=> l), "PV")
  BY <1>5
<1> QED BY <1>1, <1>2, <1>3, <1>4, <1>6, <1>7 DEF m, n, k, l

\* What the flags of a sum and of a difference of bytes are.
LEMMA ByteLeaves ==
  ASSUME NEW a \in Int, 0 <= a, a < 256, NEW x \in Int, 0 <= x, x < 256, NEW c \in Int, 0 <= c, c <= 1
  PROVE  /\ ~(Over(a, x, c, 256) <=> Over(a, x, c, 128)) <=> SumLeaves(a, x, c, 128, 256)
         /\ ~(Under(a, x, c, 256) <=> Under(a, x, c, 128)) <=> DifferenceLeaves(a, x, c, 128, 256)
         /\ (a + x + c < 0 \/ a + x + c >= 256) <=> Over(a, x, c, 256)
         /\ (a - x - c < 0 \/ a - x - c >= 256) <=> Under(a, x, c, 256)
         /\ ((a % 16) + (x % 16) + c < 0 \/ (a % 16) + (x % 16) + c >= 16) <=> Over(a, x, c, 16)
         /\ ((a % 16) - (x % 16) - c < 0 \/ (a % 16) - (x % 16) - c >= 16) <=> Under(a, x, c, 16)
<1>2. a % 256 = a /\ x % 256 = x
  OBVIOUS
<1>3. a % 128 = (IF a < 128 THEN a ELSE a - 128) /\ x % 128 = IF x < 128 THEN x ELSE x - 128
  OBVIOUS
<1>4. ~(Over(a, x, c, 256) <=> Over(a, x, c, 128)) <=> SumLeaves(a, x, c, 128, 256)
  <2>1. CASE a < 128 /\ x < 128
    BY <1>2, <1>3, <2>1 DEF Over, SumLeaves, InSigned, SignedBy
  <2>2. CASE a < 128 /\ ~(x < 128)
    BY <1>2, <1>3, <2>2 DEF Over, SumLeaves, InSigned, SignedBy
  <2>3. CASE ~(a < 128) /\ x < 128
    BY <1>2, <1>3, <2>3 DEF Over, SumLeaves, InSigned, SignedBy
  <2>4. CASE ~(a < 128) /\ ~(x < 128)
    BY <1>2, <1>3, <2>4 DEF Over, SumLeaves, InSigned, SignedBy
  <2> QED BY <2>1, <2>2, <2>3, <2>4
<1>5. ~(Under(a, x, c, 256) <=> Under(a, x, c, 128)) <=> DifferenceLeaves(a, x, c, 128, 256)
  <2>1. CASE a < 128 /\ x < 128
    BY <1>2, <1>3, <2>1 DEF Under, DifferenceLeaves, InSigned, SignedBy
  <2>2. CASE a < 128 /\ ~(x < 128)
    BY <1>2, <1>3, <2>2 DEF Under, DifferenceLeaves, InSigned, SignedBy
  <2>3. CASE ~(a < 128) /\ x < 128
    BY <1>2, <1>3, <2>3 DEF Under, DifferenceLeaves, InSigned, SignedBy
  <2>4. CASE ~(a < 128) /\ ~(x < 128)
    BY <1>2, <1>3, <2>4 DEF Under, DifferenceLeaves, InSigned, SignedBy
  <2> QED BY <2>1, <2>2, <2>3, <2>4
<1>6. (a + x + c < 0 \/ a + x + c >= 256) <=> Over(a, x, c, 256)
  BY <1>2 DEF Over
<1>7. (a - x - c < 0 \/ a - x - c >= 256) <=> Under(a, x, c, 256)
  BY <1>2 DEF Under
<1>8. ((a % 16) + (x % 16) + c < 0 \/ (a % 16) + (x % 16) + c >= 16) <=> Over(a, x, c, 16)
  BY DEF Over
<1>9. ((a % 16) - (x % 16) - c < 0 \/ (a % 16) - (x % 16) - c >= 16) <=> Under(a, x, c, 16)
  BY DEF Under
<1> QED BY <1>4, <1>5, <1>6, <1>7, <1>8, <1>9

\* What the flags of a sum and of a difference of words are.
LEMMA WordLeaves ==
  ASSUME NEW a \in Int, 0 <= a, a < 65536, NEW x \in Int, 0 <= x, x < 65536, NEW c \in Int, 0 <= c, c <= 1
  PROVE  /\ ~(Over(a, x, c, 65536) <=> Over(a, x, c, 32768)) <=> SumLeaves(a, x, c, 32768, 65536)
         /\ ~(Under(a, x, c, 65536) <=> Under(a, x, c, 32768)) <=> DifferenceLeaves(a, x, c, 32768, 65536)
         /\ (a + x + c < 0 \/ a + x + c >= 65536) <=> Over(a, x, c, 65536)
         /\ (a - x - c < 0 \/ a - x - c >= 65536) <=> Under(a, x, c, 65536)
         /\ ((a % 4096) + (x % 4096) + c < 0 \/ (a % 4096) + (x % 4096) + c >= 4096) <=> Over(a, x, c, 4096)
         /\ ((a % 4096) - (x % 4096) - c < 0 \/ (a % 4096) - (x % 4096) - c >= 4096) <=> Under(a, x, c, 4096)
<1>2. a % 65536 = a /\ x % 65536 = x
  OBVIOUS
<1>3. a % 32768 = (IF a < 32768 THEN a ELSE a - 32768) /\ x % 32768 = IF x < 32768 THEN x ELSE x - 32768
  OBVIOUS
<1>4. ~(Over(a, x, c, 65536) <=> Over(a, x, c, 32768)) <=> SumLeaves(a, x, c, 32768, 65536)
  <2>1. CASE a < 32768 /\ x < 32768
    BY <1>2, <1>3, <2>1 DEF Over, SumLeaves, InSigned, SignedBy
  <2>2. CASE a < 32768 /\ ~(x < 32768)
    BY <1>2, <1>3, <2>2 DEF Over, SumLeaves, InSigned, SignedBy
  <2>3. CASE ~(a < 32768) /\ x < 32768
    BY <1>2, <1>3, <2>3 DEF Over, SumLeaves, InSigned, SignedBy
  <2>4. CASE ~(a < 32768) /\ ~(x < 32768)
    BY <1>2, <1>3, <2>4 DEF Over, SumLeaves, InSigned, SignedBy
  <2> QED BY <2>1, <2>2, <2>3, <2>4
<1>5. ~(Under(a, x, c, 65536) <=> Under(a, x, c, 32768)) <=> DifferenceLeaves(a, x, c, 32768, 65536)
  <2>1. CASE a < 32768 /\ x < 32768
    BY <1>2, <1>3, <2>1 DEF Under, DifferenceLeaves, InSigned, SignedBy
  <2>2. CASE a < 32768 /\ ~(x < 32768)
    BY <1>2, <1>3, <2>2 DEF Under, DifferenceLeaves, InSigned, SignedBy
  <2>3. CASE ~(a < 32768) /\ x < 32768
    BY <1>2, <1>3, <2>3 DEF Under, DifferenceLeaves, InSigned, SignedBy
  <2>4. CASE ~(a < 32768) /\ ~(x < 32768)
    BY <1>2, <1>3, <2>4 DEF Under, DifferenceLeaves, InSigned, SignedBy
  <2> QED BY <2>1, <2>2, <2>3, <2>4
<1>6. (a + x + c < 0 \/ a + x + c >= 65536) <=> Over(a, x, c, 65536)
  BY <1>2 DEF Over
<1>7. (a - x - c < 0 \/ a - x - c >= 65536) <=> Under(a, x, c, 65536)
  BY <1>2 DEF Under
<1>8. ((a % 4096) + (x % 4096) + c < 0 \/ (a % 4096) + (x % 4096) + c >= 4096) <=> Over(a, x, c, 4096)
  BY DEF Over
<1>9. ((a % 4096) - (x % 4096) - c < 0 \/ (a % 4096) - (x % 4096) - c >= 4096) <=> Under(a, x, c, 4096)
  BY DEF Under
<1> QED BY <1>4, <1>5, <1>6, <1>7, <1>8, <1>9

LEMMA ByteSums ==
  ASSUME NEW a \in Int, 0 <= a, a < 256, NEW x \in Int, 0 <= x, x < 256, NEW c \in Int, 0 <= c, c <= 1
  PROVE  /\ SumFlags(a, x, c, 1, 256) =
              FlagsBy(Over(a, x, c, 16), Over(a, x, c, 256), SumLeaves(a, x, c, 128, 256),
                      Null(a + x + c, 256), Negative(a + x + c, 128, 256), FALSE)
         /\ SumFlags(a, x, c, -1, 256) =
              FlagsBy(Under(a, x, c, 16), Under(a, x, c, 256), DifferenceLeaves(a, x, c, 128, 256),
                      Null(a - x - c, 256), Negative(a - x - c, 128, 256), TRUE)
<1> DEFINE size == 256
<1>0. size \in Int
  OBVIOUS
<1>18. size = 256
  OBVIOUS
<1> HIDE DEF size
<1> DEFINE digit == size \div 16
           half == size \div 2
           p == a % digit
           r == x % digit
           f == SignedBy(a, half, size)
           g == SignedBy(x, half, size)
<1>1. digit \in Int /\ half \in Int
  BY <1>0
<1>19. digit = 16 /\ half = 128
  BY <1>18
<1>2. SumFlags(a, x, c, 1, size) =
        (IF p + 1 * (r + c) \notin 0 .. (digit - 1) THEN {"H"} ELSE {})
        \cup (IF a + 1 * (x + c) \notin 0 .. (size - 1) THEN {"C"} ELSE {})
        \cup (IF f + 1 * (g + c) \notin -half .. (half - 1) THEN {"PV"} ELSE {})
        \cup (IF (a + 1 * (x + c)) % size = 0 THEN {"Z"} ELSE {})
        \cup (IF (a + 1 * (x + c)) % size >= half THEN {"S"} ELSE {})
        \cup (IF 1 = -1 THEN {"N"} ELSE {})
  BY DEF SumFlags, SignedBy
<1>3. SumFlags(a, x, c, -1, size) =
        (IF p + (-1) * (r + c) \notin 0 .. (digit - 1) THEN {"H"} ELSE {})
        \cup (IF a + (-1) * (x + c) \notin 0 .. (size - 1) THEN {"C"} ELSE {})
        \cup (IF f + (-1) * (g + c) \notin -half .. (half - 1) THEN {"PV"} ELSE {})
        \cup (IF (a + (-1) * (x + c)) % size = 0 THEN {"Z"} ELSE {})
        \cup (IF (a + (-1) * (x + c)) % size >= half THEN {"S"} ELSE {})
        \cup (IF -1 = -1 THEN {"N"} ELSE {})
  BY DEF SumFlags, SignedBy
<1> HIDE DEF digit, half, p, r, f, g
<1>4. p = a % 16 /\ r = x % 16 /\ f = SignedBy(a, 128, 256) /\ g = SignedBy(x, 128, 256)
  BY <1>18, <1>19 DEF p, r, f, g
<1>5. p \in Int /\ r \in Int /\ f \in Int /\ g \in Int
  BY <1>4 DEF SignedBy
<1>6. /\ p + 1 * (r + c) = p + r + c /\ a + 1 * (x + c) = a + x + c /\ f + 1 * (g + c) = f + g + c
      /\ p + (-1) * (r + c) = p - r - c /\ a + (-1) * (x + c) = a - x - c /\ f + (-1) * (g + c) = f - g - c
      /\ 1 # -1
  BY <1>5
<1>7. ASSUME NEW v \in Int, NEW l \in Int, NEW u \in Int PROVE v \notin l .. (u - 1) <=> (v < l \/ v >= u)
  OBVIOUS
<1>8. p + r + c \notin 0 .. (digit - 1) <=> Over(a, x, c, 16)
  <2>1. p + r + c \notin 0 .. (digit - 1) <=> (p + r + c < 0 \/ p + r + c >= digit)
    BY <1>1, <1>5, <1>7
  <2>2. (p + r + c < 0 \/ p + r + c >= digit) <=> Over(a, x, c, 16)
    BY <1>19, <1>4, ByteLeaves
  <2> QED BY <2>1, <2>2
<1>9. p - r - c \notin 0 .. (digit - 1) <=> Under(a, x, c, 16)
  <2>1. p - r - c \notin 0 .. (digit - 1) <=> (p - r - c < 0 \/ p - r - c >= digit)
    BY <1>1, <1>5, <1>7
  <2>2. (p - r - c < 0 \/ p - r - c >= digit) <=> Under(a, x, c, 16)
    BY <1>19, <1>4, ByteLeaves
  <2> QED BY <2>1, <2>2
<1>10. a + x + c \notin 0 .. (size - 1) <=> Over(a, x, c, 256)
  <2>1. a + x + c \notin 0 .. (size - 1) <=> (a + x + c < 0 \/ a + x + c >= size)
    BY <1>0, <1>7
  <2>2. (a + x + c < 0 \/ a + x + c >= size) <=> Over(a, x, c, 256)
    BY <1>18, ByteLeaves
  <2> QED BY <2>1, <2>2
<1>11. a - x - c \notin 0 .. (size - 1) <=> Under(a, x, c, 256)
  <2>1. a - x - c \notin 0 .. (size - 1) <=> (a - x - c < 0 \/ a - x - c >= size)
    BY <1>0, <1>7
  <2>2. (a - x - c < 0 \/ a - x - c >= size) <=> Under(a, x, c, 256)
    BY <1>18, ByteLeaves
  <2> QED BY <2>1, <2>2
<1>12. f + g + c \notin -half .. (half - 1) <=> SumLeaves(a, x, c, 128, 256)
  <2>1. f + g + c \notin -half .. (half - 1) <=> ~InSigned(f + g + c, half)
    BY <1>1, <1>5, <1>7 DEF InSigned
  <2>2. ~InSigned(f + g + c, half) <=> SumLeaves(a, x, c, 128, 256)
    BY <1>19, <1>4 DEF SumLeaves
  <2> QED BY <2>1, <2>2
<1>13. f - g - c \notin -half .. (half - 1) <=> DifferenceLeaves(a, x, c, 128, 256)
  <2>1. f - g - c \notin -half .. (half - 1) <=> ~InSigned(f - g - c, half)
    BY <1>1, <1>5, <1>7 DEF InSigned
  <2>2. ~InSigned(f - g - c, half) <=> DifferenceLeaves(a, x, c, 128, 256)
    BY <1>19, <1>4 DEF DifferenceLeaves
  <2> QED BY <2>1, <2>2
<1>14. SumFlags(a, x, c, 1, size) =
              FlagsBy(Over(a, x, c, 16), Over(a, x, c, 256), SumLeaves(a, x, c, 128, 256),
                      Null(a + x + c, size), Negative(a + x + c, half, size), FALSE)
  BY <1>2, <1>6, <1>8, <1>10, <1>12 DEF FlagsBy, Toggle, Null, Negative
<1>15. SumFlags(a, x, c, -1, size) =
              FlagsBy(Under(a, x, c, 16), Under(a, x, c, 256), DifferenceLeaves(a, x, c, 128, 256),
                      Null(a - x - c, size), Negative(a - x - c, half, size), TRUE)
  BY <1>3, <1>6, <1>9, <1>11, <1>13 DEF FlagsBy, Toggle, Null, Negative
<1>16. SumFlags(a, x, c, 1, 256) =
              FlagsBy(Over(a, x, c, 16), Over(a, x, c, 256), SumLeaves(a, x, c, 128, 256),
                      Null(a + x + c, 256), Negative(a + x + c, 128, 256), FALSE)
  BY <1>14, <1>18, <1>19 DEF FlagsBy, Toggle
<1>17. SumFlags(a, x, c, -1, 256) =
              FlagsBy(Under(a, x, c, 16), Under(a, x, c, 256), DifferenceLeaves(a, x, c, 128, 256),
                      Null(a - x - c, 256), Negative(a - x - c, 128, 256), TRUE)
  BY <1>15, <1>18, <1>19 DEF FlagsBy, Toggle
<1> QED BY <1>16, <1>17 DEF FlagsBy, Toggle

\* The parts of the flags as the code derives them.
LEMMA ByteParts ==
  ASSUME NEW a \in Int, 0 <= a, a < 256, NEW x \in Int, 0 <= x, x < 256, NEW c \in Int, 0 <= c, c <= 1
  PROVE  /\ On(CarryInto(4, a, x, a + x + c), "H") = Toggle(Over(a, x, c, 16), "H")
         /\ On(CarryInto(4, a, x, a - x - c), "H") = Toggle(Under(a, x, c, 16), "H")
         /\ On(CarryInto(8, a, x, a - x - c), "C") = Toggle(Under(a, x, c, 256), "C")
         /\ On(Bit(a + x + c, 8), "C") = Toggle(Over(a, x, c, 256), "C")
         /\ Overflow(a, x, a + x + c) = Toggle(SumLeaves(a, x, c, 128, 256), "PV")
         /\ Overflow(a, x, a - x - c) = Toggle(DifferenceLeaves(a, x, c, 128, 256), "PV")
<1>1. /\ On(CarryInto(4, a, x, a + x + c), "H") = Toggle(Over(a, x, c, Pow2[4]), "H")
      /\ On(CarryInto(4, a, x, a - x - c), "H") = Toggle(Under(a, x, c, Pow2[4]), "H")
  BY PlacesAre, OnCarry
<1>2. On(CarryInto(8, a, x, a - x - c), "C") = Toggle(Under(a, x, c, Pow2[8]), "C")
  BY PlacesAre, OnCarry
<1>3. On(Bit(a + x + c, 8), "C") = Toggle(Over(a, x, c, 256), "C")
  <2> DEFINE k == a + x + c >= 256
  <2>1. Bit(a + x + c, 8) = ((a + x + c) \div 256) % 2
    BY PowersUsed DEF Bit
  <2>2. ((a + x + c) \div 256) % 2 = IF k THEN 1 ELSE 0
    OBVIOUS
  <2>3. k <=> Over(a, x, c, 256)
    BY ByteLeaves
  <2>4. Bit(a + x + c, 8) = IF k THEN 1 ELSE 0
    BY <2>1, <2>2
  <2> HIDE DEF k
  <2>5. On(IF k THEN 1 ELSE 0, "C") = Toggle(k, "C")
    BY DEF On, Toggle
  <2>6. Toggle(k, "C") = Toggle(Over(a, x, c, 256), "C")
    BY <2>3 DEF Toggle
  <2> QED BY <2>4, <2>5, <2>6
<1>4. /\ Overflow(a, x, a + x + c) = Toggle(~(Over(a, x, c, Pow2[8]) <=> Over(a, x, c, Pow2[7])), "PV")
      /\ Overflow(a, x, a - x - c) = Toggle(~(Under(a, x, c, Pow2[8]) <=> Under(a, x, c, Pow2[7])), "PV")
  <2>1. 8 \in Place /\ 7 \in Place
    BY PlacesAre
  <2>2. Overflow(a, x, a + x + c)
          = OVERFLOW_TABLE[2 * CarryInto(8, a, x, a + x + c) + CarryInto(7, a, x, a + x + c) + 1]
    BY DEF Overflow
  <2>3. Overflow(a, x, a - x - c)
          = OVERFLOW_TABLE[2 * CarryInto(8, a, x, a - x - c) + CarryInto(7, a, x, a - x - c) + 1]
    BY DEF Overflow
  <2>4. Overflow(a, x, a + x + c) = Toggle(~(Over(a, x, c, Pow2[8]) <=> Over(a, x, c, Pow2[7])), "PV")
    BY <2>1, <2>2, OverflowWhen
  <2>5. Overflow(a, x, a - x - c) = Toggle(~(Under(a, x, c, Pow2[8]) <=> Under(a, x, c, Pow2[7])), "PV")
    BY <2>1, <2>3, OverflowWhen
  <2> QED BY <2>4, <2>5
<1>5. /\ ~(Over(a, x, c, 256) <=> Over(a, x, c, 128)) <=> SumLeaves(a, x, c, 128, 256)
      /\ ~(Under(a, x, c, 256) <=> Under(a, x, c, 128)) <=> DifferenceLeaves(a, x, c, 128, 256)
  BY ByteLeaves
<1>6. Overflow(a, x, a + x + c) = Toggle(SumLeaves(a, x, c, 128, 256), "PV")
  BY <1>4, <1>5, PowersUsed DEF Toggle
<1>7. Overflow(a, x, a - x - c) = Toggle(DifferenceLeaves(a, x, c, 128, 256), "PV")
  BY <1>4, <1>5, PowersUsed DEF Toggle
<1> QED BY <1>1, <1>2, <1>3, <1>6, <1>7, PowersUsed

LEMMA WordSums ==
  ASSUME NEW a \in Int, 0 <= a, a < 65536, NEW x \in Int, 0 <= x, x < 65536, NEW c \in Int, 0 <= c, c <= 1
  PROVE  /\ SumFlags(a, x, c, 1, 65536) =
              FlagsBy(Over(a, x, c, 4096), Over(a, x, c, 65536), SumLeaves(a, x, c, 32768, 65536),
                      Null(a + x + c, 65536), Negative(a + x + c, 32768, 65536), FALSE)
         /\ SumFlags(a, x, c, -1, 65536) =
              FlagsBy(Under(a, x, c, 4096), Under(a, x, c, 65536), DifferenceLeaves(a, x, c, 32768, 65536),
                      Null(a - x - c, 65536), Negative(a - x - c, 32768, 65536), TRUE)
<1> DEFINE size == 65536
<1>0. size \in Int
  OBVIOUS
<1>18. size = 65536
  OBVIOUS
<1> HIDE DEF size
<1> DEFINE digit == size \div 16
           half == size \div 2
           p == a % digit
           r == x % digit
           f == SignedBy(a, half, size)
           g == SignedBy(x, half, size)
<1>1. digit \in Int /\ half \in Int
  BY <1>0
<1>19. digit = 4096 /\ half = 32768
  BY <1>18
<1>2. SumFlags(a, x, c, 1, size) =
        (IF p + 1 * (r + c) \notin 0 .. (digit - 1) THEN {"H"} ELSE {})
        \cup (IF a + 1 * (x + c) \notin 0 .. (size - 1) THEN {"C"} ELSE {})
        \cup (IF f + 1 * (g + c) \notin -half .. (half - 1) THEN {"PV"} ELSE {})
        \cup (IF (a + 1 * (x + c)) % size = 0 THEN {"Z"} ELSE {})
        \cup (IF (a + 1 * (x + c)) % size >= half THEN {"S"} ELSE {})
        \cup (IF 1 = -1 THEN {"N"} ELSE {})
  BY DEF SumFlags, SignedBy
<1>3. SumFlags(a, x, c, -1, size) =
        (IF p + (-1) * (r + c) \notin 0 .. (digit - 1) THEN {"H"} ELSE {})
        \cup (IF a + (-1) * (x + c) \notin 0 .. (size - 1) THEN {"C"} ELSE {})
        \cup (IF f + (-1) * (g + c) \notin -half .. (half - 1) THEN {"PV"} ELSE {})
        \cup (IF (a + (-1) * (x + c)) % size = 0 THEN {"Z"} ELSE {})
        \cup (IF (a + (-1) * (x + c)) % size >= half THEN {"S"} ELSE {})
        \cup (IF -1 = -1 THEN {"N"} ELSE {})
  BY DEF SumFlags, SignedBy
<1> HIDE DEF digit, half, p, r, f, g
<1>4. p = a % 4096 /\ r = x % 4096 /\ f = SignedBy(a, 32768, 65536) /\ g = SignedBy(x, 32768, 65536)
  BY <1>18, <1>19 DEF p, r, f, g
<1>5. p \in Int /\ r \in Int /\ f \in Int /\ g \in Int
  BY <1>4 DEF SignedBy
<1>6. /\ p + 1 * (r + c) = p + r + c /\ a + 1 * (x + c) = a + x + c /\ f + 1 * (g + c) = f + g + c
      /\ p + (-1) * (r + c) = p - r - c /\ a + (-1) * (x + c) = a - x - c /\ f + (-1) * (g + c) = f - g - c
      /\ 1 # -1
  BY <1>5
<1>7. ASSUME NEW v \in Int, NEW l \in Int, NEW u \in Int PROVE v \notin l .. (u - 1) <=> (v < l \/ v >= u)
  OBVIOUS
<1>8. p + r + c \notin 0 .. (digit - 1) <=> Over(a, x, c, 4096)
  <2>1. p + r + c \notin 0 .. (digit - 1) <=> (p + r + c < 0 \/ p + r + c >= digit)
    BY <1>1, <1>5, <1>7
  <2>2. (p + r + c < 0 \/ p + r + c >= digit) <=> Over(a, x, c, 4096)
    BY <1>19, <1>4, WordLeaves
  <2> QED BY <2>1, <2>2
<1>9. p - r - c \notin 0 .. (digit - 1) <=> Under(a, x, c, 4096)
  <2>1. p - r - c \notin 0 .. (digit - 1) <=> (p - r - c < 0 \/ p - r - c >= digit)
    BY <1>1, <1>5, <1>7
  <2>2. (p - r - c < 0 \/ p - r - c >= digit) <=> Under(a, x, c, 4096)
    BY <1>19, <1>4, WordLeaves
  <2> QED BY <2>1, <2>2
<1>10. a + x + c \notin 0 .. (size - 1) <=> Over(a, x, c, 65536)
  <2>1. a + x + c \notin 0 .. (size - 1) <=> (a + x + c < 0 \/ a + x + c >= size)
    BY <1>0, <1>7
  <2>2. (a + x + c < 0 \/ a + x + c >= size) <=> Over(a, x, c, 65536)
    BY <1>18, WordLeaves
  <2> QED BY <2>1, <2>2
<1>11. a - x - c \notin 0 .. (size - 1) <=> Under(a, x, c, 65536)
  <2>1. a - x - c \notin 0 .. (size - 1) <=> (a - x - c < 0 \/ a - x - c >= size)
    BY <1>0, <1>7
  <2>2. (a - x - c < 0 \/ a - x - c >= size) <=> Under(a, x, c, 65536)
    BY <1>18, WordLeaves
  <2> QED BY <2>1, <2>2
<1>12. f + g + c \notin -half .. (half - 1) <=> SumLeaves(a, x, c, 32768, 65536)
  <2>1. f + g + c \notin -half .. (half - 1) <=> ~InSigned(f + g + c, half)
    BY <1>1, <1>5, <1>7 DEF InSigned
  <2>2. ~InSigned(f + g + c, half) <=> SumLeaves(a, x, c, 32768, 65536)
    BY <1>19, <1>4 DEF SumLeaves
  <2> QED BY <2>1, <2>2
<1>13. f - g - c \notin -half .. (half - 1) <=> DifferenceLeaves(a, x, c, 32768, 65536)
  <2>1. f - g - c \notin -half .. (half - 1) <=> ~InSigned(f - g - c, half)
    BY <1>1, <1>5, <1>7 DEF InSigned
  <2>2. ~InSigned(f - g - c, half) <=> DifferenceLeaves(a, x, c, 32768, 65536)
    BY <1>19, <1>4 DEF DifferenceLeaves
  <2> QED BY <2>1, <2>2
<1>14. SumFlags(a, x, c, 1, size) =
              FlagsBy(Over(a, x, c, 4096), Over(a, x, c, 65536), SumLeaves(a, x, c, 32768, 65536),
                      Null(a + x + c, size), Negative(a + x + c, half, size), FALSE)
  BY <1>2, <1>6, <1>8, <1>10, <1>12 DEF FlagsBy, Toggle, Null, Negative
<1>15. SumFlags(a, x, c, -1, size) =
              FlagsBy(Under(a, x, c, 4096), Under(a, x, c, 65536), DifferenceLeaves(a, x, c, 32768, 65536),
                      Null(a - x - c, size), Negative(a - x - c, half, size), TRUE)
  BY <1>3, <1>6, <1>9, <1>11, <1>13 DEF FlagsBy, Toggle, Null, Negative
<1>16. SumFlags(a, x, c, 1, 65536) =
              FlagsBy(Over(a, x, c, 4096), Over(a, x, c, 65536), SumLeaves(a, x, c, 32768, 65536),
                      Null(a + x + c, 65536), Negative(a + x + c, 32768, 65536), FALSE)
  BY <1>14, <1>18, <1>19 DEF FlagsBy, Toggle
<1>17. SumFlags(a, x, c, -1, 65536) =
              FlagsBy(Under(a, x, c, 4096), Under(a, x, c, 65536), DifferenceLeaves(a, x, c, 32768, 65536),
                      Null(a - x - c, 65536), Negative(a - x - c, 32768, 65536), TRUE)
  BY <1>15, <1>18, <1>19 DEF FlagsBy, Toggle
<1> QED BY <1>16, <1>17 DEF FlagsBy, Toggle

\* The parts of the flags as the code derives them.
LEMMA WordParts ==
  ASSUME NEW a \in Int, 0 <= a, a < 65536, NEW x \in Int, 0 <= x, x < 65536, NEW c \in Int, 0 <= c, c <= 1
  PROVE  /\ On(CarryInto(12, a, x, a + x + c), "H") = Toggle(Over(a, x, c, 4096), "H")
         /\ On(CarryInto(12, a, x, a - x - c), "H") = Toggle(Under(a, x, c, 4096), "H")
         /\ On(CarryInto(16, a, x, a - x - c), "C") = Toggle(Under(a, x, c, 65536), "C")
         /\ On(Bit(a + x + c, 16), "C") = Toggle(Over(a, x, c, 65536), "C")
         /\ Overflow16(a, x, a + x + c) = Toggle(SumLeaves(a, x, c, 32768, 65536), "PV")
         /\ Overflow16(a, x, a - x - c) = Toggle(DifferenceLeaves(a, x, c, 32768, 65536), "PV")
<1>1. /\ On(CarryInto(12, a, x, a + x + c), "H") = Toggle(Over(a, x, c, Pow2[12]), "H")
      /\ On(CarryInto(12, a, x, a - x - c), "H") = Toggle(Under(a, x, c, Pow2[12]), "H")
  BY PlacesAre, OnCarry
<1>2. On(CarryInto(16, a, x, a - x - c), "C") = Toggle(Under(a, x, c, Pow2[16]), "C")
  BY PlacesAre, OnCarry
<1>3. On(Bit(a + x + c, 16), "C") = Toggle(Over(a, x, c, 65536), "C")
  <2> DEFINE k == a + x + c >= 65536
  <2>1. Bit(a + x + c, 16) = ((a + x + c) \div 65536) % 2
    BY PowersUsed DEF Bit
  <2>2. ((a + x + c) \div 65536) % 2 = IF k THEN 1 ELSE 0
    OBVIOUS
  <2>3. k <=> Over(a, x, c, 65536)
    BY WordLeaves
  <2>4. Bit(a + x + c, 16) = IF k THEN 1 ELSE 0
    BY <2>1, <2>2
  <2> HIDE DEF k
  <2>5. On(IF k THEN 1 ELSE 0, "C") = Toggle(k, "C")
    BY DEF On, Toggle
  <2>6. Toggle(k, "C") = Toggle(Over(a, x, c, 65536), "C")
    BY <2>3 DEF Toggle
  <2> QED BY <2>4, <2>5, <2>6
<1>4. /\ Overflow16(a, x, a + x + c) = Toggle(~(Over(a, x, c, Pow2[16]) <=> Over(a, x, c, Pow2[15])), "PV")
      /\ Overflow16(a, x, a - x - c) = Toggle(~(Under(a, x, c, Pow2[16]) <=> Under(a, x, c, Pow2[15])), "PV")
  <2>1. 16 \in Place /\ 15 \in Place
    BY PlacesAre
  <2>2. Overflow16(a, x, a + x + c)
          = OVERFLOW_TABLE[2 * CarryInto(16, a, x, a + x + c) + CarryInto(15, a, x, a + x + c) + 1]
    BY DEF Overflow16
  <2>3. Overflow16(a, x, a - x - c)
          = OVERFLOW_TABLE[2 * CarryInto(16, a, x, a - x - c) + CarryInto(15, a, x, a - x - c) + 1]
    BY DEF Overflow16
  <2>4. Overflow16(a, x, a + x + c) = Toggle(~(Over(a, x, c, Pow2[16]) <=> Over(a, x, c, Pow2[15])), "PV")
    BY <2>1, <2>2, OverflowWhen
  <2>5. Overflow16(a, x, a - x - c) = Toggle(~(Under(a, x, c, Pow2[16]) <=> Under(a, x, c, Pow2[15])), "PV")
    BY <2>1, <2>3, OverflowWhen
  <2> QED BY <2>4, <2>5
<1>5. /\ ~(Over(a, x, c, 65536) <=> Over(a, x, c, 32768)) <=> SumLeaves(a, x, c, 32768, 65536)
      /\ ~(Under(a, x, c, 65536) <=> Under(a, x, c, 32768)) <=> DifferenceLeaves(a, x, c, 32768, 65536)
  BY WordLeaves
<1>6. Overflow16(a, x, a + x + c) = Toggle(SumLeaves(a, x, c, 32768, 65536), "PV")
  BY <1>4, <1>5, PowersUsed DEF Toggle
<1>7. Overflow16(a, x, a - x - c) = Toggle(DifferenceLeaves(a, x, c, 32768, 65536), "PV")
  BY <1>4, <1>5, PowersUsed DEF Toggle
<1> QED BY <1>1, <1>2, <1>3, <1>6, <1>7, PowersUsed

-----------------------------------------------------------------------------
(* The operations set the flags of the arithmetic they stand for.          *)

LEMMA ByteSign ==
  ASSUME NEW z \in Int
  PROVE  SZYX_FLAGS_TABLE[z % 256] \ YX = Toggle(Null(z, 256), "Z") \cup Toggle(Negative(z, 128, 256), "S")
<1> DEFINE v == z % 256
<1>1. v \in Byte
  BY InByte
<1> HIDE DEF v
<1>2. SZYX_FLAGS_TABLE[v] \ YX = (IF v = 0 THEN {"Z"} ELSE {}) \cup (IF v >= 128 THEN {"S"} ELSE {})
  BY <1>1, SignAndZero
<1> QED BY <1>2 DEF v, Toggle, Null, Negative

LEMMA WordSign ==
  ASSUME NEW z \in Int
  PROVE  SZYX16(z) \ YX = Toggle(Null(z, 65536), "Z") \cup Toggle(Negative(z, 32768, 65536), "S")
<1> DEFINE v == z % 65536
           b == (z \div 256) % 256
<1>1. v \in Int /\ 0 <= v /\ v < 65536
  OBVIOUS
<1>2. b = v \div 256
  OBVIOUS
<1>3. b \in Byte
  <2>1. z \div 256 \in Int
    OBVIOUS
  <2> QED BY <2>1, InByte
<1>4. SZYX16(z) = IF v # 0 THEN FlagsIn[b] \cap {"S", "Y", "X"} ELSE {"Z"}
  BY DEF SZYX16, High
<1>5. Null(z, 65536) <=> v = 0
  BY DEF Null
<1>6. Negative(z, 32768, 65536) <=> v >= 32768
  BY DEF Negative
<1> HIDE DEF b, v
<1>7. "S" \in FlagsIn[b] <=> v >= 32768
  <2>1. b \in Nat /\ b <= 255 /\ b \in Int
    BY <1>3, ByteIs
  <2>2. Bit(b, 7) = (b \div 128) % 2
    BY <2>1, LowBits
  <2>3. (b \div 128) % 2 = 1 <=> b >= 128
    BY <2>1
  <2>4. FlagBit["S"] = 7 /\ "S" \in Flag
    BY FlagsAre DEF FlagBit
  <2>5. FlagsIn[b] = {x \in Flag : Bit(b, FlagBit[x]) = 1}
    BY <1>3 DEF FlagsIn
  <2>6. b >= 128 <=> v >= 32768
    BY <1>1, <1>2
  <2> QED BY <2>2, <2>3, <2>4, <2>5, <2>6
<1>8. CASE v = 0
  <2>1. ~(v >= 32768)
    BY <1>8
  <2> QED BY <1>4, <1>5, <1>6, <1>8, <2>1 DEF Toggle, YX
<1>9. CASE v # 0
  <2>1. SZYX16(z) = FlagsIn[b] \cap {"S", "Y", "X"}
    BY <1>4, <1>9
  <2> QED BY <1>5, <1>6, <1>7, <1>9, <2>1 DEF Toggle, YX
<1> QED BY <1>8, <1>9

LEMMA AddFlags ==
  ASSUME NEW a \in Int, 0 <= a, a < 256, NEW x \in Int, 0 <= x, x < 256, NEW c \in Int, 0 <= c, c <= 1
  PROVE  AddTo(a, x, c).f \ YX = SumFlags(a, x, c, 1, 256)
<1> DEFINE h == Over(a, x, c, 16)
           k == Over(a, x, c, 256)
           o == SumLeaves(a, x, c, 128, 256)
           n == Null(a + x + c, 256)
           s == Negative(a + x + c, 128, 256)
           t == SZYX_FLAGS_TABLE[(a + x + c) % 256]
<1>1. AddTo(a, x, c).f = On(CarryInto(4, a, x, a + x + c), "H") \cup t \cup Overflow(a, x, a + x + c) \cup On(Bit(a + x + c, 8), "C")
  BY DEF AddTo, Half
<1>2. On(CarryInto(4, a, x, a + x + c), "H") = Toggle(h, "H") /\ Overflow(a, x, a + x + c) = Toggle(o, "PV")
      /\ On(Bit(a + x + c, 8), "C") = Toggle(k, "C")
  BY ByteParts
<1>3. t \ YX = Toggle(n, "Z") \cup Toggle(s, "S")
  <2> DEFINE z == a + x + c
  <2>1. z \in Int
    OBVIOUS
  <2> HIDE DEF z
  <2>2. SZYX_FLAGS_TABLE[(z) % 256] \ YX = Toggle(Null(z, 256), "Z") \cup Toggle(Negative(z, 128, 256), "S")
    BY <2>1, ByteSign
  <2> QED BY <2>2 DEF z
<1>4. SumFlags(a, x, c, 1, 256) = FlagsBy(h, k, o, n, s, FALSE)
  BY ByteSums DEF FlagsBy, Toggle
<1> HIDE DEF h, k, o, n, s, t
<1>5. (Toggle(h, "H") \cup t \cup Toggle(o, "PV") \cup Toggle(k, "C")) \ YX = FlagsBy(h, k, o, n, s, FALSE)
  BY <1>3 DEF FlagsBy, Toggle, YX
<1> QED BY <1>1, <1>2, <1>4, <1>5

LEMMA SubFlags ==
  ASSUME NEW a \in Int, 0 <= a, a < 256, NEW x \in Int, 0 <= x, x < 256, NEW c \in Int, 0 <= c, c <= 1
  PROVE  SubFrom(a, x, c).f \ YX = SumFlags(a, x, c, -1, 256)
<1> DEFINE h == Under(a, x, c, 16)
           k == Under(a, x, c, 256)
           o == DifferenceLeaves(a, x, c, 128, 256)
           n == Null(a - x - c, 256)
           s == Negative(a - x - c, 128, 256)
           t == SZYX_FLAGS_TABLE[(a - x - c) % 256]
<1>1. SubFrom(a, x, c).f = {"N"} \cup On(CarryInto(4, a, x, a - x - c), "H") \cup t \cup Overflow(a, x, a - x - c) \cup On(CarryInto(8, a, x, a - x - c), "C")
  BY DEF SubFrom, Half
<1>2. On(CarryInto(4, a, x, a - x - c), "H") = Toggle(h, "H") /\ Overflow(a, x, a - x - c) = Toggle(o, "PV")
      /\ On(CarryInto(8, a, x, a - x - c), "C") = Toggle(k, "C")
  BY ByteParts
<1>3. t \ YX = Toggle(n, "Z") \cup Toggle(s, "S")
  <2> DEFINE z == a - x - c
  <2>1. z \in Int
    OBVIOUS
  <2> HIDE DEF z
  <2>2. SZYX_FLAGS_TABLE[(z) % 256] \ YX = Toggle(Null(z, 256), "Z") \cup Toggle(Negative(z, 128, 256), "S")
    BY <2>1, ByteSign
  <2> QED BY <2>2 DEF z
<1>4. SumFlags(a, x, c, -1, 256) = FlagsBy(h, k, o, n, s, TRUE)
  BY ByteSums DEF FlagsBy, Toggle
<1> HIDE DEF h, k, o, n, s, t
<1>5. ({"N"} \cup Toggle(h, "H") \cup t \cup Toggle(o, "PV") \cup Toggle(k, "C")) \ YX = FlagsBy(h, k, o, n, s, TRUE)
  BY <1>3 DEF FlagsBy, Toggle, YX
<1> QED BY <1>1, <1>2, <1>4, <1>5

-----------------------------------------------------------------------------
(* The same for the operations that are written in terms of these.         *)

LEMMA CarryIsBit == ASSUME NEW f PROVE CarryOf(f) \in Int /\ 0 <= CarryOf(f) /\ CarryOf(f) <= 1
BY DEF CarryOf

LEMMA INCFlags ==
  ASSUME NEW x \in Int, 0 <= x, x < 256, NEW f
  PROVE  INC(x, f).f \ YX = (SumFlags(x, 1, 0, 1, 256) \ {"C"}) \cup (f \cap {"C"})
<1> DEFINE z == x + 1
           h == Over(x, 0, 1, 16)
           o == SumLeaves(x, 0, 1, 128, 256)
           k == Over(x, 1, 0, 256)
           n == Null(z, 256)
           s == Negative(z, 128, 256)
           t == SZYX_FLAGS_TABLE[z % 256]
           g == f \cap {"C"}
<1>1. INC(x, f).f = g \cup On(CarryInto(4, x, 0, z), "H") \cup t \cup Overflow(x, 0, z)
  BY DEF INC, Half
<1>2. x + 0 + 1 = z /\ x + 1 + 0 = z /\ z \in Int
  OBVIOUS
<1>3. t \ YX = Toggle(n, "Z") \cup Toggle(s, "S")
  <2> HIDE DEF z
  <2> QED BY <1>2, ByteSign
<1>4. On(CarryInto(4, x, 0, x + 0 + 1), "H") = Toggle(h, "H") /\ Overflow(x, 0, x + 0 + 1) = Toggle(o, "PV")
  BY ByteParts
<1>5. SumFlags(x, 1, 0, 1, 256)
        = FlagsBy(Over(x, 1, 0, 16), k, SumLeaves(x, 1, 0, 128, 256), Null(x + 1 + 0, 256),
                  Negative(x + 1 + 0, 128, 256), FALSE)
  BY ByteSums DEF FlagsBy, Toggle
<1>6. Over(x, 1, 0, 16) <=> h
  BY DEF Over
<1>7. SumLeaves(x, 1, 0, 128, 256) <=> o
  BY DEF SumLeaves, SignedBy, InSigned
<1> HIDE DEF z, h, k, o, n, s, t, g
<1>8. On(CarryInto(4, x, 0, z), "H") = Toggle(h, "H") /\ Overflow(x, 0, z) = Toggle(o, "PV")
  BY <1>2, <1>4
<1>9. SumFlags(x, 1, 0, 1, 256) = FlagsBy(h, k, o, n, s, FALSE)
  BY <1>2, <1>5, <1>6, <1>7 DEF n, s, FlagsBy, Toggle
<1>10. g \subseteq {"C"}
  BY DEF g
<1>11. (g \cup Toggle(h, "H") \cup t \cup Toggle(o, "PV")) \ YX = (FlagsBy(h, k, o, n, s, FALSE) \ {"C"}) \cup g
  BY <1>3, <1>10 DEF FlagsBy, Toggle, YX
<1> QED BY <1>1, <1>8, <1>9, <1>11 DEF g

LEMMA DECFlags ==
  ASSUME NEW x \in Int, 0 <= x, x < 256, NEW f
  PROVE  DEC(x, f).f \ YX = (SumFlags(x, 1, 0, -1, 256) \ {"C"}) \cup (f \cap {"C"})
<1> DEFINE z == x - 1
           h == Under(x, 0, 1, 16)
           o == DifferenceLeaves(x, 0, 1, 128, 256)
           k == Under(x, 1, 0, 256)
           n == Null(z, 256)
           s == Negative(z, 128, 256)
           t == SZYX_FLAGS_TABLE[z % 256]
           g == f \cap {"C"}
<1>1. DEC(x, f).f = {"N"} \cup g \cup On(CarryInto(4, x, 0, z), "H") \cup t \cup Overflow(x, 0, z)
  BY DEF DEC, Half
<1>2. x - 0 - 1 = z /\ x - 1 - 0 = z /\ z \in Int
  OBVIOUS
<1>3. t \ YX = Toggle(n, "Z") \cup Toggle(s, "S")
  <2> HIDE DEF z
  <2> QED BY <1>2, ByteSign
<1>4. On(CarryInto(4, x, 0, x - 0 - 1), "H") = Toggle(h, "H") /\ Overflow(x, 0, x - 0 - 1) = Toggle(o, "PV")
  BY ByteParts
<1>5. SumFlags(x, 1, 0, -1, 256)
        = FlagsBy(Under(x, 1, 0, 16), k, DifferenceLeaves(x, 1, 0, 128, 256), Null(x - 1 - 0, 256),
                  Negative(x - 1 - 0, 128, 256), TRUE)
  BY ByteSums DEF FlagsBy, Toggle
<1>6. Under(x, 1, 0, 16) <=> h
  BY DEF Under
<1>7. DifferenceLeaves(x, 1, 0, 128, 256) <=> o
  BY DEF DifferenceLeaves, SignedBy, InSigned
<1> HIDE DEF z, h, k, o, n, s, t, g
<1>8. On(CarryInto(4, x, 0, z), "H") = Toggle(h, "H") /\ Overflow(x, 0, z) = Toggle(o, "PV")
  BY <1>2, <1>4
<1>9. SumFlags(x, 1, 0, -1, 256) = FlagsBy(h, k, o, n, s, TRUE)
  BY <1>2, <1>5, <1>6, <1>7 DEF n, s, FlagsBy, Toggle
<1>10. g \subseteq {"C"}
  BY DEF g
<1>11. ({"N"} \cup g \cup Toggle(h, "H") \cup t \cup Toggle(o, "PV")) \ YX = (FlagsBy(h, k, o, n, s, TRUE) \ {"C"}) \cup g
  BY <1>3, <1>10 DEF FlagsBy, Toggle, YX
<1> QED BY <1>1, <1>8, <1>9, <1>11 DEF g

LEMMA ADCWordFlags ==
  ASSUME NEW a \in Int, 0 <= a, a < 65536, NEW x \in Int, 0 <= x, x < 65536, NEW f
  PROVE  ADC_HL(a, x, f).f \ YX = SumFlags(a, x, CarryOf(f), 1, 65536)
<1> DEFINE c == CarryOf(f)
<1>0. c \in Int /\ 0 <= c /\ c <= 1
  BY CarryIsBit
<1> DEFINE h == Over(a, x, c, 4096)
           k == Over(a, x, c, 65536)
           o == SumLeaves(a, x, c, 32768, 65536)
           z == a + x + c
           n == Null(z, 65536)
           s == Negative(z, 32768, 65536)
           t == SZYX16(z)
<1>1. ADC_HL(a, x, f).f = t \cup On(CarryInto(12, a, x, a + x + c), "H") \cup Overflow16(a, x, a + x + c) \cup On(Bit(a + x + c, 16), "C")
  BY DEF ADC_HL
<1> HIDE DEF c
<1>2. On(CarryInto(12, a, x, a + x + c), "H") = Toggle(h, "H") /\ Overflow16(a, x, a + x + c) = Toggle(o, "PV")
      /\ On(Bit(a + x + c, 16), "C") = Toggle(k, "C")
  BY <1>0, WordParts
<1>3. t \ YX = Toggle(n, "Z") \cup Toggle(s, "S")
  <2>1. z \in Int
    BY <1>0
  <2> HIDE DEF z
  <2> QED BY <2>1, WordSign
<1>4. SumFlags(a, x, c, 1, 65536) = FlagsBy(h, k, o, n, s, FALSE)
  BY <1>0, WordSums DEF FlagsBy, Toggle
<1> HIDE DEF h, k, o, n, s, t
<1>5. (t \cup Toggle(h, "H") \cup Toggle(o, "PV") \cup Toggle(k, "C")) \ YX = FlagsBy(h, k, o, n, s, FALSE)
  BY <1>3 DEF FlagsBy, Toggle, YX
<1>6. ADC_HL(a, x, f).f \ YX = SumFlags(a, x, c, 1, 65536)
  <2>1. ADC_HL(a, x, f).f = t \cup Toggle(h, "H") \cup Toggle(o, "PV") \cup Toggle(k, "C")
    BY <1>1, <1>2
  <2>2. ADC_HL(a, x, f).f \ YX = FlagsBy(h, k, o, n, s, FALSE)
    BY <1>5, <2>1 DEF FlagsBy, Toggle
  <2> QED BY <1>4, <2>2 DEF FlagsBy, Toggle
<1> QED BY <1>6 DEF c

LEMMA SBCWordFlags ==
  ASSUME NEW a \in Int, 0 <= a, a < 65536, NEW x \in Int, 0 <= x, x < 65536, NEW f
  PROVE  SBC_HL(a, x, f).f \ YX = SumFlags(a, x, CarryOf(f), -1, 65536)
<1> DEFINE c == CarryOf(f)
<1>0. c \in Int /\ 0 <= c /\ c <= 1
  BY CarryIsBit
<1> DEFINE h == Under(a, x, c, 4096)
           k == Under(a, x, c, 65536)
           o == DifferenceLeaves(a, x, c, 32768, 65536)
           z == a - x - c
           n == Null(z, 65536)
           s == Negative(z, 32768, 65536)
           t == SZYX16(z)
<1>1. SBC_HL(a, x, f).f = {"N"} \cup t \cup On(CarryInto(12, a, x, a - x - c), "H") \cup Overflow16(a, x, a - x - c) \cup On(CarryInto(16, a, x, a - x - c), "C")
  BY DEF SBC_HL
<1> HIDE DEF c
<1>2. On(CarryInto(12, a, x, a - x - c), "H") = Toggle(h, "H") /\ Overflow16(a, x, a - x - c) = Toggle(o, "PV")
      /\ On(CarryInto(16, a, x, a - x - c), "C") = Toggle(k, "C")
  BY <1>0, WordParts
<1>3. t \ YX = Toggle(n, "Z") \cup Toggle(s, "S")
  <2>1. z \in Int
    BY <1>0
  <2> HIDE DEF z
  <2> QED BY <2>1, WordSign
<1>4. SumFlags(a, x, c, -1, 65536) = FlagsBy(h, k, o, n, s, TRUE)
  BY <1>0, WordSums DEF FlagsBy, Toggle
<1> HIDE DEF h, k, o, n, s, t
<1>5. ({"N"} \cup t \cup Toggle(h, "H") \cup Toggle(o, "PV") \cup Toggle(k, "C")) \ YX = FlagsBy(h, k, o, n, s, TRUE)
  BY <1>3 DEF FlagsBy, Toggle, YX
<1>6. SBC_HL(a, x, f).f \ YX = SumFlags(a, x, c, -1, 65536)
  <2>1. SBC_HL(a, x, f).f = {"N"} \cup t \cup Toggle(h, "H") \cup Toggle(o, "PV") \cup Toggle(k, "C")
    BY <1>1, <1>2
  <2>2. SBC_HL(a, x, f).f \ YX = FlagsBy(h, k, o, n, s, TRUE)
    BY <1>5, <2>1 DEF FlagsBy, Toggle
  <2> QED BY <1>4, <2>2 DEF FlagsBy, Toggle
<1> QED BY <1>6 DEF c

LEMMA NegFlags ==
  ASSUME NEW a \in Int, 0 <= a, a < 256
  PROVE  NEG(a).f \ YX = SumFlags(0, a, 0, -1, 256)
<1>1. SubFrom(0, a, 0).f \ YX = SumFlags(0, a, 0, -1, 256)
  BY SubFlags
<1>2. 0 - a - 0 = -a /\ -a \in Int /\ 0 \in Int
  OBVIOUS
<1> DEFINE z == -a
<1>3. SubFrom(0, a, 0).f = {"N"} \cup Half(0, a, 0 - a - 0) \cup SZYX_FLAGS_TABLE[(0 - a - 0) % 256]
                             \cup Overflow(0, a, 0 - a - 0) \cup On(CarryInto(8, 0, a, 0 - a - 0), "C")
  BY DEF SubFrom
<1>4. NEG(a).f = {"N"} \cup Half(a, 0, z) \cup SZYX_FLAGS_TABLE[z % 256] \cup Overflow(a, 0, z)
                   \cup On(CarryInto(8, a, 0, z), "C")
  BY DEF NEG
<1> HIDE DEF z
<1>5. z \in Int /\ 0 - a - 0 = z
  BY <1>2 DEF z
<1>6. CarryInto(4, a, 0, z) = CarryInto(4, 0, a, z) /\ CarryInto(7, a, 0, z) = CarryInto(7, 0, a, z)
      /\ CarryInto(8, a, 0, z) = CarryInto(8, 0, a, z)
  BY <1>2, <1>5, PlacesAre, SwappedCarry
<1>7. Half(a, 0, z) = Half(0, a, z) /\ Overflow(a, 0, z) = Overflow(0, a, z)
  BY <1>6 DEF Half, Overflow
<1>8. NEG(a).f = SubFrom(0, a, 0).f
  BY <1>3, <1>4, <1>5, <1>6, <1>7
<1> QED BY <1>1, <1>8

LEMMA CpFlags ==
  ASSUME NEW a \in Int, 0 <= a, a < 256, NEW x \in Int, 0 <= x, x < 256
  PROVE  CP(a, x).f \ YX = SumFlags(a, x, 0, -1, 256)
<1>1. SubFrom(a, x, 0).f \ YX = SumFlags(a, x, 0, -1, 256)
  BY SubFlags
<1>2. CP(a, x).f = (SubFrom(a, x, 0).f \ YX) \cup (FlagsIn[x] \cap YX)
  BY DEF CP
<1>3. CP(a, x).f \ YX = SubFrom(a, x, 0).f \ YX
  BY <1>2
<1> QED BY <1>1, <1>3

-----------------------------------------------------------------------------
(* The flags after a step.                                                 *)

SumOps == {"ADD", "ADC", "SUB", "SBC", "CP", "INC", "DEC", "NEG", "ADC_HL_RR", "SBC_HL_RR"}

\* What one step has to do with the flags.
FlagStep ==
  Sums => LET kept == IF cur.ins.op \in {"INC", "DEC"} THEN {"C"} ELSE {}
          IN  cpu'.F \ YX = (SumFlags(Sum.a, Sum.x, Sum.c, Sum.s, Sum.size) \ kept) \cup (cpu.F \cap kept)

LEMMA ByteInt == ASSUME NEW v \in Byte PROVE v \in Int /\ 0 <= v /\ v < 256
BY ByteIs

LEMMA WordInt == ASSUME NEW v \in Word PROVE v \in Int /\ 0 <= v /\ v < 65536
BY WordIs

LEMMA BitInt == 0 \in Int /\ 0 <= 0 /\ 0 <= 1
OBVIOUS

\* The flags of each operation on A.
LEMMA AccumulateFlags ==
  ASSUME NEW a \in Byte, NEW x \in Byte, NEW f
  PROVE  /\ Accumulate("ADD", a, x, f).f \ YX = SumFlags(a, x, 0, 1, 256)
         /\ Accumulate("ADC", a, x, f).f \ YX = SumFlags(a, x, CarryOf(f), 1, 256)
         /\ Accumulate("SUB", a, x, f).f \ YX = SumFlags(a, x, 0, -1, 256)
         /\ Accumulate("SBC", a, x, f).f \ YX = SumFlags(a, x, CarryOf(f), -1, 256)
         /\ Accumulate("CP", a, x, f).f \ YX = SumFlags(a, x, 0, -1, 256)
<1>1. a \in Int /\ 0 <= a /\ a < 256 /\ x \in Int /\ 0 <= x /\ x < 256
  BY ByteInt
<1> DEFINE c == CarryOf(f)
<1>2. c \in Int /\ 0 <= c /\ c <= 1
  BY CarryIsBit
<1>3. /\ Accumulate("ADD", a, x, f) = AddTo(a, x, 0) /\ Accumulate("ADC", a, x, f) = AddTo(a, x, c)
      /\ Accumulate("SUB", a, x, f) = SubFrom(a, x, 0) /\ Accumulate("SBC", a, x, f) = SubFrom(a, x, c)
      /\ Accumulate("CP", a, x, f) = CP(a, x)
  BY DEF Accumulate, ADD, ADC, SUB, SBC
<1> HIDE DEF c
<1>4. AddTo(a, x, 0).f \ YX = SumFlags(a, x, 0, 1, 256)
  BY <1>1, BitInt, AddFlags
<1>5. AddTo(a, x, c).f \ YX = SumFlags(a, x, c, 1, 256)
  BY <1>1, <1>2, AddFlags
<1>6. SubFrom(a, x, 0).f \ YX = SumFlags(a, x, 0, -1, 256)
  BY <1>1, BitInt, SubFlags
<1>7. SubFrom(a, x, c).f \ YX = SumFlags(a, x, c, -1, 256)
  BY <1>1, <1>2, SubFlags
<1>8. CP(a, x).f \ YX = SumFlags(a, x, 0, -1, 256)
  BY <1>1, CpFlags
<1> QED BY <1>3, <1>4, <1>5, <1>6, <1>7, <1>8 DEF c

LEMMA SetVFFlags == ASSUME NEW s \in Cpu, NEW name, NEW u PROVE SetVF(s, name, u).F = u.f
BY DEF SetVF, Cpu

\* An operation that sets all flags, and what the step owes for it.
LEMMA FlagStepOf ==
  ASSUME NEW a, NEW x, NEW c, NEW s, NEW size, cur.ins.op \notin {"INC", "DEC"},
         Sum = [a |-> a, x |-> x, c |-> c, s |-> s, size |-> size],
         cpu'.F \ YX = SumFlags(a, x, c, s, size)
  PROVE  FlagStep
<1>1. Sum.a = a /\ Sum.x = x /\ Sum.c = c /\ Sum.s = s /\ Sum.size = size
  OBVIOUS
<1> QED BY <1>1 DEF FlagStep

\* What is added to or subtracted from A.
LEMMA AccumulateSums ==
  /\ cur.ins.op = "ADD" => Sum = [a |-> cpu.reg["A"], x |-> cpu.reg[R(cur.p, Z(cur.opcode))], c |-> 0,
                                  s |-> 1, size |-> 256]
  /\ cur.ins.op = "ADC" => Sum = [a |-> cpu.reg["A"], x |-> cpu.reg[R(cur.p, Z(cur.opcode))],
                                  c |-> CarryOf(cpu.F), s |-> 1, size |-> 256]
  /\ cur.ins.op \in {"SUB", "CP"} => Sum = [a |-> cpu.reg["A"], x |-> cpu.reg[R(cur.p, Z(cur.opcode))], c |-> 0,
                                            s |-> -1, size |-> 256]
  /\ cur.ins.op = "SBC" => Sum = [a |-> cpu.reg["A"], x |-> cpu.reg[R(cur.p, Z(cur.opcode))],
                                  c |-> CarryOf(cpu.F), s |-> -1, size |-> 256]
BY DEF Sum

LEMMA ArithmeticFlags ==
  ASSUME Sound, ArithmeticGroup, Sums
  PROVE  FlagStep
<1> DEFINE a == cpu.reg["A"]
           x == cpu.reg[R(cur.p, Z(cur.opcode))]
           f == cpu.F
           u == Accumulate(cur.ins.op, a, x, f)
<1>1. Executing(ARITH8) /\ Do(Arith8(cpu, cur.p, cur.opcode, cur.ins))
  BY DEF ArithmeticGroup
<1>2. (cur.ins.form = "R" /\ Z(cur.opcode) # 6) \/ cur.ins.form \in {"N", "INDIRECT_HL"}
  BY <1>1, Ready, AluIs, AluForms
<1>3. cur.ins.form = "R" /\ Z(cur.opcode) # 6
  BY <1>2 DEF Sums
<1>4. cpu \in Cpu /\ cur.p \in Index /\ cur.opcode \in Byte
  BY <1>1, Ready
<1>5. a \in Byte /\ x \in Byte
  <2>1. R(cur.p, Z(cur.opcode)) \in ByteRegister /\ "A" \in ByteRegister
    BY <1>3, <1>4, Fields, RIs, NamesAre
  <2> QED BY <1>4, <2>1, FieldsAre
<1>6. Arith8(cpu, cur.p, cur.opcode, cur.ins) = SetVF(cpu, "A", u)
  BY <1>3 DEF Arith8
<1>7. cpu' = Arith8(cpu, cur.p, cur.opcode, cur.ins)
  BY <1>1 DEF Do, Finish
<1>8. cpu'.F = u.f
  <2> HIDE DEF u
  <2> QED BY <1>4, <1>6, <1>7, SetVFFlags
<1>9. cur.ins.op \in {"ADD", "ADC", "SUB", "SBC", "CP"}
  <2>1. cur.ins.op \in SumOps /\ cur.ins.op \in ALU
    BY <1>1, AluIs DEF Sums, SumOps, Executing
  <2>2. cur.ins.op \notin INC_DEC \cup ACCUMULATOR \cup ARITH16
    BY <2>1, ALUOnly
  <2> QED BY <2>1, <2>2 DEF SumOps, INC_DEC, ACCUMULATOR, ARITH16
<1>10. cur.ins.op \notin {"INC", "DEC"}
  BY <1>9
<1> HIDE DEF a, x, f
<1>11. CASE cur.ins.op = "ADD"
  <2>1. Sum = [a |-> a, x |-> x, c |-> 0, s |-> 1, size |-> 256]
    BY <1>11, AccumulateSums DEF a, x
  <2>2. u.f \ YX = SumFlags(a, x, 0, 1, 256)
    BY <1>5, <1>11, AccumulateFlags
  <2> QED BY <1>8, <1>10, <2>1, <2>2, FlagStepOf
<1>12. CASE cur.ins.op = "ADC"
  <2>1. Sum = [a |-> a, x |-> x, c |-> CarryOf(f), s |-> 1, size |-> 256]
    BY <1>12, AccumulateSums DEF a, x, f
  <2>2. u.f \ YX = SumFlags(a, x, CarryOf(f), 1, 256)
    BY <1>5, <1>12, AccumulateFlags
  <2> QED BY <1>8, <1>10, <2>1, <2>2, FlagStepOf
<1>13. CASE cur.ins.op \in {"SUB", "CP"}
  <2>1. Sum = [a |-> a, x |-> x, c |-> 0, s |-> -1, size |-> 256]
    BY <1>13, AccumulateSums DEF a, x
  <2>2. u.f \ YX = SumFlags(a, x, 0, -1, 256)
    BY <1>5, <1>13, AccumulateFlags
  <2> QED BY <1>8, <1>10, <2>1, <2>2, FlagStepOf
<1>14. CASE cur.ins.op = "SBC"
  <2>1. Sum = [a |-> a, x |-> x, c |-> CarryOf(f), s |-> -1, size |-> 256]
    BY <1>14, AccumulateSums DEF a, x, f
  <2>2. u.f \ YX = SumFlags(a, x, CarryOf(f), -1, 256)
    BY <1>5, <1>14, AccumulateFlags
  <2> QED BY <1>8, <1>10, <2>1, <2>2, FlagStepOf
<1> QED BY <1>9, <1>11, <1>12, <1>13, <1>14

LEMMA IncrementFlags ==
  ASSUME Sound, IncrementGroup, Sums
  PROVE  FlagStep
<1> DEFINE name == R(cur.p, Y(cur.opcode))
           x    == cpu.reg[name]
           f    == cpu.F
           step == IF cur.ins.op = "INC" THEN INC(x, f) ELSE DEC(x, f)
           s    == IF cur.ins.op = "INC" THEN 1 ELSE -1
<1>1. Executing(INC_DEC) /\ Do(IncDec(cpu, cur.p, cur.opcode, cur.ins))
  BY DEF IncrementGroup
<1>2. (cur.ins.form = "R" /\ Y(cur.opcode) # 6) \/ cur.ins.form = "INDIRECT_HL"
  BY <1>1, Ready, IncDecForms
<1>3. cur.ins.form = "R" /\ Y(cur.opcode) # 6
  BY <1>2 DEF Sums
<1>4. cpu \in Cpu /\ cur.p \in Index /\ cur.opcode \in Byte
  BY <1>1, Ready
<1>5. x \in Byte
  <2>1. name \in ByteRegister
    BY <1>3, <1>4, Fields, RIs
  <2> QED BY <1>4, <2>1, FieldsAre
<1>6. IncDec(cpu, cur.p, cur.opcode, cur.ins) = SetVF(cpu, name, step)
  BY <1>3 DEF IncDec
<1>7. cpu' = IncDec(cpu, cur.p, cur.opcode, cur.ins)
  BY <1>1 DEF Do, Finish
<1>8. cpu'.F = step.f
  <2> HIDE DEF step, name
  <2> QED BY <1>4, <1>6, <1>7, SetVFFlags
<1>9. cur.ins.op \in {"INC", "DEC"}
  BY <1>1 DEF Executing, INC_DEC
<1>10. Sum = [a |-> x, x |-> 1, c |-> 0, s |-> s, size |-> 256]
  BY <1>9 DEF Sum
<1>11. step.f \ YX = (SumFlags(x, 1, 0, s, 256) \ {"C"}) \cup (f \cap {"C"})
  <2> HIDE DEF x, f
  <2>1. x \in Int /\ 0 <= x /\ x < 256
    BY <1>5, ByteInt
  <2>2. INC(x, f).f \ YX = (SumFlags(x, 1, 0, 1, 256) \ {"C"}) \cup (f \cap {"C"})
    BY <2>1, INCFlags
  <2>3. DEC(x, f).f \ YX = (SumFlags(x, 1, 0, -1, 256) \ {"C"}) \cup (f \cap {"C"})
    BY <2>1, DECFlags
  <2> QED BY <1>9, <2>2, <2>3
<1> HIDE DEF x, s, step
<1>12. Sum.a = x /\ Sum.x = 1 /\ Sum.c = 0 /\ Sum.s = s /\ Sum.size = 256
  BY <1>10
<1> QED BY <1>8, <1>9, <1>11, <1>12 DEF FlagStep

LEMMA AccumulatorFlags ==
  ASSUME Sound, AccumulatorGroup, Sums
  PROVE  FlagStep
<1> DEFINE a == cpu.reg["A"]
<1>1. Executing(ACCUMULATOR) /\ Do(OnAccumulator(cpu, cur.p, cur.opcode, cur.ins))
  BY DEF AccumulatorGroup
<1>2. cpu \in Cpu
  BY <1>1, Ready
<1>3. a \in Byte
  BY <1>2, FieldsAre, NamesAre
<1>4. cur.ins.op = "NEG"
  <2>1. cur.ins.op \in SumOps /\ cur.ins.op \in ACCUMULATOR
    BY <1>1 DEF Sums, SumOps, Executing
  <2> QED BY <2>1 DEF SumOps, ACCUMULATOR
<1>5. OnAccumulator(cpu, cur.p, cur.opcode, cur.ins) = SetVF(cpu, "A", NEG(a))
  BY <1>4 DEF OnAccumulator, Accumulator
<1>6. cpu' = OnAccumulator(cpu, cur.p, cur.opcode, cur.ins)
  BY <1>1 DEF Do, Finish
<1>7. Sum = [a |-> 0, x |-> a, c |-> 0, s |-> -1, size |-> 256]
  BY <1>4 DEF Sum
<1> HIDE DEF a
<1>8. cpu'.F = NEG(a).f
  BY <1>2, <1>5, <1>6, SetVFFlags
<1>9. NEG(a).f \ YX = SumFlags(0, a, 0, -1, 256)
  <2>1. a \in Int /\ 0 <= a /\ a < 256
    BY <1>3, ByteInt
  <2> QED BY <2>1, NegFlags
<1>10. cur.ins.op \notin {"INC", "DEC"}
  BY <1>4
<1> QED BY <1>7, <1>8, <1>9, <1>10, FlagStepOf

LEMMA WordFlags ==
  ASSUME Sound, WordGroup, Sums
  PROVE  FlagStep
<1> DEFINE a == GetW(cpu, "HL")
           x == GetW(cpu, RR("HL", P(cur.opcode)))
           f == cpu.F
<1>1. Executing(ARITH16) /\ Do(Arith16(cpu, cur.p, cur.opcode, cur.ins))
  BY DEF WordGroup
<1>2. cpu \in Cpu /\ cur.opcode \in Byte
  BY <1>1, Ready
<1>3. a \in Word /\ x \in Word /\ f \in SUBSET Flag
  <2>1. "HL" \in Index /\ P(cur.opcode) \in 0 .. 3
    BY <1>2, Fields DEF Index
  <2>2. "HL" \in WordRegister /\ RR("HL", P(cur.opcode)) \in WordRegister
    BY <2>1, WordTables, IndexIsWord
  <2> QED BY <1>2, <2>2, GetWOK, FieldsAre
<1>4. cur.ins.op \in {"ADC_HL_RR", "SBC_HL_RR"}
  <2>1. cur.ins.op \in SumOps /\ cur.ins.op \in ARITH16
    BY <1>1 DEF Sums, SumOps, Executing
  <2> QED BY <2>1 DEF SumOps, ARITH16
<1>5. cur.p = "HL"
  <2>1. cur.ins.op \in EDSUMS /\ phase = "execute"
    BY <1>1, <1>4 DEF EDSUMS, Executing
  <2> QED BY <2>1 DEF Sound, Decoding
<1>6. cpu' = Arith16(cpu, cur.p, cur.opcode, cur.ins)
  BY <1>1 DEF Do, Finish
<1>7. ASSUME NEW u \in Result16 PROVE Cycles([SetW(cpu, "HL", u.v) EXCEPT !.F = u.f], 7).F = u.f
  <2>1. SetW(cpu, "HL", u.v) \in Cpu /\ u.f \in SUBSET Flag
    <3>1. u.v \in Int /\ "HL" \in WordRegister
      BY WordIs, IndexIsWord DEF Result16
    <3> QED BY <1>2, <3>1, SetWOK DEF Result16
  <2> DEFINE t == [SetW(cpu, "HL", u.v) EXCEPT !.F = u.f]
  <2>2. t \in Cpu /\ t.F = u.f
    <3>1. t \in Cpu
      BY <2>1, SetFlagsOK
    <3>2. t.F = u.f
      BY <2>1 DEF Cpu
    <3> QED BY <3>1, <3>2
  <2> HIDE DEF t
  <2>3. Cycles(t, 7).F = t.F
    BY <2>2 DEF Cycles, Cpu
  <2> QED BY <2>2, <2>3 DEF t
<1>8. ADC_HL(a, x, f) \in Result16 /\ SBC_HL(a, x, f) \in Result16
  BY <1>3, WordSumsOK
<1>9. cur.ins.op \notin {"INC", "DEC"}
  BY <1>4
<1>10. a \in Int /\ 0 <= a /\ a < 65536 /\ x \in Int /\ 0 <= x /\ x < 65536
  BY <1>3, WordInt
<1>11. CASE cur.ins.op = "ADC_HL_RR"
  <2>1. Sum = [a |-> a, x |-> x, c |-> CarryOf(f), s |-> 1, size |-> 65536]
    BY <1>11 DEF Sum
  <2>2. cpu' = Cycles([SetW(cpu, "HL", ADC_HL(a, x, f).v) EXCEPT !.F = ADC_HL(a, x, f).f], 7)
    BY <1>5, <1>6, <1>11 DEF Arith16
  <2> HIDE DEF a, x, f
  <2>3. cpu'.F = ADC_HL(a, x, f).f
    BY <1>7, <1>8, <2>2
  <2>4. ADC_HL(a, x, f).f \ YX = SumFlags(a, x, CarryOf(f), 1, 65536)
    BY <1>10, ADCWordFlags
  <2> QED BY <1>9, <2>1, <2>3, <2>4, FlagStepOf
<1>12. CASE cur.ins.op = "SBC_HL_RR"
  <2>1. Sum = [a |-> a, x |-> x, c |-> CarryOf(f), s |-> -1, size |-> 65536]
    BY <1>12 DEF Sum
  <2>2. cpu' = Cycles([SetW(cpu, "HL", SBC_HL(a, x, f).v) EXCEPT !.F = SBC_HL(a, x, f).f], 7)
    BY <1>5, <1>6, <1>12 DEF Arith16
  <2> HIDE DEF a, x, f
  <2>3. cpu'.F = SBC_HL(a, x, f).f
    BY <1>7, <1>8, <2>2
  <2>4. SBC_HL(a, x, f).f \ YX = SumFlags(a, x, CarryOf(f), -1, 65536)
    BY <1>10, SBCWordFlags
  <2> QED BY <1>9, <2>1, <2>3, <2>4, FlagStepOf
<1> QED BY <1>4, <1>11, <1>12

\* No other step executes one of these operations.
LEMMA SumGroups ==
  ASSUME Sums, Next
  PROVE  ArithmeticGroup \/ IncrementGroup \/ AccumulatorGroup \/ WordGroup
<1>1. phase = "execute" /\ cur.ins.op \in SumOps
  BY DEF Sums, SumOps
<1>2. ~Host
  BY <1>1 DEF Host, Z80Emulate, Z80Interrupt, EnterSubroutine, MayCall, Z80NonMaskableInterrupt,
              StepSubroutine, LeaveSubroutine, AbortSubroutine
<1>3. ~FetchOpcode /\ ~CopyTurn /\ ~SearchTurn
  BY <1>1 DEF FetchOpcode, CopyTurn, SearchTurn
<1>4. cur.ins.op \notin PREFIXES \cup REPEATED \cup PORTS \cup {"HALT"} \cup INTERRUPTS
  BY <1>1 DEF SumOps, PREFIXES, REPEATED, PORTS, INTERRUPTS
<1>5. cur.ins.op \notin LOAD8 \cup LOAD16 \cup EXCHANGE \cup BLOCK_ONCE
  BY <1>1 DEF SumOps, LOAD8, LOAD16, EXCHANGE, BLOCK_ONCE
<1>6. cur.ins.op \notin SHIFTS \cup BITS \cup {"RLD_RRD"} \cup JUMP \cup CALL_RETURN \cup {"IM_N"} \cup NOTHING
  BY <1>1, ShiftsAre DEF SumOps, ROTATE, BITS, JUMP, CALL_RETURN, NOTHING
<1>7. ~IndexPrefix /\ ~EdPrefix /\ ~CbPrefix /\ ~IndexedCbPrefix
  BY <1>4 DEF IndexPrefix, EdPrefix, CbPrefix, IndexedCbPrefix, Executing, PREFIXES
<1>8. ~BeginBlock /\ ~InputOutput /\ ~Halt /\ ~InterruptGroup
  BY <1>4 DEF BeginBlock, InputOutput, Halt, InterruptGroup, Executing, REPEATED
<1>9. ~LoadGroup /\ ~LoadWordGroup /\ ~ExchangeGroup /\ ~BlockGroup
  BY <1>5 DEF LoadGroup, LoadWordGroup, ExchangeGroup, BlockGroup, Executing
<1>10. ~ShiftGroup /\ ~BitGroup /\ ~DigitGroup /\ ~Jumps /\ ~CallsAndReturns /\ ~ModeGroup /\ ~Nothing
  BY <1>6 DEF ShiftGroup, BitGroup, DigitGroup, Jumps, CallsAndReturns, ModeGroup, Nothing, Executing
<1> QED BY <1>2, <1>3, <1>7, <1>8, <1>9, <1>10 DEF Next, Emulation

\* The flags S, Z, H, P/V, N and C after an addition, a subtraction or a comparison, of bytes
\* or of words, are those of the sum or difference of the numbers, for all operands and
\* carries: the emulator reads them off the bits of a ^ x ^ z.
THEOREM FlagsAreTrue == Spec => FlagsAreExact
<1>1. ASSUME Sound, Next PROVE FlagStep
  <2>1. CASE ~Sums
    BY <2>1 DEF FlagStep
  <2>2. CASE Sums
    BY <1>1, <2>2, SumGroups, ArithmeticFlags, IncrementFlags, AccumulatorFlags, WordFlags
  <2> QED BY <2>1, <2>2
<1>2. Sound /\ [Next]_vars => [FlagStep]_vars
  BY <1>1
<1>3. Sound /\ [Next]_vars =>
        [Sums => LET kept == IF cur.ins.op \in {"INC", "DEC"} THEN {"C"} ELSE {}
                 IN  cpu'.F \ YX = (SumFlags(Sum.a, Sum.x, Sum.c, Sum.s, Sum.size) \ kept)
                                     \cup (cpu.F \cap kept)]_vars
  BY <1>2 DEF FlagStep
<1> QED BY <1>3, EmulatorInvariance, PTL DEF Spec, FlagsAreExact

-----------------------------------------------------------------------------
(* DAA.  A sum of decimal numbers is 16 h + l with h and l the sums of     *)
(* their digits, t tens and the digit m once a carry is taken out of l.    *)

LEMMA TensAndDigit ==
  ASSUME NEW t \in Int, -10 <= t, t <= 19, NEW m \in Int, 0 <= m, m <= 9,
         NEW number, number = 10 * t + m,
         NEW w, w = 16 * t + m + (IF t > 9 THEN 96 ELSE IF t < 0 THEN -96 ELSE 0)
  PROVE  /\ w % 256 = 16 * ((number % 100) \div 10) + (number % 10)
         /\ number \notin 0 .. 99 <=> t > 9 \/ t < 0
<1>1. CASE t > 9
  <2>1. number % 100 = 10 * (t - 10) + m /\ w % 256 = 16 * (t - 10) + m
    BY <1>1
  <2>2. (10 * (t - 10) + m) \div 10 = t - 10 /\ number % 10 = m
    OBVIOUS
  <2>3. number > 99
    BY <1>1
  <2> QED BY <1>1, <2>1, <2>2, <2>3
<1>2. CASE t < 0
  <2>1. number % 100 = 10 * (t + 10) + m /\ w % 256 = 16 * (t + 10) + m
    BY <1>2
  <2>2. (10 * (t + 10) + m) \div 10 = t + 10 /\ number % 10 = m
    OBVIOUS
  <2>3. number < 0
    BY <1>2
  <2> QED BY <1>2, <2>1, <2>2, <2>3
<1>3. CASE 0 <= t /\ t <= 9
  <2>1. number % 100 = 10 * t + m /\ w % 256 = 16 * t + m
    BY <1>3
  <2>2. (10 * t + m) \div 10 = t /\ number % 10 = m
    OBVIOUS
  <2>3. 0 <= number /\ number <= 99
    BY <1>3
  <2> QED BY <1>3, <2>1, <2>2, <2>3
<1> QED BY <1>1, <1>2, <1>3

\* The number DAA is to make of the byte a: half is 16 when the sum or difference of the
\* low digits has left its range, carry 256 when that of the bytes has; s is 1 for a sum
\* and -1 for a difference.
LowOf10(a, half, s)         == (a % 16) + s * half
HighOf10(a, half, carry, s) == (a + s * carry - LowOf10(a, half, s)) \div 16
Number10(a, half, carry, s) == LowOf10(a, half, s) + 10 * HighOf10(a, half, carry, s)

\* What DAA adds or subtracts.
Correction(a, half, carry) ==
  (IF a > 153 \/ carry = 256 THEN 96 ELSE 0) + (IF a % 16 > 9 \/ half = 16 THEN 6 ELSE 0)

\* The byte a is the sum or difference of two decimal numbers, l and h those of their
\* digits (l with the carry before).
DigitSums(l, h, s, half, carry, a) ==
  /\ l \in Int /\ h \in Int /\ s \in {1, -1}
  /\ half = (IF l < 0 \/ l > 15 THEN 16 ELSE 0)
  /\ carry = (IF 16 * h + l < 0 \/ 16 * h + l > 255 THEN 256 ELSE 0)
  /\ a = (16 * h + l) % 256
  /\ s = 1 => 0 <= l /\ l <= 19 /\ 0 <= h /\ h <= 18
  /\ s = -1 => -10 <= l /\ l <= 9 /\ -9 <= h /\ h <= 9

LEMMA DigitsRead ==
  ASSUME NEW l, NEW h, NEW s, NEW half, NEW carry, NEW a, DigitSums(l, h, s, half, carry, a)
  PROVE  /\ LowOf10(a, half, s) = l /\ HighOf10(a, half, carry, s) = h
         /\ a % 16 > 9 \/ half = 16 <=> l > 9 \/ l < 0
         /\ a > 153 \/ carry = 256 <=> 16 * h + l > 153 \/ 16 * h + l < 0
         /\ a + s * carry = 16 * h + l
<1>0. /\ l \in Int /\ h \in Int /\ s \in {1, -1}
      /\ half = (IF l < 0 \/ l > 15 THEN 16 ELSE 0)
      /\ carry = (IF 16 * h + l < 0 \/ 16 * h + l > 255 THEN 256 ELSE 0)
      /\ a = (16 * h + l) % 256
      /\ s = 1 => 0 <= l /\ l <= 19 /\ 0 <= h /\ h <= 18
      /\ s = -1 => -10 <= l /\ l <= 9 /\ -9 <= h /\ h <= 9
  BY DEF DigitSums
<1>1. a % 16 = l % 16
  BY <1>0
<1>2. CASE s = 1
  <2>1. l % 16 = IF half = 16 THEN l - 16 ELSE l
    BY <1>0, <1>2
  <2>2. a = IF carry = 256 THEN 16 * h + l - 256 ELSE 16 * h + l
    BY <1>0, <1>2
  <2>3. LowOf10(a, half, s) = l
    BY <1>0, <1>1, <1>2, <2>1 DEF LowOf10
  <2>4. HighOf10(a, half, carry, s) = (16 * h + l - l) \div 16
    BY <1>0, <1>2, <2>2, <2>3 DEF HighOf10
  <2>5. (16 * h + l - l) \div 16 = h
    BY <1>0
  <2>6. a % 16 > 9 \/ half = 16 <=> l > 9 \/ l < 0
    BY <1>0, <1>1, <1>2, <2>1
  <2>7. a > 153 \/ carry = 256 <=> 16 * h + l > 153 \/ 16 * h + l < 0
    BY <1>0, <1>2, <2>2
  <2> QED BY <1>0, <1>2, <2>2, <2>3, <2>4, <2>5, <2>6, <2>7
<1>3. CASE s = -1
  <2>1. l % 16 = IF half = 16 THEN l + 16 ELSE l
    BY <1>0, <1>3
  <2>2. a = IF carry = 256 THEN 16 * h + l + 256 ELSE 16 * h + l
    BY <1>0, <1>3
  <2>3. LowOf10(a, half, s) = l
    BY <1>0, <1>1, <1>3, <2>1 DEF LowOf10
  <2>4. HighOf10(a, half, carry, s) = (16 * h + l - l) \div 16
    BY <1>0, <1>3, <2>2, <2>3 DEF HighOf10
  <2>5. (16 * h + l - l) \div 16 = h
    BY <1>0
  <2>6. a % 16 > 9 \/ half = 16 <=> l > 9 \/ l < 0
    BY <1>0, <1>1, <1>3, <2>1
  <2>7. a > 153 \/ carry = 256 <=> 16 * h + l > 153 \/ 16 * h + l < 0
    BY <1>0, <1>3, <2>2
  <2> QED BY <1>0, <1>3, <2>2, <2>3, <2>4, <2>5, <2>6, <2>7
<1> QED BY <1>0, <1>2, <1>3

LEMMA CorrectedIs ==
  ASSUME NEW l, NEW h, NEW s, NEW half, NEW carry, NEW a, DigitSums(l, h, s, half, carry, a),
         NEW number, number = Number10(a, half, carry, s)
  PROVE  /\ (a + s * Correction(a, half, carry)) % 256 = 16 * ((number % 100) \div 10) + (number % 10)
         /\ a > 153 \/ carry = 256 <=> number \notin 0 .. 99
<1> DEFINE low  == IF l > 9 \/ l < 0 THEN 6 ELSE 0
           high == IF 16 * h + l > 153 \/ 16 * h + l < 0 THEN 96 ELSE 0
           t    == IF l > 9 THEN h + 1 ELSE IF l < 0 THEN h - 1 ELSE h
           m    == IF l > 9 THEN l - 10 ELSE IF l < 0 THEN l + 10 ELSE l
           w    == 16 * t + m + (IF t > 9 THEN 96 ELSE IF t < 0 THEN -96 ELSE 0)
<1>0. /\ l \in Int /\ h \in Int /\ s \in {1, -1} /\ carry \in {0, 256}
      /\ s = 1 => 0 <= l /\ l <= 19 /\ 0 <= h /\ h <= 18
      /\ s = -1 => -10 <= l /\ l <= 9 /\ -9 <= h /\ h <= 9
      /\ carry = (IF 16 * h + l < 0 \/ 16 * h + l > 255 THEN 256 ELSE 0)
      /\ a \in Int
  BY DEF DigitSums
<1>1. Correction(a, half, carry) = high + low
  BY DigitsRead DEF Correction
<1>2. number = l + 10 * h
  BY DigitsRead DEF Number10
<1>3. a + s * carry = 16 * h + l
  BY DigitsRead
<1>4. a > 153 \/ carry = 256 <=> 16 * h + l > 153 \/ 16 * h + l < 0
  BY DigitsRead
<1>5. t \in Int /\ m \in Int /\ 0 <= m /\ m <= 9 /\ -10 <= t /\ t <= 19
  BY <1>0
<1>6. number = 10 * t + m
  BY <1>0, <1>2
<1>7. 16 * h + l > 153 \/ 16 * h + l < 0 <=> t > 9 \/ t < 0
  BY <1>0
<1>8. 16 * h + l + s * (high + low) = w
  <2>1. CASE s = 1
    BY <1>0, <2>1
  <2>2. CASE s = -1
    BY <1>0, <2>2
  <2> QED BY <1>0, <2>1, <2>2
<1> DEFINE x == a + s * (high + low)
<1>9. x % 256 = w % 256
  <2>1. x \in Int /\ (x = w \/ x = w - 256 \/ x = w + 256)
    <3>1. CASE s = 1
      BY <1>0, <1>3, <1>8, <3>1
    <3>2. CASE s = -1
      BY <1>0, <1>3, <1>8, <3>2
    <3> QED BY <1>0, <3>1, <3>2
  <2>2. w \in Int
    BY <1>5
  <2> HIDE DEF x, w
  <2> QED BY <2>1, <2>2
<1> HIDE DEF high, low, t, m
<1>10. /\ w % 256 = 16 * ((number % 100) \div 10) + (number % 10)
       /\ number \notin 0 .. 99 <=> t > 9 \/ t < 0
  BY <1>5, <1>6, TensAndDigit
<1> QED BY <1>1, <1>4, <1>7, <1>9, <1>10

SumOf(x, y, c, s, a, f) ==
  /\ a = (x + s * (y + c)) % 256
  /\ f \cap {"H", "C", "N"} = SumFlags(x, y, c, s, 256) \cap {"H", "C", "N"}

\* What the flags of a decimal sum say of its digits.
LEMMA SumDigits ==
  ASSUME NEW x \in Decimal, NEW y \in Decimal, NEW c \in {0, 1}, NEW s \in {1, -1}, NEW f,
         NEW a, SumOf(x, y, c, s, a, f)
  PROVE  /\ DigitSums((x % 16) + s * ((y % 16) + c), (x \div 16) + s * (y \div 16), s,
                      IF "H" \in f THEN 16 ELSE 0, IF "C" \in f THEN 256 ELSE 0, a)
         /\ "N" \in f <=> s = -1
<1> DEFINE l == (x % 16) + s * ((y % 16) + c)
           h == (x \div 16) + s * (y \div 16)
<1>1. /\ x \in Int /\ 0 <= x % 16 /\ x % 16 <= 9 /\ 0 <= x \div 16 /\ x \div 16 <= 9
      /\ y \in Int /\ 0 <= y % 16 /\ y % 16 <= 9 /\ 0 <= y \div 16 /\ y \div 16 <= 9
      /\ x = 16 * (x \div 16) + (x % 16) /\ y = 16 * (y \div 16) + (y % 16)
      /\ x % 16 \in Int /\ x \div 16 \in Int /\ y % 16 \in Int /\ y \div 16 \in Int
  <2>1. x \in Nat /\ y \in Nat /\ x % 16 <= 9 /\ x \div 16 <= 9 /\ y % 16 <= 9 /\ y \div 16 <= 9
    BY ByteIs DEF Decimal
  <2> QED BY <2>1
<1>2. l \in Int /\ h \in Int /\ x + s * (y + c) = 16 * h + l
  <2>1. CASE s = 1
    BY <1>1, <2>1
  <2>2. CASE s = -1
    BY <1>1, <2>2
  <2> QED BY <2>1, <2>2
<1>3. /\ s = 1 => 0 <= l /\ l <= 19 /\ 0 <= h /\ h <= 18
      /\ s = -1 => -10 <= l /\ l <= 9 /\ -9 <= h /\ h <= 9
  <2>1. CASE s = 1
    BY <1>1, <2>1
  <2>2. CASE s = -1
    BY <1>1, <2>2
  <2> QED BY <2>1, <2>2
<1>4. 256 \div 16 = 16
  OBVIOUS
<1>0. f \cap {"H", "C", "N"} = SumFlags(x, y, c, s, 256) \cap {"H", "C", "N"}
  BY DEF SumOf
<1>5. /\ "H" \in SumFlags(x, y, c, s, 256) <=> (x % (256 \div 16)) + s * ((y % (256 \div 16)) + c) \notin 0 .. ((256 \div 16) - 1)
      /\ "C" \in SumFlags(x, y, c, s, 256) <=> x + s * (y + c) \notin 0 .. 256 - 1
      /\ "N" \in SumFlags(x, y, c, s, 256) <=> s = -1
  BY DEF SumFlags
<1>6. "H" \in f <=> l < 0 \/ l > 15
  <2>1. "H" \in f <=> l \notin 0 .. (16 - 1)
    BY <1>0, <1>4, <1>5
  <2> HIDE DEF l
  <2> QED BY <1>2, <2>1
<1>7. "C" \in f <=> 16 * h + l < 0 \/ 16 * h + l > 255
  <2>1. "C" \in f <=> 16 * h + l \notin 0 .. 256 - 1
    BY <1>0, <1>2, <1>5
  <2> HIDE DEF l, h
  <2> QED BY <1>2, <2>1
<1>8. "N" \in f <=> s = -1
  BY <1>0, <1>5
<1>9. a = (16 * h + l) % 256
  BY <1>2 DEF SumOf
<1> HIDE DEF l, h
<1>10. DigitSums(l, h, s, IF "H" \in f THEN 16 ELSE 0, IF "C" \in f THEN 256 ELSE 0, a)
  BY <1>2, <1>3, <1>6, <1>7, <1>9 DEF DigitSums
<1> QED BY <1>8, <1>10 DEF l, h

LEMMA DaaIs ==
  ASSUME NEW a \in Byte, NEW f \in SUBSET Flag, NEW s \in {1, -1}, "N" \in f <=> s = -1,
         NEW half, half = (IF "H" \in f THEN 16 ELSE 0),
         NEW carry, carry = (IF "C" \in f THEN 256 ELSE 0)
  PROVE  /\ DAA(a, f).v = (a + s * Correction(a, half, carry)) % 256
         /\ "C" \in DAA(a, f).f <=> a > 153 \/ carry = 256
<1> DEFINE high == a > 153 \/ "C" \in f
           d    == (IF high THEN 96 ELSE 0) + (IF a % 16 > 9 \/ "H" \in f THEN 6 ELSE 0)
           w    == IF "N" \in f THEN a - d ELSE a + d
           v    == w % 256
           g    == On(CarryInto(4, a, 0, v), "H")
           k    == IF high THEN {"C"} ELSE {}
<1>1. DAA(a, f) = [v |-> v, f |-> SZYXP_FLAGS_TABLE[v] \cup g \cup (f \cap {"N"}) \cup k]
  BY DEF DAA
<1>2. d = Correction(a, half, carry) /\ d \in Int
  BY DEF Correction
<1>3. a \in Int
  BY ByteIs
<1>4. w = a + s * d /\ w \in Int
  <2> HIDE DEF d
  <2>1. CASE s = 1
    BY <1>2, <1>3, <2>1
  <2>2. CASE s = -1
    BY <1>2, <1>3, <2>2
  <2> QED BY <2>1, <2>2
<1>5. "C" \in k <=> a > 153 \/ carry = 256
  OBVIOUS
<1>6. "C" \notin g
  BY DEF On
<1> HIDE DEF d, w, g, k
<1>7. v \in Byte
  BY <1>4, InByte
<1> HIDE DEF v
<1>8. "C" \notin SZYXP_FLAGS_TABLE[v]
  <2>1. "C" \notin SZYX_FLAGS_TABLE[v]
    BY <1>7, SignAndZero
  <2> QED BY <1>7, <2>1 DEF SZYXP_FLAGS_TABLE
<1>9. "C" \in DAA(a, f).f <=> a > 153 \/ carry = 256
  BY <1>1, <1>5, <1>6, <1>8
<1>10. DAA(a, f).v = v
  BY <1>1
<1> QED BY <1>2, <1>4, <1>9, <1>10 DEF v

\* No other step executes DAA.
LEMMA DaaSteps == ASSUME Executing({"DAA"}), Next PROVE AccumulatorGroup
<1>1. phase = "execute" /\ cur.ins.op = "DAA"
  BY DEF Executing
<1>2. ~Host
  BY <1>1 DEF Host, Z80Emulate, Z80Interrupt, EnterSubroutine, MayCall, Z80NonMaskableInterrupt,
              StepSubroutine, LeaveSubroutine, AbortSubroutine
<1>3. ~FetchOpcode /\ ~CopyTurn /\ ~SearchTurn
  BY <1>1 DEF FetchOpcode, CopyTurn, SearchTurn
<1>4. cur.ins.op \notin PREFIXES \cup REPEATED \cup PORTS \cup {"HALT"} \cup INTERRUPTS
  BY <1>1 DEF PREFIXES, REPEATED, PORTS, INTERRUPTS
<1>5. cur.ins.op \notin LOAD8 \cup LOAD16 \cup EXCHANGE \cup BLOCK_ONCE \cup ARITH8 \cup INC_DEC \cup ARITH16
  BY <1>1, AluIs DEF LOAD8, LOAD16, EXCHANGE, BLOCK_ONCE, ALU, INC_DEC, ARITH16
<1>6. cur.ins.op \notin SHIFTS \cup BITS \cup {"RLD_RRD"} \cup JUMP \cup CALL_RETURN \cup {"IM_N"} \cup NOTHING
  BY <1>1, ShiftsAre DEF ROTATE, BITS, JUMP, CALL_RETURN, NOTHING
<1>7. ~IndexPrefix /\ ~EdPrefix /\ ~CbPrefix /\ ~IndexedCbPrefix
  BY <1>4 DEF IndexPrefix, EdPrefix, CbPrefix, IndexedCbPrefix, Executing, PREFIXES
<1>8. ~BeginBlock /\ ~InputOutput /\ ~Halt /\ ~InterruptGroup
  BY <1>4 DEF BeginBlock, InputOutput, Halt, InterruptGroup, Executing, REPEATED
<1>9. ~LoadGroup /\ ~LoadWordGroup /\ ~ExchangeGroup /\ ~BlockGroup
  BY <1>5 DEF LoadGroup, LoadWordGroup, ExchangeGroup, BlockGroup, Executing
<1>10. ~ArithmeticGroup /\ ~IncrementGroup /\ ~WordGroup
  BY <1>5 DEF ArithmeticGroup, IncrementGroup, WordGroup, Executing
<1>11. ~ShiftGroup /\ ~BitGroup /\ ~DigitGroup /\ ~Jumps /\ ~CallsAndReturns /\ ~ModeGroup /\ ~Nothing
  BY <1>6 DEF ShiftGroup, BitGroup, DigitGroup, Jumps, CallsAndReturns, ModeGroup, Nothing, Executing
<1> QED BY <1>2, <1>3, <1>7, <1>8, <1>9, <1>10, <1>11 DEF Next, Emulation

\* The decimal result is this number.
AdjustedTo(number) ==
  /\ cpu'.reg["A"] = 16 * ((number % 100) \div 10) + (number % 10)
  /\ ("C" \in cpu'.F) <=> number \notin 0 .. 99

Adjusted ==
  LET s      == IF "N" \in cpu.F THEN -1 ELSE 1
      a      == cpu.reg["A"]
      low    == (a % 16) + s * (IF "H" \in cpu.F THEN 16 ELSE 0)
      high   == (a + s * (IF "C" \in cpu.F THEN 256 ELSE 0) - low) \div 16
      number == low + 10 * high
  IN  /\ cpu'.reg["A"] = 16 * ((number % 100) \div 10) + (number % 10)
      /\ ("C" \in cpu'.F) <=> number \notin 0 .. 99

AfterSum == Executing({"DAA"}) /\ last \in {"ADD", "ADC", "SUB", "SBC"}

LEMMA DaaStep == ASSUME Sound, DecimalOperands, AfterSum, Next PROVE Adjusted
<1> DEFINE a     == cpu.reg["A"]
           f     == cpu.F
           half  == IF "H" \in f THEN 16 ELSE 0
           carry == IF "C" \in f THEN 256 ELSE 0
           sign  == IF "N" \in f THEN -1 ELSE 1
<1>1. cpu \in Cpu /\ a \in Byte /\ f \in SUBSET Flag
  <2>1. cpu \in Cpu
    BY DEF Sound, Shapes
  <2> QED BY <2>1, FieldsAre, NamesAre
<1>2. cpu'.reg["A"] = DAA(a, f).v /\ cpu'.F = DAA(a, f).f
  <2>1. AccumulatorGroup /\ cur.ins.op = "DAA"
    BY DaaSteps DEF AfterSum, Executing
  <2>2. cpu' = OnAccumulator(cpu, cur.p, cur.opcode, cur.ins)
    BY <2>1 DEF AccumulatorGroup, Do, Finish
  <2>3. cpu' = SetVF(cpu, "A", DAA(a, f))
    BY <2>1, <2>2 DEF OnAccumulator, Accumulator
  <2>4. "A" \in ByteRegister
    BY NamesAre
  <2> QED BY <1>1, <2>3, <2>4 DEF SetVF, Cpu
<1>3. PICK x \in Decimal, y \in Decimal, c \in {0, 1}, s \in {1, -1} : SumOf(x, y, c, s, a, f)
  BY DEF DecimalOperands, AfterSum, SumOf
<1>4. Adjusted <=> AdjustedTo(Number10(a, half, carry, sign))
  BY DEF Adjusted, AdjustedTo, Number10, HighOf10, LowOf10
<1> HIDE DEF a, f
<1> DEFINE l == (x % 16) + s * ((y % 16) + c)
           h == (x \div 16) + s * (y \div 16)
<1>5. DigitSums(l, h, s, half, carry, a) /\ ("N" \in f <=> s = -1)
  BY <1>3, SumDigits
<1>6. s = sign
  BY <1>5
<1>7. half = (IF "H" \in f THEN 16 ELSE 0) /\ carry = (IF "C" \in f THEN 256 ELSE 0)
  OBVIOUS
<1> HIDE DEF l, h, half, carry, sign
<1>8. /\ DAA(a, f).v = (a + s * Correction(a, half, carry)) % 256
      /\ "C" \in DAA(a, f).f <=> a > 153 \/ carry = 256
  BY <1>1, <1>5, <1>7, DaaIs
<1> DEFINE number == Number10(a, half, carry, s)
<1> HIDE DEF number
<1>9. /\ (a + s * Correction(a, half, carry)) % 256 = 16 * ((number % 100) \div 10) + (number % 10)
      /\ a > 153 \/ carry = 256 <=> number \notin 0 .. 99
  BY <1>5, CorrectedIs DEF number
<1>10. AdjustedTo(number)
  BY <1>2, <1>8, <1>9 DEF AdjustedTo
<1> QED BY <1>4, <1>6, <1>10 DEF number

\* DAA gives the decimal result, for all decimal operands and carries of the addition or
\* subtraction before it: the emulator derives it from two comparisons and the flags.
THEOREM DaaIsDecimal == Spec /\ []DecimalOperands => DecimalAdjust
<1>1. Sound /\ DecimalOperands /\ [Next]_vars => [AfterSum => Adjusted]_vars
  BY DaaStep
<1>2. Sound /\ DecimalOperands /\ [Next]_vars =>
        [Executing({"DAA"}) /\ last \in {"ADD", "ADC", "SUB", "SBC"} =>
           LET s      == IF "N" \in cpu.F THEN -1 ELSE 1
               a      == cpu.reg["A"]
               low    == (a % 16) + s * (IF "H" \in cpu.F THEN 16 ELSE 0)
               high   == (a + s * (IF "C" \in cpu.F THEN 256 ELSE 0) - low) \div 16
               number == low + 10 * high
           IN  /\ cpu'.reg["A"] = 16 * ((number % 100) \div 10) + (number % 10)
               /\ ("C" \in cpu'.F) <=> number \notin 0 .. 99]_vars
  BY <1>1, Zenon DEF AfterSum, Adjusted
<1> QED BY <1>2, EmulatorInvariance, PTL DEF Spec, DecimalAdjust

-----------------------------------------------------------------------------
(* The memory and its addresses.                                           *)

LEMMA Division ==
  ASSUME NEW a \in Int, NEW m \in Int, m >= 1
  PROVE  a = m * (a \div m) + (a % m) /\ a \div m \in Int /\ a % m \in Int /\ 0 <= a % m /\ a % m < m
OBVIOUS

LEMMA Vanishes ==
  ASSUME NEW m \in Int, m >= 1, NEW t \in Int, -m < m * t, m * t < m
  PROVE  t = 0
<1>1. t >= 1 => m * t >= m
  OBVIOUS
<1>2. t <= -1 => m * t <= -m
  OBVIOUS
<1> QED BY <1>1, <1>2

\* The memory repeats over the address space, so addresses need not be cut to 16 bits.
LEMMA SameByte ==
  ASSUME NEW a \in Int, NEW b \in Int, a % 65536 = b % 65536
  PROVE  a % MemSize = b % MemSize
<1> DEFINE k == AddressSpace \div MemSize
           d == (a \div 65536) - (b \div 65536)
           u == a \div MemSize
           v == b \div MemSize
           t == u - v - k * d
<1>1. a - b = 65536 * d /\ d \in Int
  OBVIOUS
<1>2. AddressSpace = MemSize * k /\ k \in Int
  BY MemSizeIs, SpaceIs, MemSizeAssumption, Division
<1>3. AddressSpace = 65536
  BY DEF AddressSpace
<1>4. a = MemSize * u + (a % MemSize) /\ u \in Int /\ 0 <= a % MemSize /\ a % MemSize < MemSize /\ a % MemSize \in Int
  BY MemSizeIs, Division
<1>5. b = MemSize * v + (b % MemSize) /\ v \in Int /\ 0 <= b % MemSize /\ b % MemSize < MemSize /\ b % MemSize \in Int
  BY MemSizeIs, Division
<1>6. a - b = MemSize * (k * d)
  <2> HIDE DEF k, d
  <2>1. a - b = (MemSize * k) * d
    BY <1>1, <1>2, <1>3
  <2> QED BY <1>1, <1>2, <2>1, MemSizeIs
<1> HIDE DEF u, v, k, d
<1>7. MemSize * t = (b % MemSize) - (a % MemSize) /\ t \in Int
  <2>1. k * d \in Int
    BY <1>1, <1>2
  <2> DEFINE e == k * d
  <2> HIDE DEF e
  <2>2. MemSize * (u - v - e) = MemSize * u - MemSize * v - MemSize * e
    BY <1>4, <1>5, <2>1, MemSizeIs DEF e
  <2> QED BY <1>4, <1>5, <1>6, <2>1, <2>2, MemSizeIs DEF e
<1> HIDE DEF t
<1>8. t = 0
  BY <1>4, <1>5, <1>7, MemSizeIs, Vanishes
<1>9. MemSize * t = 0
  BY <1>8, MemSizeIs
<1> QED BY <1>4, <1>5, <1>7, <1>9

-----------------------------------------------------------------------------
(* A processor with another pc, other cycles and another refresh register. *)

At(s, pc, cycles, r) ==
  [reg |-> s.reg, F |-> s.F, SP |-> s.SP, pc |-> pc, alt |-> s.alt, i |-> s.i, r |-> r, iff1 |-> s.iff1,
   iff2 |-> s.iff2, im |-> s.im, cycles |-> cycles, ram |-> s.ram]

Fresh(r, n) == 128 * (r \div 128) + ((r + n) % 128)

LEMMA AtFields ==
  ASSUME NEW s, NEW pc, NEW cycles, NEW r
  PROVE  /\ At(s, pc, cycles, r).reg = s.reg /\ At(s, pc, cycles, r).F = s.F /\ At(s, pc, cycles, r).SP = s.SP
         /\ At(s, pc, cycles, r).pc = pc /\ At(s, pc, cycles, r).r = r /\ At(s, pc, cycles, r).cycles = cycles
         /\ At(s, pc, cycles, r).ram = s.ram
BY DEF At

LEMMA AtAgain ==
  ASSUME NEW s, NEW pc, NEW cycles, NEW r, NEW pc2, NEW cycles2, NEW r2
  PROVE  At(At(s, pc, cycles, r), pc2, cycles2, r2) = At(s, pc2, cycles2, r2)
BY DEF At

LEMMA AtSelf == ASSUME NEW s \in Cpu PROVE s = At(s, s.pc, s.cycles, s.r)
BY DEF At, Cpu

LEMMA AtOK ==
  ASSUME NEW s \in Cpu, NEW pc \in Word, NEW cycles \in Nat, NEW r \in Byte PROVE At(s, pc, cycles, r) \in Cpu
BY DEF At, Cpu

LEMMA FreshOK == ASSUME NEW r \in Byte, NEW n \in Int PROVE Fresh(r, n) \in Byte
BY Refresh DEF Fresh

LEMMA FreshTwice ==
  ASSUME NEW r \in Int, NEW m \in Int, NEW n \in Int
  PROVE  Fresh(Fresh(r, m), n) = Fresh(r, m + n)
BY DEF Fresh

LEMMA AtSame ==
  ASSUME NEW s \in Cpu, NEW t \in Cpu,
         t.reg = s.reg, t.F = s.F, t.SP = s.SP, t.alt = s.alt, t.i = s.i, t.iff1 = s.iff1, t.iff2 = s.iff2,
         t.im = s.im, t.ram = s.ram
  PROVE  t = At(s, t.pc, t.cycles, t.r)
<1>1. t = At(t, t.pc, t.cycles, t.r)
  BY AtSelf
<1> QED BY <1>1 DEF At

LEMMA StepsAre ==
  ASSUME NEW s \in Cpu
  PROVE  /\ \A t : Jump(s, t) = At(s, t % 65536, s.cycles, s.r)
         /\ \A n : Cycles(s, n) = At(s, s.pc, s.cycles + n, s.r)
         /\ Refreshed(s) = At(s, s.pc, s.cycles, Fresh(s.r, 1))
<1>1. \A t : Jump(s, t) = At(s, t % 65536, s.cycles, s.r)
  BY DEF Jump, Cpu, At
<1>2. \A n : Cycles(s, n) = At(s, s.pc, s.cycles + n, s.r)
  BY DEF Cycles, Cpu, At
<1>3. Refreshed(s) = At(s, s.pc, s.cycles, Fresh(s.r, 1))
  BY DEF Refreshed, Cpu, At, Fresh
<1> QED BY <1>1, <1>2, <1>3

LEMMA JumpIs ==
  ASSUME NEW s \in Cpu, NEW t \in Int, NEW pc, pc = t % 65536
  PROVE  Jump(s, t) = At(s, pc, s.cycles, s.r) /\ Jump(s, t) \in Cpu
<1>1. Jump(s, t) = [s EXCEPT !.pc = pc]
  BY DEF Jump
<1>2. [s EXCEPT !.pc = pc] = At(s, pc, s.cycles, s.r)
  BY DEF Cpu, At
<1> QED BY <1>1, <1>2, JumpOK

LEMMA UncountedIs ==
  ASSUME NEW s \in Cpu, s.cycles >= 8
  PROVE  Uncounted(s) = At(s, s.pc, s.cycles - 8, Fresh(s.r, -2)) /\ Uncounted(s) \in Cpu
<1> DEFINE pc == s.pc
           c  == s.cycles - 8
           r  == Fresh(s.r, -2)
           t  == Uncounted(s)
<1>1. s.r - 2 = s.r + (-2) /\ s.cycles \in Nat /\ s.cycles - 8 \in Nat
  BY FieldsAre, ByteIs
<1>2. pc \in Word /\ c \in Nat /\ r \in Byte
  BY <1>1, PcIs, InWord, FieldsAre, FreshOK
<1>3. t = [s EXCEPT !.cycles = c, !.r = r]
  BY <1>1 DEF Uncounted, Fresh
<1> HIDE DEF pc, c, r, t
<1>4. t \in Cpu
  BY <1>2, <1>3 DEF Cpu
<1>5. /\ t.reg = s.reg /\ t.F = s.F /\ t.SP = s.SP /\ t.alt = s.alt /\ t.i = s.i /\ t.iff1 = s.iff1
        /\ t.iff2 = s.iff2 /\ t.im = s.im /\ t.ram = s.ram
      /\ t.pc = pc /\ t.cycles = c /\ t.r = r
  BY <1>3 DEF Cpu, pc
<1>6. t = At(s, pc, c, r)
  BY <1>4, <1>5, AtSame
<1> QED BY <1>4, <1>6 DEF pc, c, r, t

LEMMA M1Is ==
  ASSUME NEW s \in Cpu, NEW n \in Nat
  PROVE  Machine!M1(s, n) = At(s, (s.pc + n) % 65536, s.cycles + 4 * n, Fresh(s.r, n)) /\ Machine!M1(s, n) \in Cpu
<1> DEFINE pc == (s.pc + n) % 65536
           c  == s.cycles + 4 * n
           r  == Fresh(s.r, n)
           t  == Machine!M1(s, n)
<1>1. s.pc + n \in Int /\ s.cycles + 4 * n \in Nat
  BY PcIs, FieldsAre
<1>2. pc \in Word /\ c \in Nat /\ r \in Byte
  BY <1>1, PcIs, InWord, FieldsAre, FreshOK
<1>3. t = [s EXCEPT !.pc = pc, !.cycles = c, !.r = r]
  BY DEF Machine!M1, Fresh
<1> HIDE DEF pc, c, r, t
<1>4. t \in Cpu
  BY <1>2, <1>3 DEF Cpu
<1>5. /\ t.reg = s.reg /\ t.F = s.F /\ t.SP = s.SP /\ t.alt = s.alt /\ t.i = s.i /\ t.iff1 = s.iff1
        /\ t.iff2 = s.iff2 /\ t.im = s.im /\ t.ram = s.ram
      /\ t.pc = pc /\ t.cycles = c /\ t.r = r
  BY <1>3 DEF Cpu
<1>6. t = At(s, pc, c, r)
  BY <1>4, <1>5, AtSame
<1> QED BY <1>4, <1>6 DEF pc, c, r, t

LEMMA M1Cycles == ASSUME NEW s \in Cpu, NEW n \in Nat PROVE Machine!M1(s, n).cycles = s.cycles + 4 * n
<1> DEFINE pc == (s.pc + n) % 65536
           c  == s.cycles + 4 * n
           r  == Fresh(s.r, n)
<1>1. Machine!M1(s, n) = At(s, pc, c, r)
  BY M1Is
<1> HIDE DEF pc, c, r
<1>2. Machine!M1(s, n).cycles = c
  BY <1>1, AtFields
<1> QED BY <1>2 DEF c

\* Back to an earlier pc.
Rewind(s, pc, c, r) == [s EXCEPT !.pc = pc, !.r = r, !.cycles = c]

LEMMA RewindIs ==
  ASSUME NEW s \in Cpu, NEW pc \in Word, NEW c \in Nat, NEW r \in Byte
  PROVE  Rewind(s, pc, c, r) = At(s, pc, c, r) /\ Rewind(s, pc, c, r) \in Cpu
<1> DEFINE t == Rewind(s, pc, c, r)
<1>1. t = [s EXCEPT !.pc = pc, !.r = r, !.cycles = c]
  BY DEF Rewind
<1> HIDE DEF t
<1>2. t \in Cpu
  BY <1>1 DEF Cpu
<1>3. /\ t.reg = s.reg /\ t.F = s.F /\ t.SP = s.SP /\ t.alt = s.alt /\ t.i = s.i /\ t.iff1 = s.iff1
        /\ t.iff2 = s.iff2 /\ t.im = s.im /\ t.ram = s.ram
      /\ t.pc = pc /\ t.cycles = c /\ t.r = r
  BY <1>1 DEF Cpu
<1>4. t = At(s, pc, c, r)
  BY <1>2, <1>3, AtSame
<1> QED BY <1>2, <1>4 DEF t

LEMMA BeforeIs ==
  ASSUME NEW s \in Cpu, begun.pc \in Word, begun.r \in Byte, begun.cycles \in Nat
  PROVE  Before(s) = At(s, begun.pc, begun.cycles, begun.r) /\ Before(s) \in Cpu
<1>1. Before(s) = Rewind(s, begun.pc, begun.cycles, begun.r)
  BY DEF Before, Rewind
<1> QED BY <1>1, RewindIs

LEMMA Rewound ==
  ASSUME NEW s \in Cpu, NEW t \in Cpu, NEW pc, NEW c, NEW r, t = At(s, pc, c, r)
  PROVE  Rewind(t, s.pc, s.cycles, s.r) = s
<1>1. s.pc \in Word /\ s.cycles \in Nat /\ s.r \in Byte
  BY FieldsAre
<1>2. Rewind(t, s.pc, s.cycles, s.r) = At(t, s.pc, s.cycles, s.r)
  BY <1>1, RewindIs
<1> QED BY <1>2, AtAgain, AtSelf

-----------------------------------------------------------------------------
(* Opcodes and prefixes.                                                   *)

LEMMA ModTwice ==
  ASSUME NEW a \in Int, NEW b \in Int
  PROVE  ((a % 65536) + b) % 65536 = (a + b) % 65536
OBVIOUS

LEMMA OpcodeOK ==
  ASSUME NEW b \in Cpu, NEW n \in Int PROVE Machine!Opcode(b, n) \in Byte
<1>1. (b.pc + n) % 65536 \in Int
  BY PcIs
<1> QED BY <1>1, ReadByteOK DEF Machine!Opcode

LEMMA OneMore ==
  ASSUME NEW pc \in Int, NEW c \in Int, NEW r \in Int, NEW k \in Int
  PROVE  /\ (((pc + k) % 65536) + 1) % 65536 = (pc + (k + 1)) % 65536
         /\ (c + 4 * k) + 4 = c + 4 * (k + 1)
         /\ Fresh(Fresh(r, k), 1) = Fresh(r, k + 1)
         /\ (pc + k) % 65536 \in Int
<1>1. Fresh(Fresh(r, k), 1) = Fresh(r, k + 1)
  BY FreshTwice
<1>2. (((pc + k) % 65536) + 1) % 65536 = (pc + (k + 1)) % 65536
  OBVIOUS
<1> QED BY <1>1, <1>2

\* The next byte of an instruction of which k have been read.
LEMMA NextByte ==
  ASSUME NEW b \in Cpu, NEW k \in Nat
  PROVE  /\ Counted(Jump(Machine!M1(b, k), Machine!M1(b, k).pc + 1)) = Machine!M1(b, k + 1)
         /\ ReadByte(Machine!M1(b, k), Machine!M1(b, k).pc) = Machine!Opcode(b, k)
         /\ ReadByte(Machine!M1(b, k), Machine!M1(b, k).pc + 1) = Machine!Opcode(b, k + 1)
<1> DEFINE s   == Machine!M1(b, k)
           pc  == (b.pc + k) % 65536
           c   == b.cycles + 4 * k
           r   == Fresh(b.r, k)
           pc2 == (b.pc + (k + 1)) % 65536
           c2  == b.cycles + 4 * (k + 1)
           r2  == Fresh(b.r, k + 1)
<1>1. s = At(b, pc, c, r) /\ s \in Cpu
  BY M1Is
<1>2. Machine!M1(b, k + 1) = At(b, pc2, c2, r2)
  <2> DEFINE m == k + 1
  <2>1. m \in Nat
    OBVIOUS
  <2> HIDE DEF m
  <2>2. Machine!M1(b, m) = At(b, (b.pc + m) % 65536, b.cycles + 4 * m, Fresh(b.r, m))
    BY <2>1, M1Is
  <2> QED BY <2>2 DEF m
<1>3. b.pc \in Int /\ b.cycles \in Int /\ b.r \in Int
  BY PcIs, FieldsAre, ByteIs
<1>4. (pc + 1) % 65536 = pc2 /\ c + 4 = c2 /\ Fresh(r, 1) = r2 /\ pc \in Int
  BY <1>3, OneMore
<1>5. s.pc = pc /\ s.cycles = c /\ s.r = r /\ s.ram = b.ram
  <2> HIDE DEF s, pc, c, r
  <2> QED BY <1>1, AtFields
<1>6. ReadByte(s, s.pc) = Machine!Opcode(b, k)
  BY <1>5 DEF ReadByte, Machine!Opcode
<1>7. ReadByte(s, s.pc + 1) = Machine!Opcode(b, k + 1)
  <2>1. (pc + 1) % 65536 = pc2 % 65536 /\ pc2 \in Int
    BY <1>3, <1>4, ModTwice
  <2>2. (pc + 1) % MemSize = pc2 % MemSize
    BY <1>4, <2>1, SameByte
  <2> HIDE DEF s, pc
  <2> QED BY <1>5, <2>2 DEF ReadByte, Machine!Opcode
<1> HIDE DEF s, pc, c, r, pc2, c2, r2
<1>8. Counted(Jump(s, s.pc + 1)) = Machine!M1(b, k + 1)
  <2> DEFINE u == Jump(s, s.pc + 1)
             v == Cycles(u, 4)
  <2>1. u = At(b, pc2, c, r) /\ u \in Cpu
    <3>1. s.pc + 1 \in Int
      BY <1>1, PcIs
    <3>2. u = At(s, pc2, s.cycles, s.r)
      BY <1>1, <1>4, <1>5, StepsAre
    <3> QED BY <1>1, <1>5, <3>1, <3>2, AtAgain, JumpOK
  <2> HIDE DEF u
  <2>2. v = At(b, pc2, c2, r) /\ v \in Cpu
    <3>1. u.pc = pc2 /\ u.cycles = c /\ u.r = r
      BY <2>1, AtFields
    <3>2. v = At(u, pc2, c2, r)
      BY <1>4, <2>1, <3>1, StepsAre
    <3> QED BY <2>1, <3>2, AtAgain, CyclesOK
  <2> HIDE DEF v
  <2>3. Refreshed(v) = At(b, pc2, c2, r2)
    <3>1. v.pc = pc2 /\ v.cycles = c2 /\ v.r = r
      BY <2>2, AtFields
    <3>2. Refreshed(v) = At(v, pc2, c2, r2)
      BY <1>4, <2>2, <3>1, StepsAre
    <3> QED BY <2>2, <3>2, AtAgain
  <2> QED BY <1>2, <2>3 DEF Counted, u, v
<1> QED BY <1>6, <1>7, <1>8 DEF s

LEMMA NoByte == ASSUME NEW b \in Cpu PROVE Machine!M1(b, 0) = b
<1>1. b.pc \in Word /\ b.r \in Byte /\ b.cycles \in Nat
  BY FieldsAre
<1>2. (b.pc + 0) % 65536 = b.pc
  BY <1>1, WordIs
<1>3. Fresh(b.r, 0) = b.r
  BY <1>1, ByteIs DEF Fresh
<1>4. b.cycles + 4 * 0 = b.cycles
  BY <1>1
<1>5. Machine!M1(b, 0) = At(b, (b.pc + 0) % 65536, b.cycles + 4 * 0, Fresh(b.r, 0))
  BY M1Is
<1>6. Machine!M1(b, 0) = At(b, b.pc, b.cycles, b.r)
  BY <1>2, <1>3, <1>4, <1>5
<1> QED BY <1>6, AtSelf

Prefixed(b, n) == n \in Nat /\ \A m \in 0 .. n - 1 : Machine!IsIndex(b, m)

\* A memory full of prefixes has no instruction: the first opcode that is none is
\* found before the addresses are used up.
LEMMA IndexesAre ==
  ASSUME NEW b \in Cpu, NEW n, Prefixed(b, n), ~Machine!IsIndex(b, n)
  PROVE  Machine!Indexes(b) = n
<1>1. n \in Nat /\ \A m \in 0 .. n - 1 : Machine!IsIndex(b, m)
  BY DEF Prefixed
<1>2. n \in Word
  <2> SUFFICES ASSUME n >= 65536 PROVE FALSE
    BY <1>1, IsWord
  <2> DEFINE m == n - 65536
  <2>1. m \in 0 .. n - 1 /\ (b.pc + m) % 65536 = (b.pc + n) % 65536
    BY <1>1, PcIs
  <2> HIDE DEF m
  <2>2. Machine!IsIndex(b, m)
    BY <1>1, <2>1
  <2>3. Machine!Opcode(b, m) = Machine!Opcode(b, n)
    BY <2>1 DEF Machine!Opcode
  <2> QED BY <2>2, <2>3 DEF Machine!IsIndex, Machine!Op
<1>3. ASSUME NEW k \in Word, ~Machine!IsIndex(b, k), \A m \in 0 .. k - 1 : Machine!IsIndex(b, m) PROVE k = n
  <2>1. k \in Int /\ k >= 0
    BY WordIs
  <2>2. ~(k < n) /\ ~(n < k)
    BY <1>1, <1>3, <2>1
  <2> QED BY <1>1, <2>1, <2>2
<1> DEFINE Fits(k) == ~Machine!IsIndex(b, k) /\ \A m \in 0 .. k - 1 : Machine!IsIndex(b, m)
<1>4. Machine!Indexes(b) = CHOOSE k \in Word : Fits(k)
  BY DEF Machine!Indexes
<1>5. Fits(n)
  BY <1>1
<1>6. \A k \in Word : Fits(k) => k = n
  BY <1>3
<1> HIDE DEF Fits
<1> QED BY <1>2, <1>4, <1>5, <1>6

-----------------------------------------------------------------------------
(* How far an instruction has been read: its n index prefixes and the      *)
(* opcode, or ED or CB and the opcode behind it.                           *)

ReadAs(d, p, opcode, table) == d = [p |-> p, opcode |-> opcode, ins |-> table[opcode]]

ReadPlain(b, n, s, d) ==
  /\ s = Machine!M1(b, n + 1)
  /\ ReadAs(d, Machine!IndexRegister(b, n), Machine!Opcode(b, n), INSTRUCTION_TABLE)

ReadEd(b, n, s, d) ==
  /\ Machine!Op(b, n) = "ED_PREFIX"
  /\ s = Machine!M1(b, n + 2)
  /\ ReadAs(d, "HL", Machine!Opcode(b, n + 1), ED_INSTRUCTION_TABLE)

ReadCb(b, n, s, d) ==
  /\ Machine!Op(b, n) = "CB_PREFIX" /\ Machine!IndexRegister(b, n) = "HL"
  /\ s = Machine!M1(b, n + 2)
  /\ ReadAs(d, "HL", Machine!Opcode(b, n + 1), CB_INSTRUCTION_TABLE)

ReadIndexedCb(b, n, s, d) ==
  /\ Machine!Op(b, n) = "CB_PREFIX" /\ Machine!IndexRegister(b, n) # "HL"
  /\ s = Cycles(Machine!M1(b, n + 1), 4)
  /\ ReadAs(d, Machine!IndexRegister(b, n), Machine!Opcode(b, n + 2), CB_INSTRUCTION_TABLE)

Reads(b, n, s, d) ==
  ReadPlain(b, n, s, d) \/ ReadEd(b, n, s, d) \/ ReadCb(b, n, s, d) \/ ReadIndexedCb(b, n, s, d)

\* The instruction that has been read to its end is the one at pc.
LEMMA DecodedIs ==
  ASSUME NEW b \in Cpu, NEW n, Prefixed(b, n), NEW s, NEW d, Reads(b, n, s, d), d.ins.op \notin PREFIXES
  PROVE  Machine!Decoded(b) = [s |-> s, p |-> d.p, opcode |-> d.opcode, ins |-> d.ins]
<1> DEFINE p == Machine!IndexRegister(b, n)
           op == Machine!Op(b, n)
           Found == [s |-> s, p |-> d.p, opcode |-> d.opcode, ins |-> d.ins]
           as(t, q, k, table) == [s |-> t, p |-> q, opcode |-> Machine!Opcode(b, k), ins |-> table[Machine!Opcode(b, k)]]
           Chosen == CASE op = "ED_PREFIX"              -> as(Machine!M1(b, n + 2), "HL", n + 1, ED_INSTRUCTION_TABLE)
                       [] op = "CB_PREFIX" /\ p = "HL" -> as(Machine!M1(b, n + 2), "HL", n + 1, CB_INSTRUCTION_TABLE)
                       [] op = "CB_PREFIX" /\ p # "HL" -> as(Cycles(Machine!M1(b, n + 1), 4), p, n + 2, CB_INSTRUCTION_TABLE)
                       [] OTHER                        -> as(Machine!M1(b, n + 1), p, n, INSTRUCTION_TABLE)
<1>1. Machine!Indexes(b) = n => Machine!Decoded(b) = Chosen
  BY DEF Machine!Decoded
<1>2. op \notin {"DD_PREFIX", "FD_PREFIX"} => Machine!Indexes(b) = n
  BY IndexesAre DEF Machine!IsIndex
<1> HIDE DEF p, op
<1>3. CASE ReadPlain(b, n, s, d)
  <2>1. op = d.ins.op /\ Found = as(Machine!M1(b, n + 1), p, n, INSTRUCTION_TABLE)
    BY <1>3 DEF ReadPlain, ReadAs, op, p, Machine!Op
  <2>2. op \notin {"ED_PREFIX", "CB_PREFIX", "DD_PREFIX", "FD_PREFIX"}
    BY <2>1 DEF PREFIXES
  <2>3. Chosen = as(Machine!M1(b, n + 1), p, n, INSTRUCTION_TABLE)
    BY <2>2
  <2> QED BY <1>1, <1>2, <2>1, <2>2, <2>3
<1>4. CASE ReadEd(b, n, s, d)
  <2>1. op = "ED_PREFIX" /\ Found = as(Machine!M1(b, n + 2), "HL", n + 1, ED_INSTRUCTION_TABLE)
    BY <1>4 DEF ReadEd, ReadAs, op
  <2>2. Chosen = as(Machine!M1(b, n + 2), "HL", n + 1, ED_INSTRUCTION_TABLE)
    BY <2>1
  <2> QED BY <1>1, <1>2, <2>1, <2>2
<1>5. CASE ReadCb(b, n, s, d)
  <2>1. op = "CB_PREFIX" /\ p = "HL" /\ Found = as(Machine!M1(b, n + 2), "HL", n + 1, CB_INSTRUCTION_TABLE)
    BY <1>5 DEF ReadCb, ReadAs, op, p
  <2>2. Chosen = as(Machine!M1(b, n + 2), "HL", n + 1, CB_INSTRUCTION_TABLE)
    BY <2>1
  <2> QED BY <1>1, <1>2, <2>1, <2>2
<1>6. CASE ReadIndexedCb(b, n, s, d)
  <2>1. op = "CB_PREFIX" /\ p # "HL" /\ Found = as(Cycles(Machine!M1(b, n + 1), 4), p, n + 2, CB_INSTRUCTION_TABLE)
    BY <1>6 DEF ReadIndexedCb, ReadAs, op, p
  <2>2. Chosen = as(Cycles(Machine!M1(b, n + 1), 4), p, n + 2, CB_INSTRUCTION_TABLE)
    BY <2>1
  <2> QED BY <1>1, <1>2, <2>1, <2>2
<1> QED BY <1>3, <1>4, <1>5, <1>6 DEF Reads

-----------------------------------------------------------------------------
(* Before the instruction: what reading it does not change.                *)

LEMMA CountedIs ==
  ASSUME NEW s \in Cpu
  PROVE  /\ Counted(s) = At(s, s.pc, s.cycles + 4, Fresh(s.r, 1))
         /\ Counted(Jump(s, s.pc + 1)) = At(s, (s.pc + 1) % 65536, s.cycles + 4, Fresh(s.r, 1))
<1>1. ASSUME NEW t \in Cpu PROVE Counted(t) = At(t, t.pc, t.cycles + 4, Fresh(t.r, 1))
  <2> DEFINE u == Cycles(t, 4)
  <2>1. u = At(t, t.pc, t.cycles + 4, t.r) /\ u \in Cpu
    BY StepsAre, CyclesOK
  <2>2. u.pc = t.pc /\ u.cycles = t.cycles + 4 /\ u.r = t.r
    BY <2>1, AtFields
  <2> HIDE DEF u
  <2>3. Refreshed(u) = At(u, t.pc, t.cycles + 4, Fresh(t.r, 1))
    BY <2>1, <2>2, StepsAre
  <2>4. Refreshed(u) = At(t, t.pc, t.cycles + 4, Fresh(t.r, 1))
    BY <2>1, <2>3, AtAgain
  <2> QED BY <2>4 DEF Counted, u
<1> DEFINE v  == Jump(s, s.pc + 1)
           pc == (s.pc + 1) % 65536
<1>2. v = At(s, pc, s.cycles, s.r) /\ v \in Cpu
  <2>1. s.pc + 1 \in Int
    BY PcIs
  <2> QED BY <2>1, StepsAre, JumpOK
<1> HIDE DEF v, pc
<1>3. v.pc = pc /\ v.cycles = s.cycles /\ v.r = s.r
  BY <1>2, AtFields
<1>4. Counted(v) = At(v, pc, s.cycles + 4, Fresh(s.r, 1))
  BY <1>1, <1>2, <1>3
<1>5. Counted(v) = At(s, pc, s.cycles + 4, Fresh(s.r, 1))
  BY <1>2, <1>4, AtAgain
<1> QED BY <1>1, <1>5 DEF v, pc

LEMMA BeforeAt ==
  ASSUME Shapes, NEW s \in Cpu, NEW t \in Cpu, NEW pc, NEW cycles, NEW r, t = At(s, pc, cycles, r)
  PROVE  Before(t) = Before(s)
<1>1. begun.pc \in Word /\ begun.r \in Byte /\ begun.cycles \in Nat
  BY DEF Shapes
<1>2. Before(t) = At(t, begun.pc, begun.cycles, begun.r) /\ Before(s) = At(s, begun.pc, begun.cycles, begun.r)
  BY <1>1, BeforeIs
<1> QED BY <1>2, AtAgain

\* What has been read of the instruction that is being executed.
Fetched ==
  phase = "execute" =>
    IF begun.bus = NoOpcode
    THEN \E n : Prefixed(Before(cpu), n) /\ Reads(Before(cpu), n, cpu, cur)
    ELSE /\ cpu = Counted(Before(cpu))
         /\ ReadAs(cur, "HL", begun.bus, INSTRUCTION_TABLE)
         /\ cur.ins.op \notin PREFIXES

\* The instruction in the code is the one the processor has to execute.
LEMMA CurrentIs ==
  ASSUME Sound, Fetched, phase = "execute", cur.ins.op \notin PREFIXES
  PROVE  /\ Machine!Current = [s |-> cpu, p |-> cur.p, opcode |-> cur.opcode, ins |-> cur.ins]
         /\ Bus = begun.bus /\ Processor = Before(cpu)
<1>1. Bus = begun.bus /\ Processor = Before(cpu)
  BY DEF Bus, Processor, Between, Midway
<1>2. Machine!NoOpcode = NoOpcode
  BY DEF Machine!NoOpcode, NoOpcode
<1>3. Before(cpu) \in Cpu
  BY BeforeIs DEF Sound, Shapes
<1>4. CASE begun.bus = NoOpcode
  <2>1. PICK n : Prefixed(Before(cpu), n) /\ Reads(Before(cpu), n, cpu, cur)
    BY <1>4 DEF Fetched
  <2>2. Machine!Decoded(Before(cpu)) = [s |-> cpu, p |-> cur.p, opcode |-> cur.opcode, ins |-> cur.ins]
    BY <1>3, <2>1, DecodedIs
  <2> QED BY <1>1, <1>2, <1>4, <2>2 DEF Machine!Current
<1>5. CASE begun.bus # NoOpcode
  <2>1. /\ cpu = Counted(Before(cpu)) /\ cur = [p |-> "HL", opcode |-> begun.bus, ins |-> INSTRUCTION_TABLE[begun.bus]]
    BY <1>5 DEF Fetched, ReadAs
  <2>2. Machine!FromBus = [s |-> cpu, p |-> cur.p, opcode |-> cur.opcode, ins |-> cur.ins]
    BY <1>1, <2>1 DEF Machine!FromBus, Counted
  <2> QED BY <1>1, <1>2, <1>5, <2>2 DEF Machine!Current
<1> QED BY <1>1, <1>4, <1>5

\* Between two instructions the processor is the one in the emulator.
LEMMA Outside ==
  ASSUME Between PROVE Processor = cpu /\ Bus = NoOpcode /\ Shadow = (last \in INTERRUPTS)
BY DEF Between, Midway, Processor, Bus, Shadow

LEMMA FinishOutside ==
  ASSUME NEW s, NEW budget, Finish(s, budget)
  PROVE  Processor' = s /\ Bus' = NoOpcode /\ Shadow' = (cur.ins.op \in INTERRUPTS)
BY DEF Finish, Between, Midway, Processor, Bus, Shadow

\* An instruction that does not repeat.
LEMMA Instructs ==
  ASSUME Sound, Fetched, phase = "execute", cur.ins.op \notin UNION {PREFIXES, REPEATED, PORTS, {"HALT"}},
         NEW budget, Finish(Execute(cpu, cur.p, cur.opcode, cur.ins), budget)
  PROVE  Machine!Instruction
<1>1. cur.ins.op \notin PREFIXES /\ cur.ins.op \notin REPEATED /\ cur.ins.op \notin PORTS /\ cur.ins.op # "HALT"
  OBVIOUS
<1> DEFINE d == Machine!Current
<1>2. d.s = cpu /\ d.p = cur.p /\ d.opcode = cur.opcode /\ d.ins = cur.ins
  BY <1>1, CurrentIs
<1>3. /\ Processor' = Execute(cpu, cur.p, cur.opcode, cur.ins)
      /\ Bus' = NoOpcode /\ Shadow' = (cur.ins.op \in INTERRUPTS)
  BY FinishOutside
<1> HIDE DEF d
<1>4. d.ins.op \notin PORTS \cup {"HALT"} /\ d.ins.op \notin {"LDIR_LDDR", "CPIR_CPDR"}
  BY <1>1, <1>2 DEF REPEATED
<1>5. Processor' = Execute(d.s, d.p, d.opcode, d.ins)
  BY <1>2, <1>3
<1>6. Shadow' = (d.ins.op \in INTERRUPTS)
  BY <1>2, <1>3
<1> QED BY <1>3, <1>4, <1>5, <1>6 DEF Machine!Instruction, Machine!NoOpcode, NoOpcode, d

-----------------------------------------------------------------------------
(* Execute picks the operator of the group: no operation is in two groups. *)

LEMMA GroupOf ==
  ASSUME NEW s, NEW p, NEW opcode, NEW ins
  PROVE  /\ ins.op \in LOAD8 => Execute(s, p, opcode, ins) = Load8(s, p, opcode, ins)
         /\ ins.op \in LOAD16 => Execute(s, p, opcode, ins) = Load16(s, p, opcode, ins)
         /\ ins.op \in EXCHANGE => Execute(s, p, opcode, ins) = Exchange(s, p, opcode, ins)
         /\ ins.op \in BLOCK_ONCE => Execute(s, p, opcode, ins) = BlockOnce(s, p, opcode, ins)
         /\ ins.op \in ARITH8 => Execute(s, p, opcode, ins) = Arith8(s, p, opcode, ins)
         /\ ins.op \in INC_DEC => Execute(s, p, opcode, ins) = IncDec(s, p, opcode, ins)
         /\ ins.op \in ACCUMULATOR => Execute(s, p, opcode, ins) = OnAccumulator(s, p, opcode, ins)
         /\ ins.op \in ARITH16 => Execute(s, p, opcode, ins) = Arith16(s, p, opcode, ins)
         /\ ins.op \in SHIFTS => Execute(s, p, opcode, ins) = ShiftOne(s, p, opcode, ins)
         /\ ins.op \in BITS => Execute(s, p, opcode, ins) = OneBit(s, p, opcode, ins)
         /\ ins.op \in {"RLD_RRD"} => Execute(s, p, opcode, ins) = RotateDigit(s, p, opcode, ins)
         /\ ins.op \in JUMP => Execute(s, p, opcode, ins) = JumpGroup(s, p, opcode, ins)
         /\ ins.op \in CALL_RETURN => Execute(s, p, opcode, ins) = CallReturn(s, p, opcode, ins)
         /\ ins.op \in INTERRUPTS => Execute(s, p, opcode, ins) = SetInterrupts(s, ins)
         /\ ins.op \in {"IM_N"} => Execute(s, p, opcode, ins) = SetMode(s, opcode)
         /\ ins.op \in NOTHING => Execute(s, p, opcode, ins) = s
<1>0. ARITH8 = ALU /\ SHIFTS = ROTATE
  BY AluIs, ShiftsAre
<1>1. ASSUME ins.op \in LOAD8 PROVE Execute(s, p, opcode, ins) = Load8(s, p, opcode, ins)
  <2>1. /\ ins.op \notin LOAD16 /\ ins.op \notin EXCHANGE /\ ins.op \notin BLOCK_ONCE /\ ins.op \notin ARITH8
        /\ ins.op \notin INC_DEC /\ ins.op \notin ACCUMULATOR /\ ins.op \notin ARITH16 /\ ins.op \notin SHIFTS
        /\ ins.op \notin BITS /\ ins.op \notin {"RLD_RRD"} /\ ins.op \notin JUMP /\ ins.op \notin CALL_RETURN
        /\ ins.op \notin INTERRUPTS /\ ins.op \notin {"IM_N"} /\ ins.op \notin NOTHING
    BY <1>0, <1>1, LOAD8Only, Zenon
  <2> QED BY <1>1, <2>1 DEF Execute
<1>2. ASSUME ins.op \in LOAD16 PROVE Execute(s, p, opcode, ins) = Load16(s, p, opcode, ins)
  <2>1. ins.op \notin LOAD8
    BY <1>0, <1>2, LOAD8Only, Zenon
  <2>2. /\ ins.op \notin EXCHANGE /\ ins.op \notin BLOCK_ONCE /\ ins.op \notin ARITH8 /\ ins.op \notin INC_DEC
        /\ ins.op \notin ACCUMULATOR /\ ins.op \notin ARITH16 /\ ins.op \notin SHIFTS /\ ins.op \notin BITS
        /\ ins.op \notin {"RLD_RRD"} /\ ins.op \notin JUMP /\ ins.op \notin CALL_RETURN /\ ins.op \notin INTERRUPTS
        /\ ins.op \notin {"IM_N"} /\ ins.op \notin NOTHING
    BY <1>0, <1>2, LOAD16Only, Zenon
  <2> QED BY <1>2, <2>1, <2>2 DEF Execute
<1>3. ASSUME ins.op \in EXCHANGE PROVE Execute(s, p, opcode, ins) = Exchange(s, p, opcode, ins)
  <2>1. ins.op \notin LOAD8
    BY <1>0, <1>3, LOAD8Only, Zenon
  <2>2. ins.op \notin LOAD16
    BY <1>0, <1>3, LOAD16Only, Zenon
  <2>3. /\ ins.op \notin BLOCK_ONCE /\ ins.op \notin ARITH8 /\ ins.op \notin INC_DEC /\ ins.op \notin ACCUMULATOR
        /\ ins.op \notin ARITH16 /\ ins.op \notin SHIFTS /\ ins.op \notin BITS /\ ins.op \notin {"RLD_RRD"}
        /\ ins.op \notin JUMP /\ ins.op \notin CALL_RETURN /\ ins.op \notin INTERRUPTS /\ ins.op \notin {"IM_N"}
        /\ ins.op \notin NOTHING
    BY <1>0, <1>3, EXCHANGEOnly, Zenon
  <2> QED BY <1>3, <2>1, <2>2, <2>3 DEF Execute
<1>4. ASSUME ins.op \in BLOCK_ONCE PROVE Execute(s, p, opcode, ins) = BlockOnce(s, p, opcode, ins)
  <2>1. ins.op \notin LOAD8
    BY <1>0, <1>4, LOAD8Only, Zenon
  <2>2. ins.op \notin LOAD16
    BY <1>0, <1>4, LOAD16Only, Zenon
  <2>3. ins.op \notin EXCHANGE
    BY <1>0, <1>4, EXCHANGEOnly, Zenon
  <2>4. /\ ins.op \notin ARITH8 /\ ins.op \notin INC_DEC /\ ins.op \notin ACCUMULATOR /\ ins.op \notin ARITH16
        /\ ins.op \notin SHIFTS /\ ins.op \notin BITS /\ ins.op \notin {"RLD_RRD"} /\ ins.op \notin JUMP
        /\ ins.op \notin CALL_RETURN /\ ins.op \notin INTERRUPTS /\ ins.op \notin {"IM_N"} /\ ins.op \notin NOTHING
    BY <1>0, <1>4, BLOCK_ONCEOnly, Zenon
  <2> QED BY <1>4, <2>1, <2>2, <2>3, <2>4 DEF Execute
<1>5. ASSUME ins.op \in ARITH8 PROVE Execute(s, p, opcode, ins) = Arith8(s, p, opcode, ins)
  <2>1. ins.op \notin LOAD8
    BY <1>0, <1>5, LOAD8Only, Zenon
  <2>2. ins.op \notin LOAD16
    BY <1>0, <1>5, LOAD16Only, Zenon
  <2>3. ins.op \notin EXCHANGE
    BY <1>0, <1>5, EXCHANGEOnly, Zenon
  <2>4. ins.op \notin BLOCK_ONCE
    BY <1>0, <1>5, BLOCK_ONCEOnly, Zenon
  <2>5. /\ ins.op \notin INC_DEC /\ ins.op \notin ACCUMULATOR /\ ins.op \notin ARITH16 /\ ins.op \notin SHIFTS
        /\ ins.op \notin BITS /\ ins.op \notin {"RLD_RRD"} /\ ins.op \notin JUMP /\ ins.op \notin CALL_RETURN
        /\ ins.op \notin INTERRUPTS /\ ins.op \notin {"IM_N"} /\ ins.op \notin NOTHING
    BY <1>0, <1>5, ALUOnly, Zenon
  <2> QED BY <1>5, <2>1, <2>2, <2>3, <2>4, <2>5 DEF Execute
<1>6. ASSUME ins.op \in INC_DEC PROVE Execute(s, p, opcode, ins) = IncDec(s, p, opcode, ins)
  <2>1. ins.op \notin LOAD8
    BY <1>0, <1>6, LOAD8Only, Zenon
  <2>2. ins.op \notin LOAD16
    BY <1>0, <1>6, LOAD16Only, Zenon
  <2>3. ins.op \notin EXCHANGE
    BY <1>0, <1>6, EXCHANGEOnly, Zenon
  <2>4. ins.op \notin BLOCK_ONCE
    BY <1>0, <1>6, BLOCK_ONCEOnly, Zenon
  <2>5. ins.op \notin ARITH8
    BY <1>0, <1>6, ALUOnly, Zenon
  <2>6. /\ ins.op \notin ACCUMULATOR /\ ins.op \notin ARITH16 /\ ins.op \notin SHIFTS /\ ins.op \notin BITS
        /\ ins.op \notin {"RLD_RRD"} /\ ins.op \notin JUMP /\ ins.op \notin CALL_RETURN /\ ins.op \notin INTERRUPTS
        /\ ins.op \notin {"IM_N"} /\ ins.op \notin NOTHING
    BY <1>0, <1>6, INC_DECOnly, Zenon
  <2> QED BY <1>6, <2>1, <2>2, <2>3, <2>4, <2>5, <2>6 DEF Execute
<1>7. ASSUME ins.op \in ACCUMULATOR PROVE Execute(s, p, opcode, ins) = OnAccumulator(s, p, opcode, ins)
  <2>1. ins.op \notin LOAD8
    BY <1>0, <1>7, LOAD8Only, Zenon
  <2>2. ins.op \notin LOAD16
    BY <1>0, <1>7, LOAD16Only, Zenon
  <2>3. ins.op \notin EXCHANGE
    BY <1>0, <1>7, EXCHANGEOnly, Zenon
  <2>4. ins.op \notin BLOCK_ONCE
    BY <1>0, <1>7, BLOCK_ONCEOnly, Zenon
  <2>5. ins.op \notin ARITH8
    BY <1>0, <1>7, ALUOnly, Zenon
  <2>6. ins.op \notin INC_DEC
    BY <1>0, <1>7, INC_DECOnly, Zenon
  <2>7. /\ ins.op \notin ARITH16 /\ ins.op \notin SHIFTS /\ ins.op \notin BITS /\ ins.op \notin {"RLD_RRD"}
        /\ ins.op \notin JUMP /\ ins.op \notin CALL_RETURN /\ ins.op \notin INTERRUPTS /\ ins.op \notin {"IM_N"}
        /\ ins.op \notin NOTHING
    BY <1>0, <1>7, ACCUMULATOROnly, Zenon
  <2> QED BY <1>7, <2>1, <2>2, <2>3, <2>4, <2>5, <2>6, <2>7 DEF Execute
<1>8. ASSUME ins.op \in ARITH16 PROVE Execute(s, p, opcode, ins) = Arith16(s, p, opcode, ins)
  <2>1. ins.op \notin LOAD8
    BY <1>0, <1>8, LOAD8Only, Zenon
  <2>2. ins.op \notin LOAD16
    BY <1>0, <1>8, LOAD16Only, Zenon
  <2>3. ins.op \notin EXCHANGE
    BY <1>0, <1>8, EXCHANGEOnly, Zenon
  <2>4. ins.op \notin BLOCK_ONCE
    BY <1>0, <1>8, BLOCK_ONCEOnly, Zenon
  <2>5. ins.op \notin ARITH8
    BY <1>0, <1>8, ALUOnly, Zenon
  <2>6. ins.op \notin INC_DEC
    BY <1>0, <1>8, INC_DECOnly, Zenon
  <2>7. ins.op \notin ACCUMULATOR
    BY <1>0, <1>8, ACCUMULATOROnly, Zenon
  <2>8. /\ ins.op \notin SHIFTS /\ ins.op \notin BITS /\ ins.op \notin {"RLD_RRD"} /\ ins.op \notin JUMP
        /\ ins.op \notin CALL_RETURN /\ ins.op \notin INTERRUPTS /\ ins.op \notin {"IM_N"} /\ ins.op \notin NOTHING
    BY <1>0, <1>8, ARITH16Only, Zenon
  <2> QED BY <1>8, <2>1, <2>2, <2>3, <2>4, <2>5, <2>6, <2>7, <2>8 DEF Execute
<1>9. ASSUME ins.op \in SHIFTS PROVE Execute(s, p, opcode, ins) = ShiftOne(s, p, opcode, ins)
  <2>1. ins.op \notin LOAD8
    BY <1>0, <1>9, LOAD8Only, Zenon
  <2>2. ins.op \notin LOAD16
    BY <1>0, <1>9, LOAD16Only, Zenon
  <2>3. ins.op \notin EXCHANGE
    BY <1>0, <1>9, EXCHANGEOnly, Zenon
  <2>4. ins.op \notin BLOCK_ONCE
    BY <1>0, <1>9, BLOCK_ONCEOnly, Zenon
  <2>5. ins.op \notin ARITH8
    BY <1>0, <1>9, ALUOnly, Zenon
  <2>6. ins.op \notin INC_DEC
    BY <1>0, <1>9, INC_DECOnly, Zenon
  <2>7. ins.op \notin ACCUMULATOR
    BY <1>0, <1>9, ACCUMULATOROnly, Zenon
  <2>8. ins.op \notin ARITH16
    BY <1>0, <1>9, ARITH16Only, Zenon
  <2>9. /\ ins.op \notin BITS /\ ins.op \notin {"RLD_RRD"} /\ ins.op \notin JUMP /\ ins.op \notin CALL_RETURN
        /\ ins.op \notin INTERRUPTS /\ ins.op \notin {"IM_N"} /\ ins.op \notin NOTHING
    BY <1>0, <1>9, ROTATEOnly, Zenon
  <2> QED BY <1>9, <2>1, <2>2, <2>3, <2>4, <2>5, <2>6, <2>7, <2>8, <2>9 DEF Execute
<1>10. ASSUME ins.op \in BITS PROVE Execute(s, p, opcode, ins) = OneBit(s, p, opcode, ins)
  <2>1. ins.op \notin LOAD8
    BY <1>0, <1>10, LOAD8Only, Zenon
  <2>2. ins.op \notin LOAD16
    BY <1>0, <1>10, LOAD16Only, Zenon
  <2>3. ins.op \notin EXCHANGE
    BY <1>0, <1>10, EXCHANGEOnly, Zenon
  <2>4. ins.op \notin BLOCK_ONCE
    BY <1>0, <1>10, BLOCK_ONCEOnly, Zenon
  <2>5. ins.op \notin ARITH8
    BY <1>0, <1>10, ALUOnly, Zenon
  <2>6. ins.op \notin INC_DEC
    BY <1>0, <1>10, INC_DECOnly, Zenon
  <2>7. ins.op \notin ACCUMULATOR
    BY <1>0, <1>10, ACCUMULATOROnly, Zenon
  <2>8. ins.op \notin ARITH16
    BY <1>0, <1>10, ARITH16Only, Zenon
  <2>9. ins.op \notin SHIFTS
    BY <1>0, <1>10, ROTATEOnly, Zenon
  <2>10. /\ ins.op \notin {"RLD_RRD"} /\ ins.op \notin JUMP /\ ins.op \notin CALL_RETURN /\ ins.op \notin INTERRUPTS
        /\ ins.op \notin {"IM_N"} /\ ins.op \notin NOTHING
    BY <1>0, <1>10, BITSOnly, Zenon
  <2> QED BY <1>10, <2>1, <2>2, <2>3, <2>4, <2>5, <2>6, <2>7, <2>8, <2>9, <2>10 DEF Execute
<1>11. ASSUME ins.op \in {"RLD_RRD"} PROVE Execute(s, p, opcode, ins) = RotateDigit(s, p, opcode, ins)
  <2>1. ins.op \notin LOAD8
    BY <1>0, <1>11, LOAD8Only, Zenon
  <2>2. ins.op \notin LOAD16
    BY <1>0, <1>11, LOAD16Only, Zenon
  <2>3. ins.op \notin EXCHANGE
    BY <1>0, <1>11, EXCHANGEOnly, Zenon
  <2>4. ins.op \notin BLOCK_ONCE
    BY <1>0, <1>11, BLOCK_ONCEOnly, Zenon
  <2>5. ins.op \notin ARITH8
    BY <1>0, <1>11, ALUOnly, Zenon
  <2>6. ins.op \notin INC_DEC
    BY <1>0, <1>11, INC_DECOnly, Zenon
  <2>7. ins.op \notin ACCUMULATOR
    BY <1>0, <1>11, ACCUMULATOROnly, Zenon
  <2>8. ins.op \notin ARITH16
    BY <1>0, <1>11, ARITH16Only, Zenon
  <2>9. ins.op \notin SHIFTS
    BY <1>0, <1>11, ROTATEOnly, Zenon
  <2>10. ins.op \notin BITS
    BY <1>0, <1>11, BITSOnly, Zenon
  <2>11. /\ ins.op \notin JUMP /\ ins.op \notin CALL_RETURN /\ ins.op \notin INTERRUPTS /\ ins.op \notin {"IM_N"}
        /\ ins.op \notin NOTHING
    BY <1>0, <1>11, DIGITOnly, Zenon
  <2> QED BY <1>11, <2>1, <2>2, <2>3, <2>4, <2>5, <2>6, <2>7, <2>8, <2>9, <2>10, <2>11 DEF Execute
<1>12. ASSUME ins.op \in JUMP PROVE Execute(s, p, opcode, ins) = JumpGroup(s, p, opcode, ins)
  <2>1. ins.op \notin LOAD8
    BY <1>0, <1>12, LOAD8Only, Zenon
  <2>2. ins.op \notin LOAD16
    BY <1>0, <1>12, LOAD16Only, Zenon
  <2>3. ins.op \notin EXCHANGE
    BY <1>0, <1>12, EXCHANGEOnly, Zenon
  <2>4. ins.op \notin BLOCK_ONCE
    BY <1>0, <1>12, BLOCK_ONCEOnly, Zenon
  <2>5. ins.op \notin ARITH8
    BY <1>0, <1>12, ALUOnly, Zenon
  <2>6. ins.op \notin INC_DEC
    BY <1>0, <1>12, INC_DECOnly, Zenon
  <2>7. ins.op \notin ACCUMULATOR
    BY <1>0, <1>12, ACCUMULATOROnly, Zenon
  <2>8. ins.op \notin ARITH16
    BY <1>0, <1>12, ARITH16Only, Zenon
  <2>9. ins.op \notin SHIFTS
    BY <1>0, <1>12, ROTATEOnly, Zenon
  <2>10. ins.op \notin BITS
    BY <1>0, <1>12, BITSOnly, Zenon
  <2>11. ins.op \notin {"RLD_RRD"}
    BY <1>0, <1>12, DIGITOnly, Zenon
  <2>12. ins.op \notin CALL_RETURN /\ ins.op \notin INTERRUPTS /\ ins.op \notin {"IM_N"} /\ ins.op \notin NOTHING
    BY <1>0, <1>12, JUMPOnly, Zenon
  <2> QED BY <1>12, <2>1, <2>2, <2>3, <2>4, <2>5, <2>6, <2>7, <2>8, <2>9, <2>10, <2>11, <2>12 DEF Execute
<1>13. ASSUME ins.op \in CALL_RETURN PROVE Execute(s, p, opcode, ins) = CallReturn(s, p, opcode, ins)
  <2>1. ins.op \notin LOAD8
    BY <1>0, <1>13, LOAD8Only, Zenon
  <2>2. ins.op \notin LOAD16
    BY <1>0, <1>13, LOAD16Only, Zenon
  <2>3. ins.op \notin EXCHANGE
    BY <1>0, <1>13, EXCHANGEOnly, Zenon
  <2>4. ins.op \notin BLOCK_ONCE
    BY <1>0, <1>13, BLOCK_ONCEOnly, Zenon
  <2>5. ins.op \notin ARITH8
    BY <1>0, <1>13, ALUOnly, Zenon
  <2>6. ins.op \notin INC_DEC
    BY <1>0, <1>13, INC_DECOnly, Zenon
  <2>7. ins.op \notin ACCUMULATOR
    BY <1>0, <1>13, ACCUMULATOROnly, Zenon
  <2>8. ins.op \notin ARITH16
    BY <1>0, <1>13, ARITH16Only, Zenon
  <2>9. ins.op \notin SHIFTS
    BY <1>0, <1>13, ROTATEOnly, Zenon
  <2>10. ins.op \notin BITS
    BY <1>0, <1>13, BITSOnly, Zenon
  <2>11. ins.op \notin {"RLD_RRD"}
    BY <1>0, <1>13, DIGITOnly, Zenon
  <2>12. ins.op \notin JUMP
    BY <1>0, <1>13, JUMPOnly, Zenon
  <2>13. ins.op \notin INTERRUPTS /\ ins.op \notin {"IM_N"} /\ ins.op \notin NOTHING
    BY <1>0, <1>13, CALL_RETURNOnly, Zenon
  <2> QED BY <1>13, <2>1, <2>2, <2>3, <2>4, <2>5, <2>6, <2>7, <2>8, <2>9, <2>10, <2>11, <2>12, <2>13 DEF Execute
<1>14. ASSUME ins.op \in INTERRUPTS PROVE Execute(s, p, opcode, ins) = SetInterrupts(s, ins)
  <2>1. ins.op \notin LOAD8
    BY <1>0, <1>14, LOAD8Only, Zenon
  <2>2. ins.op \notin LOAD16
    BY <1>0, <1>14, LOAD16Only, Zenon
  <2>3. ins.op \notin EXCHANGE
    BY <1>0, <1>14, EXCHANGEOnly, Zenon
  <2>4. ins.op \notin BLOCK_ONCE
    BY <1>0, <1>14, BLOCK_ONCEOnly, Zenon
  <2>5. ins.op \notin ARITH8
    BY <1>0, <1>14, ALUOnly, Zenon
  <2>6. ins.op \notin INC_DEC
    BY <1>0, <1>14, INC_DECOnly, Zenon
  <2>7. ins.op \notin ACCUMULATOR
    BY <1>0, <1>14, ACCUMULATOROnly, Zenon
  <2>8. ins.op \notin ARITH16
    BY <1>0, <1>14, ARITH16Only, Zenon
  <2>9. ins.op \notin SHIFTS
    BY <1>0, <1>14, ROTATEOnly, Zenon
  <2>10. ins.op \notin BITS
    BY <1>0, <1>14, BITSOnly, Zenon
  <2>11. ins.op \notin {"RLD_RRD"}
    BY <1>0, <1>14, DIGITOnly, Zenon
  <2>12. ins.op \notin JUMP
    BY <1>0, <1>14, JUMPOnly, Zenon
  <2>13. ins.op \notin CALL_RETURN
    BY <1>0, <1>14, CALL_RETURNOnly, Zenon
  <2>14. ins.op \notin {"IM_N"} /\ ins.op \notin NOTHING
    BY <1>0, <1>14, INTERRUPTSOnly, Zenon
  <2> QED BY <1>14, <2>1, <2>2, <2>3, <2>4, <2>5, <2>6, <2>7, <2>8, <2>9, <2>10, <2>11, <2>12, <2>13, <2>14 DEF Execute
<1>15. ASSUME ins.op \in {"IM_N"} PROVE Execute(s, p, opcode, ins) = SetMode(s, opcode)
  <2>1. ins.op \notin LOAD8
    BY <1>0, <1>15, LOAD8Only, Zenon
  <2>2. ins.op \notin LOAD16
    BY <1>0, <1>15, LOAD16Only, Zenon
  <2>3. ins.op \notin EXCHANGE
    BY <1>0, <1>15, EXCHANGEOnly, Zenon
  <2>4. ins.op \notin BLOCK_ONCE
    BY <1>0, <1>15, BLOCK_ONCEOnly, Zenon
  <2>5. ins.op \notin ARITH8
    BY <1>0, <1>15, ALUOnly, Zenon
  <2>6. ins.op \notin INC_DEC
    BY <1>0, <1>15, INC_DECOnly, Zenon
  <2>7. ins.op \notin ACCUMULATOR
    BY <1>0, <1>15, ACCUMULATOROnly, Zenon
  <2>8. ins.op \notin ARITH16
    BY <1>0, <1>15, ARITH16Only, Zenon
  <2>9. ins.op \notin SHIFTS
    BY <1>0, <1>15, ROTATEOnly, Zenon
  <2>10. ins.op \notin BITS
    BY <1>0, <1>15, BITSOnly, Zenon
  <2>11. ins.op \notin {"RLD_RRD"}
    BY <1>0, <1>15, DIGITOnly, Zenon
  <2>12. ins.op \notin JUMP
    BY <1>0, <1>15, JUMPOnly, Zenon
  <2>13. ins.op \notin CALL_RETURN
    BY <1>0, <1>15, CALL_RETURNOnly, Zenon
  <2>14. ins.op \notin INTERRUPTS
    BY <1>0, <1>15, INTERRUPTSOnly, Zenon
  <2>15. ins.op \notin NOTHING
    BY <1>0, <1>15, MODEOnly, Zenon
  <2> QED BY <1>15, <2>1, <2>2, <2>3, <2>4, <2>5, <2>6, <2>7, <2>8, <2>9, <2>10, <2>11, <2>12, <2>13, <2>14, <2>15 DEF Execute
<1>16. ASSUME ins.op \in NOTHING PROVE Execute(s, p, opcode, ins) = s
  <2>1. ins.op \notin LOAD8
    BY <1>0, <1>16, LOAD8Only, Zenon
  <2>2. ins.op \notin LOAD16
    BY <1>0, <1>16, LOAD16Only, Zenon
  <2>3. ins.op \notin EXCHANGE
    BY <1>0, <1>16, EXCHANGEOnly, Zenon
  <2>4. ins.op \notin BLOCK_ONCE
    BY <1>0, <1>16, BLOCK_ONCEOnly, Zenon
  <2>5. ins.op \notin ARITH8
    BY <1>0, <1>16, ALUOnly, Zenon
  <2>6. ins.op \notin INC_DEC
    BY <1>0, <1>16, INC_DECOnly, Zenon
  <2>7. ins.op \notin ACCUMULATOR
    BY <1>0, <1>16, ACCUMULATOROnly, Zenon
  <2>8. ins.op \notin ARITH16
    BY <1>0, <1>16, ARITH16Only, Zenon
  <2>9. ins.op \notin SHIFTS
    BY <1>0, <1>16, ROTATEOnly, Zenon
  <2>10. ins.op \notin BITS
    BY <1>0, <1>16, BITSOnly, Zenon
  <2>11. ins.op \notin {"RLD_RRD"}
    BY <1>0, <1>16, DIGITOnly, Zenon
  <2>12. ins.op \notin JUMP
    BY <1>0, <1>16, JUMPOnly, Zenon
  <2>13. ins.op \notin CALL_RETURN
    BY <1>0, <1>16, CALL_RETURNOnly, Zenon
  <2>14. ins.op \notin INTERRUPTS
    BY <1>0, <1>16, INTERRUPTSOnly, Zenon
  <2>15. ins.op \notin {"IM_N"}
    BY <1>0, <1>16, MODEOnly, Zenon
  <2> QED BY <1>16, <2>1, <2>2, <2>3, <2>4, <2>5, <2>6, <2>7, <2>8, <2>9, <2>10, <2>11, <2>12, <2>13, <2>14, <2>15 DEF Execute
<1> QED BY <1>1, <1>2, <1>3, <1>4, <1>5, <1>6, <1>7, <1>8, <1>9, <1>10, <1>11, <1>12, <1>13, <1>14, <1>15, <1>16

\* A group of instructions executes the one that has been read.
Executes ==
  /\ phase = "execute"
  /\ cur.ins.op \notin UNION {PREFIXES, REPEATED, PORTS, {"HALT"}}
  /\ \E budget : Finish(Execute(cpu, cur.p, cur.opcode, cur.ins), budget)

LEMMA GroupExecutes == ASSUME Group \/ InterruptGroup PROVE Executes
<1>1. CASE LoadGroup
  <2>1. phase = "execute" /\ cur.ins.op \in LOAD8 /\ \E budget : Finish(Load8(cpu, cur.p, cur.opcode, cur.ins), budget)
    BY <1>1 DEF LoadGroup, Executing, Do
  <2>2. cur.ins.op \notin UNION {PREFIXES, REPEATED, PORTS, {"HALT"}}
    BY <2>1, LOAD8Only
  <2>3. Execute(cpu, cur.p, cur.opcode, cur.ins) = Load8(cpu, cur.p, cur.opcode, cur.ins)
    BY <2>1, GroupOf
  <2> QED BY <2>1, <2>2, <2>3 DEF Executes
<1>2. CASE LoadWordGroup
  <2>1. phase = "execute" /\ cur.ins.op \in LOAD16 /\ \E budget : Finish(Load16(cpu, cur.p, cur.opcode, cur.ins), budget)
    BY <1>2 DEF LoadWordGroup, Executing, Do
  <2>2. cur.ins.op \notin UNION {PREFIXES, REPEATED, PORTS, {"HALT"}}
    BY <2>1, LOAD16Only
  <2>3. Execute(cpu, cur.p, cur.opcode, cur.ins) = Load16(cpu, cur.p, cur.opcode, cur.ins)
    BY <2>1, GroupOf
  <2> QED BY <2>1, <2>2, <2>3 DEF Executes
<1>3. CASE ExchangeGroup
  <2>1. phase = "execute" /\ cur.ins.op \in EXCHANGE /\ \E budget : Finish(Exchange(cpu, cur.p, cur.opcode, cur.ins), budget)
    BY <1>3 DEF ExchangeGroup, Executing, Do
  <2>2. cur.ins.op \notin UNION {PREFIXES, REPEATED, PORTS, {"HALT"}}
    BY <2>1, EXCHANGEOnly
  <2>3. Execute(cpu, cur.p, cur.opcode, cur.ins) = Exchange(cpu, cur.p, cur.opcode, cur.ins)
    BY <2>1, GroupOf
  <2> QED BY <2>1, <2>2, <2>3 DEF Executes
<1>4. CASE BlockGroup
  <2>1. phase = "execute" /\ cur.ins.op \in BLOCK_ONCE /\ \E budget : Finish(BlockOnce(cpu, cur.p, cur.opcode, cur.ins), budget)
    BY <1>4 DEF BlockGroup, Executing, Do
  <2>2. cur.ins.op \notin UNION {PREFIXES, REPEATED, PORTS, {"HALT"}}
    BY <2>1, BLOCK_ONCEOnly
  <2>3. Execute(cpu, cur.p, cur.opcode, cur.ins) = BlockOnce(cpu, cur.p, cur.opcode, cur.ins)
    BY <2>1, GroupOf
  <2> QED BY <2>1, <2>2, <2>3 DEF Executes
<1>5. CASE ArithmeticGroup
  <2>1. phase = "execute" /\ cur.ins.op \in ARITH8 /\ \E budget : Finish(Arith8(cpu, cur.p, cur.opcode, cur.ins), budget)
    BY <1>5 DEF ArithmeticGroup, Executing, Do
  <2>2. cur.ins.op \notin UNION {PREFIXES, REPEATED, PORTS, {"HALT"}}
    BY <2>1, ALUOnly, AluIs
  <2>3. Execute(cpu, cur.p, cur.opcode, cur.ins) = Arith8(cpu, cur.p, cur.opcode, cur.ins)
    BY <2>1, GroupOf
  <2> QED BY <2>1, <2>2, <2>3 DEF Executes
<1>6. CASE IncrementGroup
  <2>1. phase = "execute" /\ cur.ins.op \in INC_DEC /\ \E budget : Finish(IncDec(cpu, cur.p, cur.opcode, cur.ins), budget)
    BY <1>6 DEF IncrementGroup, Executing, Do
  <2>2. cur.ins.op \notin UNION {PREFIXES, REPEATED, PORTS, {"HALT"}}
    BY <2>1, INC_DECOnly
  <2>3. Execute(cpu, cur.p, cur.opcode, cur.ins) = IncDec(cpu, cur.p, cur.opcode, cur.ins)
    BY <2>1, GroupOf
  <2> QED BY <2>1, <2>2, <2>3 DEF Executes
<1>7. CASE AccumulatorGroup
  <2>1. phase = "execute" /\ cur.ins.op \in ACCUMULATOR /\ \E budget : Finish(OnAccumulator(cpu, cur.p, cur.opcode, cur.ins), budget)
    BY <1>7 DEF AccumulatorGroup, Executing, Do
  <2>2. cur.ins.op \notin UNION {PREFIXES, REPEATED, PORTS, {"HALT"}}
    BY <2>1, ACCUMULATOROnly
  <2>3. Execute(cpu, cur.p, cur.opcode, cur.ins) = OnAccumulator(cpu, cur.p, cur.opcode, cur.ins)
    BY <2>1, GroupOf
  <2> QED BY <2>1, <2>2, <2>3 DEF Executes
<1>8. CASE WordGroup
  <2>1. phase = "execute" /\ cur.ins.op \in ARITH16 /\ \E budget : Finish(Arith16(cpu, cur.p, cur.opcode, cur.ins), budget)
    BY <1>8 DEF WordGroup, Executing, Do
  <2>2. cur.ins.op \notin UNION {PREFIXES, REPEATED, PORTS, {"HALT"}}
    BY <2>1, ARITH16Only
  <2>3. Execute(cpu, cur.p, cur.opcode, cur.ins) = Arith16(cpu, cur.p, cur.opcode, cur.ins)
    BY <2>1, GroupOf
  <2> QED BY <2>1, <2>2, <2>3 DEF Executes
<1>9. CASE ShiftGroup
  <2>1. phase = "execute" /\ cur.ins.op \in SHIFTS /\ \E budget : Finish(ShiftOne(cpu, cur.p, cur.opcode, cur.ins), budget)
    BY <1>9 DEF ShiftGroup, Executing, Do
  <2>2. cur.ins.op \notin UNION {PREFIXES, REPEATED, PORTS, {"HALT"}}
    BY <2>1, ROTATEOnly, ShiftsAre
  <2>3. Execute(cpu, cur.p, cur.opcode, cur.ins) = ShiftOne(cpu, cur.p, cur.opcode, cur.ins)
    BY <2>1, GroupOf
  <2> QED BY <2>1, <2>2, <2>3 DEF Executes
<1>10. CASE BitGroup
  <2>1. phase = "execute" /\ cur.ins.op \in BITS /\ \E budget : Finish(OneBit(cpu, cur.p, cur.opcode, cur.ins), budget)
    BY <1>10 DEF BitGroup, Executing, Do
  <2>2. cur.ins.op \notin UNION {PREFIXES, REPEATED, PORTS, {"HALT"}}
    BY <2>1, BITSOnly
  <2>3. Execute(cpu, cur.p, cur.opcode, cur.ins) = OneBit(cpu, cur.p, cur.opcode, cur.ins)
    BY <2>1, GroupOf
  <2> QED BY <2>1, <2>2, <2>3 DEF Executes
<1>11. CASE DigitGroup
  <2>1. phase = "execute" /\ cur.ins.op \in {"RLD_RRD"} /\ \E budget : Finish(RotateDigit(cpu, cur.p, cur.opcode, cur.ins), budget)
    BY <1>11 DEF DigitGroup, Executing, Do
  <2>2. cur.ins.op \notin UNION {PREFIXES, REPEATED, PORTS, {"HALT"}}
    BY <2>1, DIGITOnly
  <2>3. Execute(cpu, cur.p, cur.opcode, cur.ins) = RotateDigit(cpu, cur.p, cur.opcode, cur.ins)
    BY <2>1, GroupOf
  <2> QED BY <2>1, <2>2, <2>3 DEF Executes
<1>12. CASE Jumps
  <2>1. phase = "execute" /\ cur.ins.op \in JUMP /\ \E budget : Finish(JumpGroup(cpu, cur.p, cur.opcode, cur.ins), budget)
    BY <1>12 DEF Jumps, Executing, Do
  <2>2. cur.ins.op \notin UNION {PREFIXES, REPEATED, PORTS, {"HALT"}}
    BY <2>1, JUMPOnly
  <2>3. Execute(cpu, cur.p, cur.opcode, cur.ins) = JumpGroup(cpu, cur.p, cur.opcode, cur.ins)
    BY <2>1, GroupOf
  <2> QED BY <2>1, <2>2, <2>3 DEF Executes
<1>13. CASE CallsAndReturns
  <2>1. phase = "execute" /\ cur.ins.op \in CALL_RETURN /\ \E budget : Finish(CallReturn(cpu, cur.p, cur.opcode, cur.ins), budget)
    BY <1>13 DEF CallsAndReturns, Executing, Do
  <2>2. cur.ins.op \notin UNION {PREFIXES, REPEATED, PORTS, {"HALT"}}
    BY <2>1, CALL_RETURNOnly
  <2>3. Execute(cpu, cur.p, cur.opcode, cur.ins) = CallReturn(cpu, cur.p, cur.opcode, cur.ins)
    BY <2>1, GroupOf
  <2> QED BY <2>1, <2>2, <2>3 DEF Executes
<1>14. CASE InterruptGroup
  <2>1. phase = "execute" /\ cur.ins.op \in INTERRUPTS /\ \E budget : Finish(SetInterrupts(cpu, cur.ins), budget)
    BY <1>14 DEF InterruptGroup, Executing
  <2>2. cur.ins.op \notin UNION {PREFIXES, REPEATED, PORTS, {"HALT"}}
    BY <2>1, INTERRUPTSOnly
  <2>3. Execute(cpu, cur.p, cur.opcode, cur.ins) = SetInterrupts(cpu, cur.ins)
    BY <2>1, GroupOf
  <2> QED BY <2>1, <2>2, <2>3 DEF Executes
<1>15. CASE ModeGroup
  <2>1. phase = "execute" /\ cur.ins.op \in {"IM_N"} /\ \E budget : Finish(SetMode(cpu, cur.opcode), budget)
    BY <1>15 DEF ModeGroup, Executing, Do
  <2>2. cur.ins.op \notin UNION {PREFIXES, REPEATED, PORTS, {"HALT"}}
    BY <2>1, MODEOnly
  <2>3. Execute(cpu, cur.p, cur.opcode, cur.ins) = SetMode(cpu, cur.opcode)
    BY <2>1, GroupOf
  <2> QED BY <2>1, <2>2, <2>3 DEF Executes
<1>16. CASE Nothing
  <2>1. phase = "execute" /\ cur.ins.op \in NOTHING /\ \E budget : Finish(cpu, budget)
    BY <1>16 DEF Nothing, Executing, Do
  <2>2. cur.ins.op \notin UNION {PREFIXES, REPEATED, PORTS, {"HALT"}}
    BY <2>1, NOTHINGOnly
  <2>3. Execute(cpu, cur.p, cur.opcode, cur.ins) = cpu
    BY <2>1, GroupOf
  <2> QED BY <2>1, <2>2, <2>3 DEF Executes
<1> QED BY <1>1, <1>2, <1>3, <1>4, <1>5, <1>6, <1>7, <1>8, <1>9, <1>10, <1>11, <1>12, <1>13, <1>14, <1>15, <1>16 DEF Group

LEMMA GroupImplements == ASSUME Sound, Fetched, Group \/ InterruptGroup PROVE Machine!Instruction
<1>1. Executes
  BY GroupExecutes
<1>2. PICK budget : Finish(Execute(cpu, cur.p, cur.opcode, cur.ins), budget)
  BY <1>1 DEF Executes
<1> QED BY <1>1, <1>2, Instructs DEF Executes

-----------------------------------------------------------------------------
(* The host's calls.                                                       *)

MachineStep == Machine!Next \/ GoesOn \/ UNCHANGED <<Processor, Shadow, Bus, Halted>>

\* When the processor is halted: the host has control, and HALT came last.
LEMMA HaltedIs ==
  /\ phase \notin {"host", "gave_up"} \/ last # "HALT" => Halted = FALSE
  /\ phase \in {"host", "gave_up"} /\ last = "HALT" => Halted = TRUE
  /\ phase' \notin {"host", "gave_up"} \/ last' # "HALT" => Halted' = FALSE
  /\ phase' \in {"host", "gave_up"} /\ last' = "HALT" => Halted' = TRUE
BY DEF Halted

\* Instructions neither begin nor end in it.
LEMMA InstructionSteps ==
  ASSUME phase \notin {"host", "gave_up"}, phase' \notin {"host", "gave_up"} \/ last' # "HALT",
         Machine!Instruction
  PROVE  MachineStep
<1>1. Halted = FALSE /\ Halted' = FALSE
  BY HaltedIs
<1> QED BY <1>1 DEF MachineStep, Machine!Next, Machine!Execution

\* Nor does what is read before an instruction, and a port.
LEMMA ReadingSteps ==
  ASSUME phase \notin {"host", "gave_up"}, phase' \notin {"host", "gave_up"},
         UNCHANGED <<Processor, Shadow, Bus>>
  PROVE  MachineStep
<1>1. Halted = FALSE /\ Halted' = FALSE
  BY HaltedIs
<1> QED BY <1>1 DEF MachineStep

\* The host has not got control between DI or EI and the instruction behind it.
Shadowed == phase = "host" => last \notin INTERRUPTS

LEMMA AtHost ==
  ASSUME Shadowed, phase = "host"
  PROVE  Processor = cpu /\ Bus = NoOpcode /\ Shadow = FALSE /\ Shadow = (last \in INTERRUPTS)
<1>1. Processor = cpu /\ Bus = NoOpcode /\ Shadow = (last \in INTERRUPTS)
  BY Outside DEF Between
<1>2. (last \in INTERRUPTS) = FALSE
  BY DEF Shadowed
<1> QED BY <1>1, <1>2

\* The push of an interrupt costs 6 cycles, which the code counts as a part of all it takes.
LEMMA PushCosts ==
  ASSUME NEW s \in Cpu, NEW target \in Int, NEW n \in Nat
  PROVE  Cycles(Jump(PUSH(s, s.pc), target), n) = Cycles(Jump(Pushed(s), target), 6 + n)
<1> DEFINE w  == Pushed(s)
           pc == target % 65536
           k  == 6 + n
<1>1. w \in Cpu /\ PUSH(s, s.pc) = Cycles(w, 6)
  BY PushedOK DEF Pushed, PUSH, StoreW
<1>2. w.cycles \in Int /\ pc \in Word /\ w.cycles + 6 \in Nat /\ w.cycles + 6 + n = w.cycles + k
  BY <1>1, FieldsAre, InWord
<1>11. pc = target % 65536
  OBVIOUS
<1> HIDE DEF w, pc, k
<1>3. Cycles(w, 6) = At(w, w.pc, w.cycles + 6, w.r) /\ Cycles(w, 6) \in Cpu
  BY <1>1, StepsAre, CyclesOK
<1> DEFINE u == Cycles(w, 6)
<1>4. u \in Cpu /\ u.cycles = w.cycles + 6 /\ u.r = w.r
  BY <1>3, AtFields
<1> HIDE DEF u
<1>5. Jump(u, target) = At(w, pc, w.cycles + 6, w.r) /\ Jump(u, target) \in Cpu
  <2>1. Jump(u, target) = At(u, pc, u.cycles, u.r) /\ Jump(u, target) \in Cpu
    BY <1>4, <1>11, JumpIs
  <2>2. u = At(w, w.pc, w.cycles + 6, w.r)
    BY <1>3 DEF u
  <2>3. Jump(u, target) = At(u, pc, w.cycles + 6, w.r)
    BY <1>4, <2>1
  <2> QED BY <2>1, <2>2, <2>3, AtAgain
<1> DEFINE v == Jump(u, target)
<1>6. v \in Cpu /\ v.pc = pc /\ v.cycles = w.cycles + 6 /\ v.r = w.r
  BY <1>5, AtFields
<1> HIDE DEF v
<1>7. Cycles(v, n) = At(w, pc, w.cycles + k, w.r)
  <2>1. Cycles(v, n) = At(v, pc, w.cycles + 6 + n, w.r)
    BY <1>6, StepsAre
  <2>2. v = At(w, pc, w.cycles + 6, w.r)
    BY <1>5 DEF v
  <2> QED BY <1>2, <2>1, <2>2, AtAgain
<1>8. Cycles(Jump(w, target), k) = At(w, pc, w.cycles + k, w.r)
  <2> DEFINE x == Jump(w, target)
  <2>1. x = At(w, pc, w.cycles, w.r) /\ x \in Cpu
    BY <1>1, <1>11, JumpIs
  <2>2. x.pc = pc /\ x.cycles = w.cycles /\ x.r = w.r
    BY <2>1, AtFields
  <2> HIDE DEF x
  <2>3. Cycles(x, k) = At(x, pc, w.cycles + k, w.r)
    BY <2>1, <2>2, StepsAre
  <2>4. Cycles(x, k) = At(w, pc, w.cycles + k, w.r)
    BY <2>1, <2>3, AtAgain
  <2> QED BY <2>4 DEF x
<1>9. Cycles(Jump(PUSH(s, s.pc), target), n) = Cycles(v, n)
  BY <1>1 DEF v, u
<1> QED BY <1>7, <1>8, <1>9 DEF w, k

LEMMA RefreshedPc == ASSUME NEW s \in Cpu PROVE Refreshed(s).pc = s.pc /\ Refreshed(s) \in Cpu
<1>1. Refreshed(s) = At(s, s.pc, s.cycles, Fresh(s.r, 1))
  BY StepsAre
<1> QED BY <1>1, AtFields, RefreshedOK

LEMMA InterruptedPc ==
  ASSUME NEW s \in Cpu
  PROVE  [s EXCEPT !.iff1 = 0, !.iff2 = 0].pc = s.pc /\ [s EXCEPT !.iff2 = s.iff1, !.iff1 = 0].pc = s.pc
BY DEF Cpu

LEMMA InterruptImplements ==
  ASSUME Sound, Shadowed, InterruptsKnown, NEW c \in calls, Z80Interrupt(c.arg)
  PROVE  Machine!Interrupt(c.arg) /\ c.arg \in Byte
<1> DEFINE data == c.arg
           s == Refreshed([cpu EXCEPT !.iff1 = 0, !.iff2 = 0])
<1>1. phase = "host" /\ INTERRUPT(data) \in calls /\ cpu.iff1 = 1 /\ last' = "NOP"
  BY DEF Z80Interrupt, MayCall
<1>2. cpu.im # 2
  BY <1>1 DEF InterruptsKnown, INTERRUPT
<1>3. Processor = cpu /\ Bus = NoOpcode /\ Shadow = FALSE
  BY <1>1, AtHost
<1>4. Machine!Accepted = s
  BY <1>3 DEF Machine!Accepted
<1>5. cpu \in Cpu /\ s \in Cpu /\ s.pc = cpu.pc
  <2>1. cpu \in Cpu
    BY DEF Sound, Shapes
  <2> QED BY <2>1, InterruptedOK, InterruptedPc, RefreshedPc
<1>6. data \in Byte
  <2>1. INTERRUPT(data) \in HostCalls
    BY <1>1 DEF Sound, Shapes
  <2> QED BY <2>1, CallsAre DEF INTERRUPT
<1>7. Shadow' = FALSE
  BY <1>1 DEF Shadow, INTERRUPTS
<1> HIDE DEF s
<1>8. CASE InterruptMode0(data)
  <2>1. /\ cpu.im = 0 /\ cpu' = Counted(s) /\ phase' = "execute"
        /\ begun' = [pc |-> s.pc, r |-> s.r, cycles |-> s.cycles, bus |-> data]
    BY <1>8 DEF InterruptMode0, s
  <2>2. Bus' = data
    BY <2>1 DEF Bus, Between, Midway
  <2>3. Processor' = Rewind(Counted(s), s.pc, s.cycles, s.r)
    BY <2>1 DEF Processor, Between, Midway, Before, Rewind
  <2>4. Processor' = s
    BY <1>5, <2>3, CountedIs, CountedOK, Rewound
  <2> QED BY <1>1, <1>3, <1>4, <1>6, <1>7, <2>1, <2>2, <2>4 DEF Machine!Interrupt, Machine!NoOpcode, NoOpcode
<1>9. CASE InterruptMode1
  <2>1. cpu.im = 1 /\ cpu' = Cycles(Jump(Pushed(s), 56), 13) /\ phase' = phase
    BY <1>9 DEF InterruptMode1, s
  <2>2. Processor' = cpu' /\ Bus' = Bus
    BY <1>1, <1>3, <2>1 DEF Processor, Bus, Between, Midway
  <2>3. Cycles(Jump(PUSH(s, s.pc), 56), 13 - 6) = cpu'
    BY <1>5, <2>1, PushCosts
  <2> QED BY <1>1, <1>3, <1>4, <1>5, <1>6, <1>7, <2>1, <2>2, <2>3 DEF Machine!Interrupt, Machine!NoOpcode, NoOpcode
<1> QED BY <1>2, <1>8, <1>9 DEF Z80Interrupt, InterruptMode2

LEMMA NmiImplements ==
  ASSUME Sound, Shadowed, Z80NonMaskableInterrupt PROVE Machine!NonMaskableInterrupt
<1> DEFINE s == Refreshed([cpu EXCEPT !.iff2 = cpu.iff1, !.iff1 = 0])
<1>1. phase = "host" /\ phase' = phase /\ cpu' = Cycles(Jump(Pushed(s), 102), 11) /\ last' = "NOP"
  BY DEF Z80NonMaskableInterrupt, MayCall
<1>2. Processor = cpu /\ Bus = NoOpcode
  BY <1>1, AtHost
<1>3. Processor' = cpu' /\ Bus' = Bus /\ Shadow' = FALSE
  BY <1>1, <1>2 DEF Processor, Bus, Between, Midway, Shadow, INTERRUPTS
<1>4. cpu \in Cpu /\ s \in Cpu /\ s.pc = cpu.pc
  <2>1. cpu \in Cpu
    BY DEF Sound, Shapes
  <2> QED BY <2>1, InterruptedOK, InterruptedPc, RefreshedPc
<1> HIDE DEF s
<1>5. Cycles(Jump(PUSH(s, s.pc), 102), 11 - 6) = cpu'
  BY <1>1, <1>4, PushCosts
<1> QED BY <1>2, <1>3, <1>4, <1>5 DEF Machine!NonMaskableInterrupt, Machine!NoOpcode, NoOpcode, s

LEMMA JumpTwice ==
  ASSUME NEW s \in Cpu, NEW t \in Int PROVE Jump(s, t) = Jump(s, Jump(s, t).pc)
<1> DEFINE pc == t % 65536
<1>1. pc = t % 65536 /\ pc \in Word
  BY InWord
<1> HIDE DEF pc
<1>2. Jump(s, t) = At(s, pc, s.cycles, s.r)
  BY <1>1, JumpIs
<1>3. Jump(s, t).pc = pc
  BY <1>2, AtFields
<1>4. pc \in Int /\ pc = pc % 65536
  BY <1>1, WordIs
<1>5. Jump(s, pc) = At(s, pc, s.cycles, s.r)
  BY <1>4, JumpIs
<1> QED BY <1>2, <1>3, <1>5

LEMMA EnterImplements ==
  ASSUME Sound, Shadowed, NEW c \in calls, EnterSubroutine(c.arg) PROVE Machine!HostCall
<1> DEFINE w == Pushed(cpu)
<1>1. /\ phase = "host" /\ SUBROUTINE(c.arg) \in calls
      /\ cpu' = Jump(w, c.arg) /\ UNCHANGED <<phase, blk, begun, last>>
  BY DEF EnterSubroutine, MayCall
<1>2. Processor = cpu /\ Bus = NoOpcode
  BY <1>1, AtHost
<1>3. Processor' = cpu' /\ Bus' = Bus /\ Shadow' = Shadow
  BY <1>1, <1>2 DEF Processor, Bus, Between, Midway, Shadow
<1>4. cpu \in Cpu /\ w \in Cpu
  BY PushedOK DEF Sound, Shapes
<1>5. c.arg \in Int
  <2>1. SUBROUTINE(c.arg) \in HostCalls
    BY <1>1 DEF Sound, Shapes
  <2>2. SUBROUTINE(c.arg).arg \in Nat
    BY <2>1, CallsAre
  <2> QED BY <2>2 DEF SUBROUTINE
<1> HIDE DEF w
<1>6. cpu' = Jump(w, cpu'.pc)
  BY <1>1, <1>4, <1>5, JumpTwice
<1> QED BY <1>2, <1>3, <1>6 DEF Machine!HostCall, Machine!NoOpcode, NoOpcode, w, Pushed

LEMMA LeaveImplements ==
  ASSUME Sound, Shadowed, LeaveSubroutine PROVE Machine!HostReturn
<1> DEFINE target == ReadWord(cpu, cpu.SP - 2)
<1>1. /\ phase = "host" /\ cpu' = Jump(cpu, target) /\ UNCHANGED <<phase, blk, begun, last>>
  BY DEF LeaveSubroutine
<1>2. Processor = cpu /\ Bus = NoOpcode
  BY <1>1, AtHost
<1>3. Processor' = cpu' /\ Bus' = Bus /\ Shadow' = Shadow
  BY <1>1, <1>2 DEF Processor, Bus, Between, Midway, Shadow
<1>4. cpu \in Cpu /\ target \in Int
  <2>1. cpu \in Cpu /\ cpu.SP - 2 \in Int
    BY PcIs DEF Sound, Shapes
  <2> QED BY <2>1, ReadWordOK, WordIs
<1> HIDE DEF target
<1>5. cpu' = Jump(cpu, cpu'.pc)
  BY <1>1, <1>4, JumpTwice
<1> QED BY <1>2, <1>3, <1>5 DEF Machine!HostReturn, Machine!NoOpcode, NoOpcode

\* What the host does with the slices is none of the processor's business.
LEMMA HostStutters ==
  ASSUME (\E c \in calls : Z80Emulate(c.arg)) \/ StepSubroutine \/ AbortSubroutine
  PROVE  UNCHANGED <<Processor, Shadow, Bus>>
<1>1. cpu' = cpu /\ last' = last /\ phase = "host" /\ phase' \in {"opcode", "gave_up"}
  BY DEF Z80Emulate, StepSubroutine, AbortSubroutine, StartCall, MayCall
<1>2. Between /\ Between' /\ ~Midway /\ ~Midway'
  BY <1>1 DEF Between, Midway
<1> QED BY <1>1, <1>2 DEF Processor, Bus, Shadow

LEMMA HostImplements ==
  ASSUME Sound, Shadowed, InterruptsKnown, Host PROVE MachineStep
<1>1. CASE \E c \in calls : Z80Interrupt(c.arg)
  <2>1. PICK c \in calls : Z80Interrupt(c.arg)
    BY <1>1
  <2>2. last' # "HALT"
    BY <2>1 DEF Z80Interrupt
  <2>3. Halted' = FALSE
    BY <2>2, HaltedIs
  <2> QED BY <2>1, <2>3, InterruptImplements DEF MachineStep, Machine!Next, Machine!Interruption
<1>2. CASE (\E c \in calls : EnterSubroutine(c.arg)) \/ LeaveSubroutine
  <2>1. UNCHANGED <<phase, last>>
    BY <1>2 DEF EnterSubroutine, LeaveSubroutine
  <2>2. Halted' = Halted
    BY <2>1 DEF Halted
  <2> QED BY <1>2, <2>2, EnterImplements, LeaveImplements DEF MachineStep, Machine!Next
<1>3. CASE Z80NonMaskableInterrupt
  <2>1. last' # "HALT"
    BY <1>3 DEF Z80NonMaskableInterrupt
  <2>2. Halted' = FALSE
    BY <2>1, HaltedIs
  <2> QED BY <1>3, <2>2, NmiImplements DEF MachineStep, Machine!Next, Machine!Interruption
<1>4. CASE (\E c \in calls : Z80Emulate(c.arg)) \/ StepSubroutine
  <2>1. phase = "host" /\ phase' = "opcode" /\ last' = last
    BY <1>4 DEF Z80Emulate, StepSubroutine, StartCall, MayCall
  <2>2. Halted' = FALSE
    BY <2>1, HaltedIs
  <2>3. CASE last = "HALT"
    BY <2>1, <2>3 DEF MachineStep, GoesOn, Halted
  <2>4. CASE last # "HALT"
    <3>1. Halted = FALSE
      BY <2>4, HaltedIs
    <3> QED BY <1>4, <2>2, <3>1, HostStutters DEF MachineStep
  <2> QED BY <2>3, <2>4
<1>5. CASE AbortSubroutine
  <2>1. phase = "host" /\ phase' = "gave_up" /\ last' = last
    BY <1>5 DEF AbortSubroutine
  <2>2. Halted' = Halted
    BY <2>1 DEF Halted
  <2> QED BY <1>5, <2>2, HostStutters DEF MachineStep
<1> QED BY <1>1, <1>2, <1>3, <1>4, <1>5 DEF Host

-----------------------------------------------------------------------------
(* HALT, and reading an instruction.                                       *)

LEMMA HaltImplements == ASSUME Sound, Fetched, Halt PROVE Machine!Halt
<1> DEFINE t == IF Elapsed(cpu) < call.budget THEN [cpu EXCEPT !.cycles = call.start + call.budget] ELSE cpu
           d == Machine!Current
<1>1. phase = "execute" /\ cur.ins.op = "HALT" /\ Finish(t, call.budget)
  BY DEF Halt, Executing, Do
<1>2. d.s = cpu /\ d.ins = cur.ins
  BY <1>1, CurrentIs DEF PREFIXES
<1>3. cpu \in Cpu /\ cpu.cycles \in Int /\ call.start \in Int /\ call.budget \in Int
  BY FieldsAre DEF Sound, Shapes
<1> HIDE DEF t, d
<1>4. t.cycles >= cpu.cycles /\ t = [cpu EXCEPT !.cycles = t.cycles]
  <2>1. CASE Elapsed(cpu) < call.budget
    <3> DEFINE n == call.start + call.budget
    <3>1. n >= cpu.cycles
      BY <1>3, <2>1 DEF Elapsed
    <3> HIDE DEF n
    <3>2. t = [cpu EXCEPT !.cycles = n]
      BY <2>1 DEF n, t
    <3>3. t.cycles = n
      BY <1>3, <3>2 DEF Cpu
    <3> QED BY <3>1, <3>2, <3>3
  <2>2. CASE ~(Elapsed(cpu) < call.budget)
    <3>1. t = cpu
      BY <2>2 DEF t
    <3>2. cpu = [cpu EXCEPT !.cycles = cpu.cycles]
      BY <1>3 DEF Cpu
    <3> QED BY <1>3, <3>1, <3>2
  <2> QED BY <2>1, <2>2
<1>5. Processor' = t /\ Bus' = NoOpcode /\ Shadow' = (cur.ins.op \in INTERRUPTS)
  BY <1>1, FinishOutside
<1>6. (cur.ins.op \in INTERRUPTS) = FALSE
  BY <1>1 DEF INTERRUPTS
<1> QED BY <1>1, <1>2, <1>4, <1>5, <1>6 DEF Machine!Halt, Machine!NoOpcode, NoOpcode, d

LEMMA HaltSteps == ASSUME Sound, Fetched, Halt PROVE MachineStep
<1> DEFINE t == IF Elapsed(cpu) < call.budget THEN [cpu EXCEPT !.cycles = call.start + call.budget] ELSE cpu
<1>1. phase = "execute" /\ cur.ins.op = "HALT" /\ Finish(t, call.budget)
  BY DEF Halt, Executing, Do
<1>2. cpu \in Cpu /\ cpu.cycles \in Int /\ call.start \in Int /\ call.budget \in Int
  BY FieldsAre DEF Sound, Shapes
<1>3. Elapsed(t) >= call.budget
  <2>1. CASE Elapsed(cpu) < call.budget
    <3>1. t = [cpu EXCEPT !.cycles = call.start + call.budget]
      BY <2>1
    <3>2. t.cycles = call.start + call.budget
      BY <1>2, <3>1 DEF Cpu
    <3> QED BY <1>2, <3>2 DEF Elapsed
  <2>2. CASE ~(Elapsed(cpu) < call.budget)
    BY <1>2, <2>2 DEF Elapsed
  <2> QED BY <2>1, <2>2
<1> HIDE DEF t
<1>4. phase' = "host" /\ last' = "HALT"
  BY <1>1, <1>3 DEF Finish
<1>5. Halted = FALSE /\ Halted' = TRUE
  BY <1>1, <1>4, HaltedIs
<1> QED BY <1>5, HaltImplements DEF MachineStep, Machine!Next, Machine!Execution

LEMMA FetchStutters ==
  ASSUME Sound, FetchOpcode PROVE UNCHANGED <<Processor, Shadow, Bus>>
<1>1. /\ phase = "opcode" /\ phase' = "execute" /\ last' = last
      /\ cpu' = Counted(Jump(cpu, cpu.pc + 1))
      /\ begun' = [pc |-> cpu.pc, r |-> cpu.r, cycles |-> cpu.cycles, bus |-> NoOpcode]
  BY DEF FetchOpcode
<1>2. Processor = cpu /\ Bus = NoOpcode /\ Shadow = (last \in INTERRUPTS)
  BY <1>1, Outside DEF Between
<1>3. cpu \in Cpu /\ cpu' \in Cpu
  <2>1. cpu \in Cpu /\ cpu.pc + 1 \in Int
    BY PcIs DEF Sound, Shapes
  <2> QED BY <1>1, <2>1, JumpOK, CountedOK
<1>4. Rewind(cpu', cpu.pc, cpu.cycles, cpu.r) = cpu
  BY <1>1, <1>3, CountedIs, Rewound
<1>5. Processor' = Rewind(cpu', cpu.pc, cpu.cycles, cpu.r) /\ Bus' = NoOpcode /\ Shadow' = (last' \in INTERRUPTS)
  BY <1>1 DEF Processor, Bus, Shadow, Between, Midway, Before, Rewind
<1> QED BY <1>1, <1>2, <1>4, <1>5

\* The processor does not see how much of an instruction has been read.
LEMMA ReadingStutters ==
  ASSUME Sound, phase = "execute", phase' \in {"execute", "copy", "search", "aborted"},
         phase' \in Blocks => blk'.turns = 0,
         begun' = begun, last' = last, cpu' \in Cpu, NEW pc, NEW cycles, NEW r, cpu' = At(cpu, pc, cycles, r)
  PROVE  UNCHANGED <<Processor, Shadow, Bus>> /\ Before(cpu)' = Before(cpu)
<1>1. Before(cpu') = Before(cpu)
  <2>1. Shapes /\ cpu \in Cpu
    BY DEF Sound, Shapes
  <2> QED BY <2>1, BeforeAt
<1>2. Before(cpu)' = Before(cpu)
  BY <1>1 DEF Before
<1>3. ~Between /\ ~Between' /\ ~Midway /\ ~Midway'
  BY DEF Between, Midway, Blocks
<1> QED BY <1>2, <1>3 DEF Processor, Bus, Shadow

-----------------------------------------------------------------------------
(* What has been read stays what the processor has to execute.             *)

LEMMA FetchFetched == ASSUME Sound, FetchOpcode PROVE Fetched'
<1>1. /\ phase' = "execute" /\ cpu' = Counted(Jump(cpu, cpu.pc + 1))
      /\ begun' = [pc |-> cpu.pc, r |-> cpu.r, cycles |-> cpu.cycles, bus |-> NoOpcode]
      /\ cur' = [p |-> "HL", opcode |-> ReadByte(cpu, cpu.pc), ins |-> INSTRUCTION_TABLE[ReadByte(cpu, cpu.pc)]]
  BY DEF FetchOpcode
<1>2. cpu \in Cpu /\ cpu' \in Cpu
  <2>1. cpu \in Cpu /\ cpu.pc + 1 \in Int
    BY PcIs DEF Sound, Shapes
  <2> QED BY <1>1, <2>1, JumpOK, CountedOK
<1>3. Before(cpu)' = cpu
  <2>1. Before(cpu)' = Rewind(cpu', cpu.pc, cpu.cycles, cpu.r)
    BY <1>1 DEF Before, Rewind
  <2> QED BY <1>1, <1>2, <2>1, CountedIs, Rewound
<1>4. cpu' = Machine!M1(cpu, 1) /\ ReadByte(cpu, cpu.pc) = Machine!Opcode(cpu, 0)
  <2>1. 0 \in Nat /\ 0 + 1 = 1
    OBVIOUS
  <2>2. /\ Counted(Jump(Machine!M1(cpu, 0), Machine!M1(cpu, 0).pc + 1)) = Machine!M1(cpu, 1)
        /\ ReadByte(Machine!M1(cpu, 0), Machine!M1(cpu, 0).pc) = Machine!Opcode(cpu, 0)
    BY <1>2, <2>1, NextByte
  <2> QED BY <1>1, <1>2, <2>2, NoByte
<1>5. Machine!IndexRegister(cpu, 0) = "HL"
  BY DEF Machine!IndexRegister
<1>6. ReadPlain(cpu, 0, cpu', cur')
  BY <1>1, <1>4, <1>5 DEF ReadPlain, ReadAs
<1>7. Prefixed(cpu, 0)
  BY DEF Prefixed
<1> QED BY <1>1, <1>3, <1>6, <1>7 DEF Fetched, Reads

LEMMA PrefixRead ==
  ASSUME NEW b \in Cpu, NEW n, NEW s, NEW d, Prefixed(b, n), Reads(b, n, s, d), d.ins.op \in PREFIXES
  PROVE  /\ ReadPlain(b, n, s, d) /\ Machine!Op(b, n) = d.ins.op
         /\ d.p = Machine!IndexRegister(b, n) /\ n \in Nat
<1>1. n \in Nat
  BY DEF Prefixed
<1>2. n + 1 \in Int /\ n + 2 \in Int
  BY <1>1
<1>3. ~ReadEd(b, n, s, d)
  BY <1>2, OpcodeOK, EdTableOK DEF ReadEd, ReadAs
<1>4. \A opcode \in Byte : CB_INSTRUCTION_TABLE[opcode].op \notin PREFIXES
  BY CbTableOK, ROTATEOnly, BITSOnly
<1>5. ~ReadCb(b, n, s, d) /\ ~ReadIndexedCb(b, n, s, d)
  BY <1>2, <1>4, OpcodeOK DEF ReadCb, ReadIndexedCb, ReadAs
<1>6. ReadPlain(b, n, s, d)
  BY <1>3, <1>5 DEF Reads
<1> QED BY <1>1, <1>6 DEF ReadPlain, ReadAs, Machine!Op

LEMMA OnePrefixMore ==
  ASSUME NEW b, NEW n, Prefixed(b, n), Machine!IsIndex(b, n)
  PROVE  /\ Prefixed(b, n + 1)
         /\ Machine!IndexRegister(b, n + 1) = IF Machine!Op(b, n) = "DD_PREFIX" THEN "IX" ELSE "IY"
<1>1. n \in Nat /\ \A m \in 0 .. n - 1 : Machine!IsIndex(b, m)
  BY DEF Prefixed
<1>2. \A m \in 0 .. (n + 1) - 1 : m \in 0 .. n - 1 \/ m = n
  BY <1>1
<1>3. Prefixed(b, n + 1)
  BY <1>1, <1>2 DEF Prefixed
<1>4. n + 1 # 0 /\ (n + 1) - 1 = n
  BY <1>1
<1> QED BY <1>3, <1>4 DEF Machine!IndexRegister

LEMMA PrefixFetched ==
  ASSUME Sound, Fetched, Prefix PROVE Fetched' /\ UNCHANGED <<Processor, Shadow, Bus>>
<1> DEFINE b == Before(cpu)
<1>1. /\ phase = "execute" /\ phase' = "execute" /\ cur.ins.op \in PREFIXES
      /\ UNCHANGED <<begun, last>>
  BY DEF Prefix, IndexPrefix, EdPrefix, CbPrefix, IndexedCbPrefix, Executing, ReadNextOpcode, PREFIXES
<1>2. begun.bus = NoOpcode
  BY <1>1 DEF Fetched
<1>3. PICK n : Prefixed(b, n) /\ Reads(b, n, cpu, cur)
  BY <1>1, <1>2 DEF Fetched
<1>4. cpu \in Cpu /\ b \in Cpu /\ cpu' \in Cpu
  <2>1. cpu \in Cpu
    BY DEF Sound, Shapes
  <2>2. b \in Cpu
    BY <2>1, BeforeIs DEF Sound, Shapes
  <2>3. cpu' \in Cpu
    BY PrefixesSound DEF Sound, Shapes
  <2> QED BY <2>1, <2>2, <2>3
<1> HIDE DEF b
<1>5. /\ cpu = Machine!M1(b, n + 1) /\ Machine!Op(b, n) = cur.ins.op
      /\ cur.p = Machine!IndexRegister(b, n) /\ n \in Nat
  BY <1>1, <1>3, <1>4, PrefixRead DEF ReadPlain
<1>6. n + 1 \in Nat /\ (n + 1) + 1 = n + 2
  BY <1>5
<1>7. /\ Counted(Jump(cpu, cpu.pc + 1)) = Machine!M1(b, n + 2)
      /\ ReadByte(cpu, cpu.pc) = Machine!Opcode(b, n + 1)
      /\ ReadByte(cpu, cpu.pc + 1) = Machine!Opcode(b, n + 2)
  BY <1>4, <1>5, <1>6, NextByte
<1>8. cpu' = Counted(Jump(cpu, cpu.pc + 1)) \/ cpu' = Cycles(cpu, 4)
  BY DEF Prefix, IndexPrefix, EdPrefix, CbPrefix, IndexedCbPrefix, ReadNextOpcode
<1>9. UNCHANGED <<Processor, Shadow, Bus>> /\ Before(cpu)' = Before(cpu)
  <2>1. \E pc, cycles, r : cpu' = At(cpu, pc, cycles, r)
    BY <1>4, <1>8, CountedIs, StepsAre
  <2>2. phase' \notin Blocks
    BY <1>1 DEF Blocks
  <2> QED BY <1>1, <1>4, <2>1, <2>2, ReadingStutters
<1>10. begun'.bus = NoOpcode
  BY <1>1, <1>2
<1>11. Before(cpu)' = b
  BY <1>9 DEF b
<1>12. CASE IndexPrefix
  <2>1. /\ cur.ins.op \in {"DD_PREFIX", "FD_PREFIX"} /\ cpu' = Counted(Jump(cpu, cpu.pc + 1))
        /\ cur' = [p |-> IF cur.ins.op = "DD_PREFIX" THEN "IX" ELSE "IY", opcode |-> ReadByte(cpu, cpu.pc),
                   ins |-> INSTRUCTION_TABLE[ReadByte(cpu, cpu.pc)]]
    BY <1>12 DEF IndexPrefix, Executing, ReadNextOpcode
  <2>2. Machine!IsIndex(b, n)
    BY <1>5, <2>1 DEF Machine!IsIndex
  <2>3. Prefixed(b, n + 1) /\ Machine!IndexRegister(b, n + 1) = IF cur.ins.op = "DD_PREFIX" THEN "IX" ELSE "IY"
    BY <1>3, <1>5, <2>2, OnePrefixMore
  <2>4. ReadPlain(b, n + 1, cpu', cur')
    BY <1>6, <1>7, <2>1, <2>3 DEF ReadPlain, ReadAs
  <2> QED BY <1>1, <1>9, <1>10, <1>11, <2>3, <2>4 DEF Fetched, Reads
<1>13. CASE EdPrefix
  <2>1. /\ cur.ins.op = "ED_PREFIX" /\ cpu' = Counted(Jump(cpu, cpu.pc + 1))
        /\ cur' = [p |-> "HL", opcode |-> ReadByte(cpu, cpu.pc), ins |-> ED_INSTRUCTION_TABLE[ReadByte(cpu, cpu.pc)]]
    BY <1>13 DEF EdPrefix, Executing, ReadNextOpcode
  <2>2. ReadEd(b, n, cpu', cur')
    BY <1>5, <1>7, <2>1 DEF ReadEd, ReadAs
  <2> QED BY <1>1, <1>3, <1>9, <1>10, <1>11, <2>2 DEF Fetched, Reads
<1>14. CASE CbPrefix
  <2>1. /\ cur.ins.op = "CB_PREFIX" /\ cur.p = "HL" /\ cpu' = Counted(Jump(cpu, cpu.pc + 1))
        /\ cur' = [p |-> "HL", opcode |-> ReadByte(cpu, cpu.pc), ins |-> CB_INSTRUCTION_TABLE[ReadByte(cpu, cpu.pc)]]
    BY <1>14 DEF CbPrefix, Executing, ReadNextOpcode
  <2>2. ReadCb(b, n, cpu', cur')
    BY <1>5, <1>7, <2>1 DEF ReadCb, ReadAs
  <2> QED BY <1>1, <1>3, <1>9, <1>10, <1>11, <2>2 DEF Fetched, Reads
<1>15. CASE IndexedCbPrefix
  <2> DEFINE o == ReadByte(cpu, cpu.pc + 1)
  <2>1. /\ cur.ins.op = "CB_PREFIX" /\ cur.p # "HL" /\ cpu' = Cycles(cpu, 4)
        /\ cur' = [cur EXCEPT !.opcode = o, !.ins = CB_INSTRUCTION_TABLE[o]]
    BY <1>15 DEF IndexedCbPrefix, Executing
  <2>2. cur = [p |-> cur.p, opcode |-> cur.opcode, ins |-> cur.ins]
    BY DEF Sound, Shapes
  <2> HIDE DEF o
  <2>3. cur' = [p |-> cur.p, opcode |-> o, ins |-> CB_INSTRUCTION_TABLE[o]]
    BY <2>1, <2>2
  <2>4. o = Machine!Opcode(b, n + 2)
    BY <1>7 DEF o
  <2>5. ReadIndexedCb(b, n, cpu', cur')
    BY <1>5, <2>1, <2>3, <2>4 DEF ReadIndexedCb, ReadAs
  <2> QED BY <1>1, <1>3, <1>9, <1>10, <1>11, <2>5 DEF Fetched, Reads
<1> QED BY <1>12, <1>13, <1>14, <1>15 DEF Prefix

-----------------------------------------------------------------------------
(* DI and EI keep the host away from the instruction behind them.          *)

LEMMA EdQuarterPlain ==
  ASSUME NEW y \in 0 .. 7, NEW z \in 0 .. 7
  PROVE  EdSecondQuarter(y, z).op \notin INTERRUPTS
<1>1. CASE z = 7
  <2>1. /\ EdSecondQuarter(0, 7) = Plain("LD_I_A_LD_R_A")
        /\ EdSecondQuarter(1, 7) = Plain("LD_I_A_LD_R_A")
        /\ EdSecondQuarter(2, 7) = Plain("LD_A_I_LD_A_R")
        /\ EdSecondQuarter(3, 7) = Plain("LD_A_I_LD_A_R")
        /\ EdSecondQuarter(4, 7) = Plain("RLD_RRD")
        /\ EdSecondQuarter(5, 7) = Plain("RLD_RRD")
        /\ EdSecondQuarter(6, 7) = Plain("ED_UNDEFINED")
        /\ EdSecondQuarter(7, 7) = Plain("ED_UNDEFINED")
    BY DEF EdSecondQuarter
  <2>2.  \/ EdSecondQuarter(y, z) = Plain("LD_I_A_LD_R_A") \/ EdSecondQuarter(y, z) = Plain("LD_A_I_LD_A_R")
         \/ EdSecondQuarter(y, z) = Plain("RLD_RRD") \/ EdSecondQuarter(y, z) = Plain("ED_UNDEFINED")
    BY <1>1, <2>1, Eight
  <2> QED BY <2>2, PlainIs DEF INTERRUPTS
<1>2. CASE z = 3
  <2>1. EdSecondQuarter(y, z) = I("LD_RR", "TO_INDIRECT_NN") \/ EdSecondQuarter(y, z) = I("LD_RR", "INDIRECT_NN")
    BY <1>2 DEF EdSecondQuarter
  <2> QED BY <2>1, IIs DEF INTERRUPTS
<1>3. CASE z # 3 /\ z # 7
  <2>1. z = 0 \/ z = 1 \/ z = 2 \/ z = 4 \/ z = 5 \/ z = 6
    BY <1>3
  <2>2. \/ EdSecondQuarter(y, z) = Plain("IN_R_C") \/ EdSecondQuarter(y, z) = Plain("OUT_C_R")
        \/ EdSecondQuarter(y, z) = Plain("SBC_HL_RR") \/ EdSecondQuarter(y, z) = Plain("ADC_HL_RR")
        \/ EdSecondQuarter(y, z) = Plain("NEG") \/ EdSecondQuarter(y, z) = Plain("RETI_RETN")
        \/ EdSecondQuarter(y, z) = Plain("IM_N")
    BY <2>1 DEF EdSecondQuarter
  <2> QED BY <2>2, PlainIs DEF INTERRUPTS
<1> QED BY <1>1, <1>2, <1>3

\* DI and EI stand in the table without prefixes only.
LEMMA EdPlain == ASSUME NEW opcode \in Byte PROVE ED_INSTRUCTION_TABLE[opcode].op \notin INTERRUPTS
<1> DEFINE y == Y(opcode)
           z == Z(opcode)
           ins == ED_INSTRUCTION_TABLE[opcode]
<1>1. y \in 0 .. 7 /\ z \in 0 .. 7
  BY Fields
<1>2. \/ ins = EdSecondQuarter(y, z)
      \/ z < 4 /\ ins = EdBlock(y, z)
      \/ ins = Plain("ED_UNDEFINED")
  BY DEF ED_INSTRUCTION_TABLE, Byte
<1> SUFFICES ins.op \notin INTERRUPTS
  OBVIOUS
<1> HIDE DEF y, z, ins
<1>3. CASE ins = EdSecondQuarter(y, z)
  BY <1>1, <1>3, EdQuarterPlain
<1>4. CASE z < 4 /\ ins = EdBlock(y, z)
  <2>1. z = 0 \/ z = 1 \/ z = 2 \/ z = 3
    BY <1>1, <1>4
  <2>2. \/ ins = Plain("LDI_LDD") \/ ins = Plain("CPI_CPD") \/ ins = Plain("INI_IND")
        \/ ins = Plain("OUTI_OUTD") \/ ins = Plain("LDIR_LDDR") \/ ins = Plain("CPIR_CPDR")
        \/ ins = Plain("INIR_INDR") \/ ins = Plain("OTIR_OTDR")
    BY <1>4, <2>1 DEF EdBlock
  <2> QED BY <2>2, PlainIs DEF INTERRUPTS
<1>5. CASE ins = Plain("ED_UNDEFINED")
  BY <1>5, PlainIs DEF INTERRUPTS
<1> QED BY <1>2, <1>3, <1>4, <1>5

\* So an instruction of that name, without an index prefix, has used up 4 cycles.
LEMMA InterruptCycles ==
  ASSUME Sound, Fetched, ShadowsPlain, Executing(INTERRUPTS)
  PROVE  cpu.cycles = begun.cycles + 4
<1> DEFINE b == Before(cpu)
<1>1. phase = "execute" /\ cur.ins.op \in INTERRUPTS /\ cur.p = "HL"
  BY DEF Executing, ShadowsPlain
<1>2. cpu \in Cpu /\ begun.pc \in Word /\ begun.r \in Byte /\ begun.cycles \in Nat
  BY DEF Sound, Shapes
<1>3. b \in Cpu /\ b.cycles = begun.cycles
  BY <1>2, BeforeIs, AtFields
<1>4. CASE begun.bus # NoOpcode
  <2>1. cpu = Counted(b)
    BY <1>1, <1>4 DEF Fetched
  <2> HIDE DEF b
  <2> QED BY <1>3, <2>1, CountedOK
<1>5. CASE begun.bus = NoOpcode
  <2>1. PICK n : Prefixed(b, n) /\ Reads(b, n, cpu, cur)
    BY <1>1, <1>5 DEF Fetched
  <2> HIDE DEF b
  <2>2. n \in Nat /\ n + 1 \in Int /\ n + 2 \in Int
    BY <2>1 DEF Prefixed
  <2>3. ~ReadEd(b, n, cpu, cur)
    BY <1>1, <1>3, <2>2, OpcodeOK, EdPlain DEF ReadEd, ReadAs
  <2>4. \A opcode \in Byte : CB_INSTRUCTION_TABLE[opcode].op \notin INTERRUPTS
    BY CbTableOK, ROTATEOnly, BITSOnly
  <2>5. ~ReadCb(b, n, cpu, cur) /\ ~ReadIndexedCb(b, n, cpu, cur)
    BY <1>1, <1>3, <2>2, <2>4, OpcodeOK DEF ReadCb, ReadIndexedCb, ReadAs
  <2>6. cpu = Machine!M1(b, n + 1) /\ cur.p = Machine!IndexRegister(b, n)
    BY <2>1, <2>3, <2>5 DEF Reads, ReadPlain, ReadAs
  <2>7. n = 0
    BY <1>1, <2>6 DEF Machine!IndexRegister
  <2>8. cpu = Machine!M1(b, 1) /\ 1 \in Nat
    BY <2>6, <2>7
  <2>9. cpu.cycles = b.cycles + 4 * 1
    BY <1>3, <2>8, M1Cycles
  <2> QED BY <1>2, <1>3, <2>9
<1> QED BY <1>4, <1>5

LEMMA InterruptGoesOn ==
  ASSUME Sound, Fetched, ShadowsPlain, InterruptGroup PROVE phase' = "opcode"
<1> DEFINE s == SetInterrupts(cpu, cur.ins)
           b == IF Elapsed(cpu) >= call.budget THEN call.budget + 4 ELSE call.budget
<1>1. Executing(INTERRUPTS) /\ Finish(s, b)
  BY DEF InterruptGroup
<1>2. cpu.cycles = begun.cycles + 4
  BY <1>1, InterruptCycles
<1>3. cpu \in Cpu /\ cpu.cycles \in Int /\ call.start \in Int /\ call.budget \in Int /\ begun.cycles \in Int
  BY FieldsAre DEF Sound, Shapes
<1>4. begun.cycles - call.start < call.budget
  BY <1>1 DEF Sound, Budgets, Executing
<1>5. s.cycles = cpu.cycles
  BY <1>3 DEF SetInterrupts, Cpu
<1>6. phase' = IF Elapsed(s) >= b THEN "host" ELSE "opcode"
  BY <1>1 DEF Finish
<1> HIDE DEF s
<1>7. Elapsed(s) = Elapsed(cpu) /\ Elapsed(cpu) = begun.cycles + 4 - call.start
  BY <1>2, <1>3, <1>5 DEF Elapsed
<1>8. ~(Elapsed(s) >= b)
  <2> HIDE DEF b
  <2>1. Elapsed(cpu) \in Int
    BY <1>3 DEF Elapsed
  <2>2. CASE Elapsed(cpu) >= call.budget
    <3>1. b = call.budget + 4
      BY <2>2 DEF b
    <3> QED BY <1>3, <1>4, <1>7, <3>1
  <2>3. CASE ~(Elapsed(cpu) >= call.budget)
    <3>1. b = call.budget
      BY <2>3 DEF b
    <3> QED BY <1>3, <1>7, <2>1, <2>3, <3>1
  <2> QED BY <2>2, <2>3
<1> QED BY <1>6, <1>8

LEMMA GroupPlain == ASSUME Group PROVE cur.ins.op \notin INTERRUPTS /\ last' = cur.ins.op
<1>1. cur.ins.op \in UNION {LOAD8, LOAD16, EXCHANGE, BLOCK_ONCE, ARITH8, INC_DEC, ACCUMULATOR, ARITH16}
        \/ cur.ins.op \in UNION {SHIFTS, BITS, {"RLD_RRD"}, JUMP, CALL_RETURN, {"IM_N"}, NOTHING}
  BY DEF Group, Executing, LoadGroup, LoadWordGroup, ExchangeGroup, BlockGroup, ArithmeticGroup, IncrementGroup,
         AccumulatorGroup, WordGroup, ShiftGroup, BitGroup, DigitGroup, Jumps, CallsAndReturns, ModeGroup, Nothing
<1>2. last' = cur.ins.op
  BY DEF Group, Do, Finish, LoadGroup, LoadWordGroup, ExchangeGroup, BlockGroup, ArithmeticGroup, IncrementGroup,
         AccumulatorGroup, WordGroup, ShiftGroup, BitGroup, DigitGroup, Jumps, CallsAndReturns, ModeGroup, Nothing
<1>3. "DI" \notin ALU /\ "EI" \notin ALU /\ "DI" \notin ROTATE /\ "EI" \notin ROTATE
  BY DEF ALU, ROTATE
<1>4. ARITH8 = ALU /\ SHIFTS = ROTATE
  BY AluIs, ShiftsAre
<1>5. ASSUME NEW x \in INTERRUPTS
      PROVE  /\ x \notin UNION {LOAD8, LOAD16, EXCHANGE, BLOCK_ONCE, ARITH8, INC_DEC, ACCUMULATOR, ARITH16}
             /\ x \notin UNION {SHIFTS, BITS, {"RLD_RRD"}, JUMP, CALL_RETURN, {"IM_N"}, NOTHING}
  <2>1. x = "DI" \/ x = "EI"
    BY DEF INTERRUPTS
  <2>2. x \notin ARITH8 /\ x \notin SHIFTS
    BY <1>3, <1>4, <2>1
  <2>3. x \notin LOAD8 /\ x \notin LOAD16 /\ x \notin EXCHANGE /\ x \notin BLOCK_ONCE
    BY <2>1 DEF LOAD8, LOAD16, EXCHANGE, BLOCK_ONCE
  <2>4. x \notin INC_DEC /\ x \notin ACCUMULATOR /\ x \notin ARITH16
    BY <2>1 DEF INC_DEC, ACCUMULATOR, ARITH16
  <2>5. x \notin BITS /\ x \notin {"RLD_RRD"} /\ x \notin JUMP /\ x \notin CALL_RETURN /\ x \notin {"IM_N"}
        /\ x \notin NOTHING
    BY <2>1 DEF BITS, JUMP, CALL_RETURN, NOTHING
  <2> QED BY <2>2, <2>3, <2>4, <2>5
<1> QED BY <1>1, <1>2, <1>5

\* The opcode an interrupt puts on the bus is an instruction by itself.
LEMMA InterruptFetched ==
  ASSUME Sound, InterruptsKnown, NEW c \in calls, Z80Interrupt(c.arg)
  PROVE  Fetched'
<1> DEFINE data == c.arg
           s == Refreshed([cpu EXCEPT !.iff1 = 0, !.iff2 = 0])
<1>1. phase = "host" /\ INTERRUPT(data) \in calls
  BY DEF Z80Interrupt, MayCall
<1>2. cpu \in Cpu /\ s \in Cpu
  <2>1. cpu \in Cpu
    BY DEF Sound, Shapes
  <2> QED BY <2>1, InterruptedOK, RefreshedOK
<1>3. INSTRUCTION_TABLE[data].op \notin PREFIXES
  BY <1>1 DEF InterruptsKnown, INTERRUPT, PREFIXES
<1>4. data # NoOpcode
  <2>1. INTERRUPT(data) \in HostCalls
    BY <1>1 DEF Sound, Shapes
  <2>2. data \in Byte
    BY <2>1, CallsAre DEF INTERRUPT
  <2> QED BY <2>2, ByteIs DEF NoOpcode
<1> HIDE DEF s
<1>5. CASE InterruptMode0(data)
  <2>1. /\ cpu' = Counted(s) /\ cur' = [p |-> "HL", opcode |-> data, ins |-> INSTRUCTION_TABLE[data]]
        /\ begun' = [pc |-> s.pc, r |-> s.r, cycles |-> s.cycles, bus |-> data]
    BY <1>5 DEF InterruptMode0, s
  <2>2. Before(cpu)' = Rewind(Counted(s), s.pc, s.cycles, s.r)
    BY <2>1 DEF Before, Rewind
  <2>3. Before(cpu)' = s
    BY <1>2, <2>2, CountedIs, CountedOK, Rewound
  <2> QED BY <1>3, <1>4, <2>1, <2>3 DEF Fetched, ReadAs
<1>6. CASE InterruptMode1 \/ InterruptMode2(data)
  <2>1. phase' = "host"
    BY <1>1, <1>6 DEF InterruptMode1, InterruptMode2
  <2> QED BY <2>1 DEF Fetched
<1> QED BY <1>5, <1>6 DEF Z80Interrupt

-----------------------------------------------------------------------------
(* The block loops: what has been read when one begins.                    *)

\* A loop that has not gone round yet.
Entered(b, n, s) ==
  /\ Prefixed(b, n) /\ ReadEd(b, n, s, cur)
  /\ s.cycles >= 8 /\ cpu = Uncounted(s)
  /\ blk.bc = GetW(cpu, "BC") /\ blk.de = GetW(cpu, "DE") /\ blk.hl = GetW(cpu, "HL")

Looping ==
  phase \in Blocks =>
    /\ begun.bus = NoOpcode
    /\ ReadAs(cur, "HL", cur.opcode, ED_INSTRUCTION_TABLE)
    /\ cur.ins.op = IF phase = "copy" THEN "LDIR_LDDR" ELSE "CPIR_CPDR"
    /\ -blk.turns <= blk.bc /\ blk.bc <= 65535
    /\ blk.turns = 0 => \E n : \E s \in Cpu : Entered(Before(cpu), n, s)

LEMMA RepeatedRead ==
  ASSUME NEW b \in Cpu, NEW n, NEW s, NEW d, Prefixed(b, n), Reads(b, n, s, d), d.ins.op \in REPEATED
  PROVE  ReadEd(b, n, s, d)
<1>1. n \in Nat
  BY DEF Prefixed
<1>2. n + 1 \in Int /\ n + 2 \in Int /\ n \in Int
  BY <1>1
<1>3. \A opcode \in Byte : CB_INSTRUCTION_TABLE[opcode].op \notin REPEATED
  BY CbTableOK, ROTATEOnly, BITSOnly
<1>4. ~ReadCb(b, n, s, d) /\ ~ReadIndexedCb(b, n, s, d)
  BY <1>2, <1>3, OpcodeOK DEF ReadCb, ReadIndexedCb, ReadAs
<1>5. ~ReadPlain(b, n, s, d)
  BY <1>2, OpcodeOK, TableOK DEF ReadPlain, ReadAs
<1> QED BY <1>4, <1>5 DEF Reads

LEMMA AtGetW ==
  ASSUME NEW s, NEW pc, NEW c, NEW r, NEW w PROVE GetW(At(s, pc, c, r), w) = GetW(s, w)
BY DEF GetW, At

LEMMA BeginLoops ==
  ASSUME Sound, Fetched, BeginBlock PROVE Looping' /\ UNCHANGED <<Processor, Shadow, Bus>>
<1> DEFINE b == Before(cpu)
<1>1. /\ phase = "execute" /\ cur.ins.op \in REPEATED /\ cpu' = Uncounted(cpu)
      /\ phase' = IF cur.ins.op = "LDIR_LDDR" THEN "copy" ELSE "search"
      /\ UNCHANGED <<cur, begun, last>>
  BY DEF BeginBlock, Executing, REPEATED
<1>2. blk' = [bc |-> GetW(cpu, "BC"), de |-> GetW(cpu, "DE"), hl |-> GetW(cpu, "HL"), n |-> 0, turns |-> 0]
  BY DEF BeginBlock
<1>3. cpu \in Cpu /\ b \in Cpu /\ cpu.cycles >= 8
  <2>1. cpu \in Cpu
    BY DEF Sound, Shapes
  <2>2. b \in Cpu
    BY <2>1, BeforeIs DEF Sound, Shapes
  <2>3. cpu.cycles >= 8
    BY <1>1 DEF Sound, Decoding
  <2> QED BY <2>1, <2>2, <2>3
<1>4. cpu' \in Cpu /\ cpu' = At(cpu, cpu.pc, cpu.cycles - 8, Fresh(cpu.r, -2))
  BY <1>1, <1>3, UncountedIs
<1>5. begun.bus = NoOpcode
  <2>1. CASE begun.bus # NoOpcode
    <3>1. begun.bus \in Byte /\ cur.ins = INSTRUCTION_TABLE[begun.bus]
      BY <1>1, <2>1 DEF Fetched, ReadAs, Sound, Shapes
    <3> QED BY <1>1, <3>1, TableOK
  <2> QED BY <2>1
<1>6. PICK n : Prefixed(b, n) /\ Reads(b, n, cpu, cur)
  BY <1>1, <1>5 DEF Fetched
<1>7. UNCHANGED <<Processor, Shadow, Bus>> /\ Before(cpu)' = b
  <2>1. phase' \in {"execute", "copy", "search", "aborted"}
    BY <1>1
  <2>2. blk'.turns = 0
    BY <1>2
  <2> QED BY <1>1, <1>4, <2>1, <2>2, ReadingStutters
<1> HIDE DEF b
<1>8. ReadEd(b, n, cpu, cur)
  BY <1>1, <1>3, <1>6, RepeatedRead
<1>9. ReadAs(cur, "HL", cur.opcode, ED_INSTRUCTION_TABLE)
  BY <1>8 DEF ReadEd, ReadAs
<1>10. cur'.ins.op = IF phase' = "copy" THEN "LDIR_LDDR" ELSE "CPIR_CPDR"
  BY <1>1 DEF REPEATED
<1>11. -blk'.turns <= blk'.bc /\ blk'.bc <= 65535
  <2>1. "BC" \in WordRegister
    BY DEF WordRegister
  <2>2. GetW(cpu, "BC") \in Nat /\ GetW(cpu, "BC") <= 65535
    BY <1>3, <2>1, GetWOK, WordIs
  <2>3. blk'.bc = GetW(cpu, "BC") /\ blk'.turns = 0
    BY <1>2
  <2> QED BY <2>2, <2>3
<1>12. \A w : GetW(cpu', w) = GetW(cpu, w)
  BY <1>4, AtGetW
<1>13. /\ blk'.bc = GetW(cpu', "BC") /\ blk'.de = GetW(cpu', "DE") /\ blk'.hl = GetW(cpu', "HL")
  BY <1>2, <1>12
<1>14. ReadEd(b, n, cpu, cur')
  BY <1>1, <1>8
<1>15. blk'.turns = 0 => \E m : \E s \in Cpu : Entered(Before(cpu), m, s)'
  <2>1. /\ Prefixed(Before(cpu)', n) /\ ReadEd(Before(cpu)', n, cpu, cur') /\ cpu' = Uncounted(cpu)
    BY <1>1, <1>6, <1>7, <1>14
  <2> QED BY <1>3, <1>13, <2>1 DEF Entered
<1>16. begun'.bus = NoOpcode /\ ReadAs(cur', "HL", cur'.opcode, ED_INSTRUCTION_TABLE)
  BY <1>1, <1>5, <1>9
<1> QED BY <1>7, <1>10, <1>11, <1>15, <1>16 DEF Looping

-----------------------------------------------------------------------------
(* A processor with other registers, flags and memory too, and its         *)
(* register pairs BC, DE and HL.                                           *)

With(s, reg, f, ram, pc, cycles, r) ==
  [reg |-> reg, F |-> f, SP |-> s.SP, pc |-> pc, alt |-> s.alt, i |-> s.i, r |-> r, iff1 |-> s.iff1,
   iff2 |-> s.iff2, im |-> s.im, cycles |-> cycles, ram |-> ram]

LEMMA WithFields ==
  ASSUME NEW s, NEW reg, NEW f, NEW ram, NEW pc, NEW cycles, NEW r,
         NEW t, t = With(s, reg, f, ram, pc, cycles, r)
  PROVE  t.reg = reg /\ t.F = f /\ t.ram = ram /\ t.pc = pc /\ t.cycles = cycles /\ t.r = r
BY DEF With

LEMMA WithAgain ==
  ASSUME NEW s, NEW reg, NEW f, NEW ram, NEW pc, NEW c, NEW r,
         NEW reg2, NEW f2, NEW ram2, NEW pc2, NEW c2, NEW r2, NEW t, t = With(s, reg, f, ram, pc, c, r)
  PROVE  With(t, reg2, f2, ram2, pc2, c2, r2) = With(s, reg2, f2, ram2, pc2, c2, r2)
BY DEF With

LEMMA WithAt ==
  ASSUME NEW s, NEW reg, NEW f, NEW ram, NEW pc, NEW c, NEW r,
         NEW pc2, NEW c2, NEW r2, NEW t, t = With(s, reg, f, ram, pc, c, r)
  PROVE  At(t, pc2, c2, r2) = With(s, reg, f, ram, pc2, c2, r2)
BY DEF With, At

LEMMA AtWith ==
  ASSUME NEW s, NEW pc, NEW c, NEW r PROVE At(s, pc, c, r) = With(s, s.reg, s.F, s.ram, pc, c, r)
BY DEF With, At

LEMMA WithOK ==
  ASSUME NEW s \in Cpu, NEW reg \in [ByteRegister -> Byte], NEW f \in SUBSET Flag,
         NEW ram \in [0 .. MemSize - 1 -> Byte], NEW pc \in Word, NEW cycles \in Nat, NEW r \in Byte
  PROVE  With(s, reg, f, ram, pc, cycles, r) \in Cpu
BY DEF With, Cpu

\* The processor's own form: every other field is as it is.
LEMMA WithSelf == ASSUME NEW s \in Cpu PROVE s = With(s, s.reg, s.F, s.ram, s.pc, s.cycles, s.r)
BY DEF With, Cpu

Hi(v) == (v % 65536) \div 256
Lo(v) == (v % 65536) % 256

LEMMA HiLoOK ==
  ASSUME NEW v \in Int PROVE Hi(v) \in Byte /\ Lo(v) \in Byte /\ 256 * Hi(v) + Lo(v) = v % 65536
<1> DEFINE x == v % 65536
<1>1. x \in Word /\ Hi(v) = x \div 256 /\ Lo(v) = x % 256
  BY InWord DEF Hi, Lo
<1> HIDE DEF x
<1>2. x \in Int
  BY <1>1, WordIs
<1>3. 256 * (x \div 256) + (x % 256) = x
  BY <1>2
<1> QED BY <1>1, <1>3, Halves DEF x

LEMMA SameHiLo ==
  ASSUME NEW v, NEW w, v % 65536 = w % 65536 PROVE Hi(v) = Hi(w) /\ Lo(v) = Lo(w)
BY DEF Hi, Lo

LEMMA HiLoBack ==
  ASSUME NEW h \in Byte, NEW l \in Byte PROVE Hi(256 * h + l) = h /\ Lo(256 * h + l) = l
<1> DEFINE x == 256 * h + l
<1>1. h \in Nat /\ h <= 255 /\ l \in Nat /\ l <= 255
  BY ByteIs
<1>2. x % 65536 = x
  BY <1>1
<1>3. x \div 256 = h /\ x % 256 = l
  BY <1>1
<1> QED BY <1>2, <1>3 DEF Hi, Lo

\* The byte registers with BC, DE and HL set.
Regs(reg, bc, de, hl) ==
  [name \in ByteRegister |->
     IF name = "B" THEN Hi(bc) ELSE IF name = "C" THEN Lo(bc) ELSE
     IF name = "D" THEN Hi(de) ELSE IF name = "E" THEN Lo(de) ELSE
     IF name = "H" THEN Hi(hl) ELSE IF name = "L" THEN Lo(hl) ELSE reg[name]]

LEMMA RegsOK ==
  ASSUME NEW reg \in [ByteRegister -> Byte], NEW bc \in Int, NEW de \in Int, NEW hl \in Int
  PROVE  Regs(reg, bc, de, hl) \in [ByteRegister -> Byte]
<1>1. \A v \in Int : Hi(v) \in Byte /\ Lo(v) \in Byte
  BY HiLoOK
<1>2. Hi(bc) \in Byte /\ Lo(bc) \in Byte /\ Hi(de) \in Byte /\ Lo(de) \in Byte /\ Hi(hl) \in Byte /\ Lo(hl) \in Byte
  BY <1>1
<1> HIDE <1>1
<1> QED BY <1>2 DEF Regs

LEMMA RegsAre ==
  ASSUME NEW reg, NEW bc, NEW de, NEW hl, NEW t, t = Regs(reg, bc, de, hl)
  PROVE  /\ t["B"] = Hi(bc) /\ t["C"] = Lo(bc) /\ t["D"] = Hi(de) /\ t["E"] = Lo(de)
         /\ t["H"] = Hi(hl) /\ t["L"] = Lo(hl) /\ t["A"] = reg["A"]
BY DEF Regs, ByteRegister

LEMMA RegsTwice ==
  ASSUME NEW reg, NEW bc, NEW de, NEW hl, NEW bc2, NEW de2, NEW hl2, NEW t, t = Regs(reg, bc, de, hl)
  PROVE  Regs(t, bc2, de2, hl2) = Regs(reg, bc2, de2, hl2)
<1>1. \A name \in ByteRegister \ {"B", "C", "D", "E", "H", "L"} : t[name] = reg[name]
  BY DEF Regs
<1> QED BY <1>1 DEF Regs

LEMMA RegsSame ==
  ASSUME NEW reg, NEW bc, NEW de, NEW hl, NEW bc2, NEW de2, NEW hl2,
         bc % 65536 = bc2 % 65536, de % 65536 = de2 % 65536, hl % 65536 = hl2 % 65536
  PROVE  Regs(reg, bc, de, hl) = Regs(reg, bc2, de2, hl2)
BY SameHiLo DEF Regs

LEMMA RegsBack ==
  ASSUME NEW s \in Cpu PROVE Regs(s.reg, GetW(s, "BC"), GetW(s, "DE"), GetW(s, "HL")) = s.reg
<1>1. /\ s.reg \in [ByteRegister -> Byte]
      /\ s.reg["B"] \in Byte /\ s.reg["C"] \in Byte /\ s.reg["D"] \in Byte
      /\ s.reg["E"] \in Byte /\ s.reg["H"] \in Byte /\ s.reg["L"] \in Byte
  BY FieldsAre DEF ByteRegister
<1>2. /\ GetW(s, "BC") = 256 * s.reg["B"] + s.reg["C"] /\ GetW(s, "DE") = 256 * s.reg["D"] + s.reg["E"]
      /\ GetW(s, "HL") = 256 * s.reg["H"] + s.reg["L"]
  BY DEF GetW, HighOf, LowOf
<1>3. /\ Hi(GetW(s, "BC")) = s.reg["B"] /\ Lo(GetW(s, "BC")) = s.reg["C"]
      /\ Hi(GetW(s, "DE")) = s.reg["D"] /\ Lo(GetW(s, "DE")) = s.reg["E"]
      /\ Hi(GetW(s, "HL")) = s.reg["H"] /\ Lo(GetW(s, "HL")) = s.reg["L"]
  BY <1>1, <1>2, HiLoBack
<1>4. \A name \in ByteRegister : Regs(s.reg, GetW(s, "BC"), GetW(s, "DE"), GetW(s, "HL"))[name] = s.reg[name]
  BY <1>3 DEF Regs
<1>5. Regs(s.reg, GetW(s, "BC"), GetW(s, "DE"), GetW(s, "HL"))
        = [name \in ByteRegister |-> Regs(s.reg, GetW(s, "BC"), GetW(s, "DE"), GetW(s, "HL"))[name]]
  BY DEF Regs
<1>6. s.reg = [name \in ByteRegister |-> s.reg[name]]
  BY <1>1
<1> QED BY <1>4, <1>5, <1>6

\* What the pairs are afterwards.
LEMMA PairsOf ==
  ASSUME NEW s, NEW reg \in [ByteRegister -> Byte], NEW bc \in Int, NEW de \in Int, NEW hl \in Int,
         s.reg = Regs(reg, bc, de, hl)
  PROVE  GetW(s, "BC") = bc % 65536 /\ GetW(s, "DE") = de % 65536 /\ GetW(s, "HL") = hl % 65536
<1>1. /\ s.reg["B"] = Hi(bc) /\ s.reg["C"] = Lo(bc) /\ s.reg["D"] = Hi(de) /\ s.reg["E"] = Lo(de)
      /\ s.reg["H"] = Hi(hl) /\ s.reg["L"] = Lo(hl)
  BY RegsAre
<1>2. /\ GetW(s, "BC") = 256 * Hi(bc) + Lo(bc) /\ GetW(s, "DE") = 256 * Hi(de) + Lo(de)
      /\ GetW(s, "HL") = 256 * Hi(hl) + Lo(hl)
  BY <1>1 DEF GetW, HighOf, LowOf
<1> QED BY <1>2, HiLoOK

\* Setting a pair sets two registers.
LEMMA SetPairIs ==
  ASSUME NEW s \in Cpu, NEW w \in Pair, NEW v \in Int
  PROVE  SetW(s, w, v)
           = With(s, [[s.reg EXCEPT ![HighOf[w]] = Hi(v)] EXCEPT ![LowOf[w]] = Lo(v)], s.F, s.ram, s.pc, s.cycles, s.r)
<1> DEFINE x == v % 65536
<1>1. SetW(s, w, v) = [s EXCEPT !.reg[HighOf[w]] = Hi(v), !.reg[LowOf[w]] = Lo(v)]
  BY PairsAre DEF SetW, Hi, Lo
<1>2. [s EXCEPT !.reg[HighOf[w]] = Hi(v), !.reg[LowOf[w]] = Lo(v)]
        = [s EXCEPT !.reg = [[s.reg EXCEPT ![HighOf[w]] = Hi(v)] EXCEPT ![LowOf[w]] = Lo(v)]]
  BY DEF Cpu
<1>3. \A reg : [s EXCEPT !.reg = reg] = With(s, reg, s.F, s.ram, s.pc, s.cycles, s.r)
  BY DEF With, Cpu
<1> QED BY <1>1, <1>2, <1>3

-----------------------------------------------------------------------------
(* One element of a block instruction.                                     *)

Put(reg, w, v) == [[reg EXCEPT ![HighOf[w]] = Hi(v)] EXCEPT ![LowOf[w]] = Lo(v)]

LEMMA PutRegs ==
  ASSUME NEW reg, NEW bc, NEW de, NEW hl, NEW v
  PROVE  /\ Put(Regs(reg, bc, de, hl), "BC", v) = Regs(reg, v, de, hl)
         /\ Put(Regs(reg, bc, de, hl), "DE", v) = Regs(reg, bc, v, hl)
         /\ Put(Regs(reg, bc, de, hl), "HL", v) = Regs(reg, bc, de, v)
<1>1. /\ HighOf["BC"] = "B" /\ LowOf["BC"] = "C" /\ HighOf["DE"] = "D" /\ LowOf["DE"] = "E"
      /\ HighOf["HL"] = "H" /\ LowOf["HL"] = "L"
  BY DEF HighOf, LowOf
<1>2. Put(Regs(reg, bc, de, hl), "BC", v) = Regs(reg, v, de, hl)
  BY <1>1 DEF Put, Regs, ByteRegister
<1>3. Put(Regs(reg, bc, de, hl), "DE", v) = Regs(reg, bc, v, hl)
  BY <1>1 DEF Put, Regs, ByteRegister
<1>4. Put(Regs(reg, bc, de, hl), "HL", v) = Regs(reg, bc, de, v)
  BY <1>1 DEF Put, Regs, ByteRegister
<1> QED BY <1>2, <1>3, <1>4

LEMMA SetPairWith ==
  ASSUME NEW u, NEW reg, NEW bc, NEW de, NEW hl, NEW f, NEW ram, NEW pc, NEW c, NEW r, NEW v \in Int,
         NEW s \in Cpu, s = With(u, Regs(reg, bc, de, hl), f, ram, pc, c, r)
  PROVE  /\ SetW(s, "BC", v) = With(u, Regs(reg, v, de, hl), f, ram, pc, c, r) /\ SetW(s, "BC", v) \in Cpu
         /\ SetW(s, "DE", v) = With(u, Regs(reg, bc, v, hl), f, ram, pc, c, r) /\ SetW(s, "DE", v) \in Cpu
         /\ SetW(s, "HL", v) = With(u, Regs(reg, bc, de, v), f, ram, pc, c, r) /\ SetW(s, "HL", v) \in Cpu
<1>1. ASSUME NEW w \in {"BC", "DE", "HL"}
      PROVE  SetW(s, w, v) = With(u, Put(s.reg, w, v), f, ram, pc, c, r) /\ SetW(s, w, v) \in Cpu
  <2>1. w \in Pair /\ w \in WordRegister
    BY DEF Pair, WordRegister
  <2>2. SetW(s, w, v) = With(s, Put(s.reg, w, v), s.F, s.ram, s.pc, s.cycles, s.r)
    BY <2>1, SetPairIs DEF Put
  <2>3. s.F = f /\ s.ram = ram /\ s.pc = pc /\ s.cycles = c /\ s.r = r
    BY WithFields
  <2>4. SetW(s, w, v) = With(s, Put(s.reg, w, v), f, ram, pc, c, r)
    BY <2>2, <2>3
  <2> QED BY <2>1, <2>4, WithAgain, SetWOK
<1>2. s.reg = Regs(reg, bc, de, hl)
  BY WithFields
<1> QED BY <1>1, <1>2, PutRegs

\* HL, DE and BC stored: the registers the loop has counted in.
LEMMA StoredIs ==
  ASSUME NEW s \in Cpu, NEW b \in BlockLocals
  PROVE  StoredBlock(s, b) = With(s, Regs(s.reg, b.bc, b.de, b.hl), s.F, s.ram, s.pc, s.cycles, s.r)
<1> DEFINE s1 == SetW(s, "HL", b.hl)
           s2 == SetW(s1, "DE", b.de)
<1>1. b.bc \in Int /\ b.de \in Int /\ b.hl \in Int
  BY DEF BlockLocals
<1>2. s = With(s, Regs(s.reg, GetW(s, "BC"), GetW(s, "DE"), GetW(s, "HL")), s.F, s.ram, s.pc, s.cycles, s.r)
  BY WithSelf, RegsBack
<1>3. /\ s1 = With(s, Regs(s.reg, GetW(s, "BC"), GetW(s, "DE"), b.hl), s.F, s.ram, s.pc, s.cycles, s.r)
      /\ s1 \in Cpu
  BY <1>1, <1>2, SetPairWith
<1>4. StoredBlock(s, b) = SetW(s2, "BC", b.bc)
  BY DEF StoredBlock
<1> HIDE DEF s1
<1>5. /\ s2 = With(s, Regs(s.reg, GetW(s, "BC"), b.de, b.hl), s.F, s.ram, s.pc, s.cycles, s.r)
      /\ s2 \in Cpu
  BY <1>1, <1>3, SetPairWith
<1> HIDE DEF s2
<1> QED BY <1>1, <1>4, <1>5, SetPairWith

Poked(ram, a, n) == [ram EXCEPT ![a % MemSize] = n % 256]

LEMMA WriteIs ==
  ASSUME NEW u, NEW reg, NEW f, NEW ram, NEW pc, NEW c, NEW r, NEW a \in Int, NEW n \in Int,
         NEW s \in Cpu, s = With(u, reg, f, ram, pc, c, r)
  PROVE  WriteByte(s, a, n) = With(u, reg, f, Poked(ram, a, n), pc, c, r) /\ WriteByte(s, a, n) \in Cpu
<1>1. WriteByte(s, a, n) = With(s, s.reg, s.F, Poked(s.ram, a, n), s.pc, s.cycles, s.r)
  BY DEF WriteByte, Poked, With, Cpu
<1>2. s.reg = reg /\ s.F = f /\ s.ram = ram /\ s.pc = pc /\ s.cycles = c /\ s.r = r
  BY WithFields
<1>3. WriteByte(s, a, n) = With(s, reg, f, Poked(ram, a, n), pc, c, r)
  BY <1>1, <1>2
<1> QED BY <1>3, WithAgain, WriteByteOK

Flagged(s, g) == [s EXCEPT !.F = g]

LEMMA FlaggedIs ==
  ASSUME NEW u, NEW reg, NEW f, NEW ram, NEW pc, NEW c, NEW r, NEW g,
         NEW s, s = With(u, reg, f, ram, pc, c, r)
  PROVE  Flagged(s, g) = With(u, reg, g, ram, pc, c, r)
BY DEF With, Flagged

LEMMA CyclesWith ==
  ASSUME NEW u, NEW reg, NEW f, NEW ram, NEW pc, NEW c, NEW r, NEW n, NEW c2, c2 = c + n,
         NEW s, s = With(u, reg, f, ram, pc, c, r)
  PROVE  Cycles(s, n) = With(u, reg, f, ram, pc, c2, r)
<1>1. Cycles(s, n) = [s EXCEPT !.cycles = s.cycles + n]
  BY DEF Cycles
<1>2. s.cycles = c
  BY WithFields
<1> QED BY <1>1, <1>2 DEF With

LEMMA RefreshedWith ==
  ASSUME NEW u, NEW reg, NEW f, NEW ram, NEW pc, NEW c, NEW r, NEW r2, r2 = Fresh(r, 1),
         NEW s, s = With(u, reg, f, ram, pc, c, r)
  PROVE  Refreshed(s) = With(u, reg, f, ram, pc, c, r2)
<1>1. Refreshed(s) = [s EXCEPT !.r = Fresh(s.r, 1)]
  BY DEF Refreshed, Fresh
<1>2. s.r = r
  BY WithFields
<1> QED BY <1>1, <1>2 DEF With

LEMMA JumpWith ==
  ASSUME NEW u, NEW reg, NEW f, NEW ram, NEW pc, NEW c, NEW r, NEW t, NEW pc2, pc2 = t % 65536,
         NEW s, s = With(u, reg, f, ram, pc, c, r)
  PROVE  Jump(s, t) = With(u, reg, f, ram, pc2, c, r)
<1>1. Jump(s, t) = [s EXCEPT !.pc = pc2]
  BY DEF Jump
<1> QED BY <1>1 DEF With

LEMMA SameAddress ==
  ASSUME NEW a \in Int, NEW n PROVE /\ \A ram : Poked(ram, a % 65536, n) = Poked(ram, a, n)
                                    /\ \A s : ReadByte(s, a % 65536) = ReadByte(s, a)
<1>1. (a % 65536) % MemSize = a % MemSize
  BY SameByte
<1> QED BY <1>1 DEF Poked, ReadByte

LEMMA ElementIs ==
  ASSUME NEW u, NEW reg \in [ByteRegister -> Byte], NEW bc \in Int, NEW de \in Int, NEW hl \in Int,
         NEW f, NEW ram, NEW pc, NEW c, NEW r, NEW opcode, NEW ins, NEW n, NEW left, NEW k \in Int,
         NEW s \in Cpu, s = With(u, Regs(reg, bc, de, hl), f, ram, pc, c, r),
         n = ReadByte(s, hl), left = (bc - 1) % 65536, k = Towards(opcode)
  PROVE  /\ ins.op = "LDI_LDD" =>
              BlockOnce(s, "HL", opcode, ins)
                = With(u, Regs(reg, bc - 1, de + k, hl + k), CopyFlags(n, reg["A"], left, f), Poked(ram, de, n),
                       pc, c + (3 + 3 + 2), r)
         /\ ins.op = "CPI_CPD" =>
              BlockOnce(s, "HL", opcode, ins)
                = With(u, Regs(reg, bc - 1, de, hl + k), SearchFlags(n, reg["A"], left, f), ram, pc, c + (3 + 5), r)
<1> DEFINE t == SetW(SetW(s, "BC", left), "HL", GetW(s, "HL") + k)
<1>1. s.reg = Regs(reg, bc, de, hl) /\ s.F = f /\ s.reg["A"] = reg["A"]
  BY WithFields, RegsAre
<1>2. GetW(s, "BC") = bc % 65536 /\ GetW(s, "DE") = de % 65536 /\ GetW(s, "HL") = hl % 65536
  BY <1>1, PairsOf
<1>3. ReadByte(s, GetW(s, "HL")) = n /\ n \in Byte
  BY <1>2, SameAddress, ReadByteOK
<1>4. (GetW(s, "BC") - 1) % 65536 = left
  <2>1. ((bc % 65536) + (-1)) % 65536 = (bc + (-1)) % 65536
    BY ModTwice
  <2> QED BY <1>2, <2>1
<1>5. left \in Int /\ left % 65536 = (bc - 1) % 65536
  OBVIOUS
<1>6. (GetW(s, "HL") + k) % 65536 = (hl + k) % 65536 /\ (GetW(s, "DE") + k) % 65536 = (de + k) % 65536
  BY <1>2, ModTwice
<1>7. GetW(s, "HL") + k \in Int /\ GetW(s, "DE") + k \in Int /\ GetW(s, "DE") \in Int
  BY <1>2
<1> DEFINE hl2 == GetW(s, "HL") + k
           de2 == GetW(s, "DE") + k
           s1  == SetW(s, "BC", left)
<1>8. hl2 % 65536 = (hl + k) % 65536 /\ de2 % 65536 = (de + k) % 65536 /\ hl2 \in Int /\ de2 \in Int
  BY <1>6, <1>7
<1> HIDE DEF hl2, de2
<1>9. s1 = With(u, Regs(reg, left, de, hl), f, ram, pc, c, r) /\ s1 \in Cpu
  BY <1>5, SetPairWith
<1> HIDE DEF s1
<1> DEFINE s2 == SetW(s1, "HL", hl2)
<1>10. s2 = With(u, Regs(reg, left, de, hl2), f, ram, pc, c, r) /\ s2 \in Cpu
  <2>1. hl2 \in Int
    BY <1>8
  <2> QED BY <1>9, <2>1, SetPairWith
<1>11. t = s2
  BY DEF hl2, s1
<1> HIDE DEF s2, t
<1>12. ASSUME ins.op = "LDI_LDD"
       PROVE  BlockOnce(s, "HL", opcode, ins)
                = With(u, Regs(reg, bc - 1, de + k, hl + k), CopyFlags(n, reg["A"], left, f), Poked(ram, de, n),
                       pc, c + (3 + 3 + 2), r)
  <2> DEFINE s3 == SetW(s2, "DE", de2)
             s4 == WriteByte(s3, GetW(s, "DE"), n)
             g  == CopyFlags(n, reg["A"], left, f)
             s5 == Flagged(s4, g)
  <2>1. BlockOnce(s, "HL", opcode, ins) = Cycles(s5, 3 + 3 + 2)
    <3>1. BlockOnce(s, "HL", opcode, ins)
            = Cycles([WriteByte(SetW(t, "DE", de2), GetW(s, "DE"), n)
                       EXCEPT !.F = CopyFlags(n, s.reg["A"], left, s.F)], 3 + 3 + 2)
      BY <1>3, <1>4, <1>12 DEF BlockOnce, t, de2
    <3> QED BY <1>1, <1>11, <3>1 DEF Flagged
  <2>2. s3 = With(u, Regs(reg, left, de2, hl2), f, ram, pc, c, r) /\ s3 \in Cpu
    <3>1. de2 \in Int
      BY <1>8
    <3> QED BY <1>10, <3>1, SetPairWith
  <2> HIDE DEF s3, g
  <2>3. s4 = With(u, Regs(reg, left, de2, hl2), f, Poked(ram, GetW(s, "DE"), n), pc, c, r)
    BY <1>3, <1>7, <2>2, ByteIs, WriteIs
  <2>4. Poked(ram, GetW(s, "DE"), n) = Poked(ram, de, n)
    BY <1>2, SameAddress
  <2>5. Regs(reg, left, de2, hl2) = Regs(reg, bc - 1, de + k, hl + k)
    BY <1>5, <1>8, RegsSame
  <2> HIDE DEF s4
  <2> DEFINE regs == Regs(reg, bc - 1, de + k, hl + k)
             ram2 == Poked(ram, de, n)
  <2> HIDE DEF regs, ram2
  <2>6. s4 = With(u, regs, f, ram2, pc, c, r)
    BY <2>3, <2>4, <2>5 DEF regs, ram2
  <2>7. s5 = With(u, regs, g, ram2, pc, c, r)
    BY <2>6, FlaggedIs
  <2> HIDE DEF s5
  <2> DEFINE c2 == c + (3 + 3 + 2)
  <2>8. c2 = c + (3 + 3 + 2)
    OBVIOUS
  <2> HIDE DEF c2
  <2>9. Cycles(s5, 3 + 3 + 2) = With(u, regs, g, ram2, pc, c2, r)
    BY <2>7, <2>8, CyclesWith
  <2> QED BY <2>1, <2>9 DEF g, regs, ram2, c2
<1>13. ASSUME ins.op = "CPI_CPD"
       PROVE  BlockOnce(s, "HL", opcode, ins)
                = With(u, Regs(reg, bc - 1, de, hl + k), SearchFlags(n, reg["A"], left, f), ram, pc, c + (3 + 5), r)
  <2> DEFINE g  == SearchFlags(n, reg["A"], left, f)
             s5 == Flagged(s2, g)
  <2>1. BlockOnce(s, "HL", opcode, ins) = Cycles(s5, 3 + 5)
    <3>1. BlockOnce(s, "HL", opcode, ins) = Cycles([t EXCEPT !.F = SearchFlags(n, s.reg["A"], left, s.F)], 3 + 5)
      BY <1>3, <1>4, <1>13 DEF BlockOnce, t
    <3> QED BY <1>1, <1>11, <3>1 DEF Flagged
  <2> HIDE DEF g
  <2>2. Regs(reg, left, de, hl2) = Regs(reg, bc - 1, de, hl + k)
    BY <1>5, <1>8, RegsSame
  <2> DEFINE regs == Regs(reg, bc - 1, de, hl + k)
  <2> HIDE DEF regs
  <2>3. s2 = With(u, regs, f, ram, pc, c, r)
    BY <1>10, <2>2 DEF regs
  <2>4. s5 = With(u, regs, g, ram, pc, c, r)
    BY <2>3, FlaggedIs
  <2> HIDE DEF s5
  <2> DEFINE c2 == c + (3 + 5)
  <2>5. c2 = c + (3 + 5)
    OBVIOUS
  <2> HIDE DEF c2
  <2>6. Cycles(s5, 3 + 5) = With(u, regs, g, ram, pc, c2, r)
    BY <2>4, <2>5, CyclesWith
  <2> QED BY <2>1, <2>6 DEF g, regs, c2
<1> QED BY <1>12, <1>13

-----------------------------------------------------------------------------
(* The flags an element leaves: which of the earlier ones they depend on.  *)

LEMMA OnIs == ASSUME NEW b, NEW x PROVE On(b, x) \subseteq {x}
BY DEF On

\* LDI and its like keep S, Z and C and set the others anew.
LEMMA CopyFlagsKeep ==
  ASSUME NEW n, NEW a, NEW bc, NEW f
  PROVE  CopyFlags(n, a, bc, f) \cap SZC = f \cap SZC
<1> DEFINE m == n + a
           x == On(Bit(m, 3), "X")
           y == On(Bit(m, 1), "Y")
           v == IF bc # 0 THEN {"PV"} ELSE {}
<1>1. CopyFlags(n, a, bc, f) = (f \cap SZC) \cup x \cup y \cup v
  BY DEF CopyFlags
<1>2. x \subseteq {"X"} /\ y \subseteq {"Y"} /\ v \subseteq {"PV"}
  BY OnIs
<1> HIDE DEF x, y, v
<1>3. "X" \notin SZC /\ "Y" \notin SZC /\ "PV" \notin SZC
  BY DEF SZC
<1> QED BY <1>1, <1>2, <1>3

LEMMA CopyFlagsSame ==
  ASSUME NEW n, NEW a, NEW bc, NEW bc2, NEW f, NEW g, f \cap SZC = g \cap SZC, (bc # 0) <=> (bc2 # 0)
  PROVE  CopyFlags(n, a, bc, f) = CopyFlags(n, a, bc2, g)
BY DEF CopyFlags

\* CPI and its like keep C only.
LEMMA SearchFlagsAre ==
  ASSUME NEW n \in Byte, NEW a \in Byte, NEW bc, NEW f
  PROVE  /\ SearchFlags(n, a, bc, f) \cap {"C"} = f \cap {"C"}
         /\ "Z" \in SearchFlags(n, a, bc, f) <=> a = n
<1> DEFINE z == a - n
           h == CarryInto(4, a, n, z)
           m == z - h
           x == On(h, "H")
           y == On(Bit(m, 3), "X")
           w == On(Bit(m, 1), "Y")
           t == SZYX_FLAGS_TABLE[z % 256]
           v == IF bc # 0 THEN {"PV"} ELSE {}
<1>1. SearchFlags(n, a, bc, f) = x \cup y \cup w \cup (t \cap {"S", "Z"}) \cup v \cup {"N"} \cup (f \cap {"C"})
  BY DEF SearchFlags
<1>2. x \subseteq {"H"} /\ y \subseteq {"X"} /\ w \subseteq {"Y"} /\ v \subseteq {"PV"}
  BY OnIs
<1>3. a \in Nat /\ a <= 255 /\ n \in Nat /\ n <= 255
  BY ByteIs
<1>4. z % 256 \in Byte /\ (z % 256 = 0 <=> a = n)
  <2>1. z \in Int
    BY <1>3
  <2>2. z % 256 = 0 <=> a = n
    BY <1>3
  <2> QED BY <2>1, <2>2, InByte
<1>5. "Z" \in t <=> a = n
  <2> DEFINE u == z % 256
  <2>1. u \in Byte /\ (u = 0 <=> a = n)
    BY <1>4
  <2> HIDE DEF u
  <2>2. SZYX_FLAGS_TABLE[u] \ YX = (IF u = 0 THEN {"Z"} ELSE {}) \cup (IF u >= 128 THEN {"S"} ELSE {})
    BY <2>1, SignAndZero
  <2>3. "Z" \notin YX
    BY DEF YX
  <2>4. "Z" \in SZYX_FLAGS_TABLE[u] <=> u = 0
    BY <2>2, <2>3
  <2> QED BY <2>1, <2>4 DEF u
<1> HIDE DEF x, y, w, t, v
<1>6. SearchFlags(n, a, bc, f) \cap {"C"} = f \cap {"C"}
  BY <1>1, <1>2
<1>7. "Z" \in SearchFlags(n, a, bc, f) <=> "Z" \in t
  BY <1>1, <1>2
<1> QED BY <1>5, <1>6, <1>7

LEMMA SearchFlagsSame ==
  ASSUME NEW n, NEW a, NEW bc, NEW bc2, NEW f, NEW g, f \cap {"C"} = g \cap {"C"}, (bc # 0) <=> (bc2 # 0)
  PROVE  SearchFlags(n, a, bc, f) = SearchFlags(n, a, bc2, g)
BY DEF SearchFlags

-----------------------------------------------------------------------------
(* The processor that executes the next element.                           *)

\* Between two turns: the registers stored and pc back on the instruction.
Resumed(s, b, f) == Flagged(Jump(StoredBlock(s, b), s.pc - 2), f)

LEMMA ResumedIs ==
  ASSUME NEW s \in Cpu, NEW b \in BlockLocals, NEW f \in SUBSET Flag, NEW pc, pc = (s.pc - 2) % 65536
  PROVE  /\ Resumed(s, b, f) = With(s, Regs(s.reg, b.bc, b.de, b.hl), f, s.ram, pc, s.cycles, s.r)
         /\ Resumed(s, b, f) \in Cpu
<1> DEFINE regs == Regs(s.reg, b.bc, b.de, b.hl)
           t == StoredBlock(s, b)
           u == Jump(t, s.pc - 2)
<1>1. t = With(s, regs, s.F, s.ram, s.pc, s.cycles, s.r)
  BY StoredIs
<1>2. regs \in [ByteRegister -> Byte]
  BY FieldsAre, RegsOK DEF BlockLocals
<1> HIDE DEF regs, t
<1>3. u = With(s, regs, s.F, s.ram, pc, s.cycles, s.r)
  BY <1>1, JumpWith
<1> HIDE DEF u
<1>4. Flagged(u, f) = With(s, regs, f, s.ram, pc, s.cycles, s.r)
  BY <1>3, FlaggedIs
<1>5. pc \in Word
  BY PcIs, InWord
<1>6. With(s, regs, f, s.ram, pc, s.cycles, s.r) \in Cpu
  BY <1>2, <1>5, FieldsAre, WithOK
<1> QED BY <1>4, <1>6 DEF Resumed, regs, t, u

\* The flags the loop has left, had it stopped after its last turn.
FlagsLeft(of, s, b) ==
  IF of = "copy" THEN CopyFlags(b.n, s.reg["A"], b.bc, s.F) ELSE SearchFlags(b.n, s.reg["A"], b.bc, s.F)

LEMMA RepeatedIs == Repeated = Resumed(cpu, blk, FlagsLeft(phase, cpu, blk))
BY DEF Repeated, Resumed, FlagsLeft, Flagged

\* The flags an element of that kind keeps.
Kept(of) == IF of = "copy" THEN SZC ELSE {"C"}

LEMMA FlagsLeftAre ==
  ASSUME NEW of, NEW s \in Cpu, NEW b \in BlockLocals
  PROVE  FlagsLeft(of, s, b) \in SUBSET Flag /\ FlagsLeft(of, s, b) \cap Kept(of) = s.F \cap Kept(of)
<1>1. s.F \in SUBSET Flag /\ s.reg["A"] \in Byte /\ b.n \in Byte
  BY FieldsAre DEF ByteRegister, BlockLocals
<1>2. CASE of = "copy"
  BY <1>1, <1>2, CopyFlagsOK, CopyFlagsKeep DEF FlagsLeft, Kept
<1>3. CASE of # "copy"
  BY <1>1, <1>3, SearchFlagsOK, SearchFlagsAre DEF FlagsLeft, Kept
<1> QED BY <1>2, <1>3

\* What the next turn of the loop executes: f are flags of which only those count that
\* the instruction keeps.
NextElement(v, f) ==
  /\ Machine!Current = [s |-> v, p |-> "HL", opcode |-> cur.opcode, ins |-> cur.ins]
  /\ v = With(cpu, Regs(cpu.reg, blk.bc, blk.de, blk.hl), f, cpu.ram, cpu.pc, cpu.cycles + 8, Fresh(cpu.r, 2))
  /\ f \cap Kept(phase) = cpu.F \cap Kept(phase)

LEMMA FreshBack == ASSUME NEW r \in Byte PROVE Fresh(Fresh(r, -2), 2) = r
<1>1. r \in Int /\ -2 \in Int /\ 2 \in Int /\ -2 + 2 = 0
  BY ByteIs
<1>2. Fresh(Fresh(r, -2), 2) = Fresh(r, 0)
  BY <1>1, FreshTwice
<1>3. Fresh(r, 0) = r
  BY <1>1 DEF Fresh
<1> QED BY <1>2, <1>3

LEMMA FirstElement ==
  ASSUME Sound, Looping, phase \in Blocks, blk.turns = 0
  PROVE  \E v \in Cpu : NextElement(v, cpu.F)
<1>1. PICK n : \E s \in Cpu : Entered(Before(cpu), n, s)
  BY DEF Looping
<1>2. PICK s \in Cpu : Entered(Before(cpu), n, s)
  BY <1>1
<1>3. /\ begun.bus = NoOpcode /\ cur.p = "HL" /\ cur.ins.op \notin PREFIXES
  <2>1. cur.ins.op \in REPEATED /\ cur.p = "HL" /\ begun.bus = NoOpcode
    BY DEF Looping, ReadAs, REPEATED
  <2> QED BY <2>1 DEF REPEATED, PREFIXES
<1>4. Processor = Before(cpu) /\ Bus = NoOpcode /\ Machine!NoOpcode = NoOpcode
  BY <1>3 DEF Processor, Bus, Midway, Between, Blocks, Machine!NoOpcode, NoOpcode
<1>5. cpu \in Cpu /\ Before(cpu) \in Cpu
  BY BeforeIs DEF Sound, Shapes
<1>6. Machine!Decoded(Before(cpu)) = [s |-> s, p |-> cur.p, opcode |-> cur.opcode, ins |-> cur.ins]
  <2>1. Prefixed(Before(cpu), n) /\ Reads(Before(cpu), n, s, cur)
    BY <1>2 DEF Entered, Reads
  <2> QED BY <1>3, <1>5, <2>1, DecodedIs
<1>7. Machine!Current = [s |-> s, p |-> "HL", opcode |-> cur.opcode, ins |-> cur.ins]
  BY <1>3, <1>4, <1>6 DEF Machine!Current
<1>8. /\ s.cycles >= 8 /\ cpu = Uncounted(s)
      /\ blk.bc = GetW(cpu, "BC") /\ blk.de = GetW(cpu, "DE") /\ blk.hl = GetW(cpu, "HL")
  BY <1>2 DEF Entered
<1>9. cpu = At(s, s.pc, s.cycles - 8, Fresh(s.r, -2))
  BY <1>8, UncountedIs
<1> DEFINE c0 == s.cycles - 8
           r0 == Fresh(s.r, -2)
<1>10. c0 + 8 = s.cycles /\ Fresh(r0, 2) = s.r
  BY FieldsAre, FreshBack
<1>11. cpu = At(s, s.pc, c0, r0)
  BY <1>9
<1> HIDE DEF c0, r0
<1>12. cpu.pc = s.pc /\ cpu.cycles = c0 /\ cpu.r = r0
  BY <1>11, AtFields
<1>13. At(cpu, cpu.pc, cpu.cycles + 8, Fresh(cpu.r, 2)) = s
  BY <1>10, <1>11, <1>12, AtAgain, AtSelf
<1>14. At(cpu, cpu.pc, cpu.cycles + 8, Fresh(cpu.r, 2))
         = With(cpu, cpu.reg, cpu.F, cpu.ram, cpu.pc, cpu.cycles + 8, Fresh(cpu.r, 2))
  BY AtWith
<1>15. Regs(cpu.reg, blk.bc, blk.de, blk.hl) = cpu.reg
  BY <1>5, <1>8, RegsBack
<1>16. s = With(cpu, Regs(cpu.reg, blk.bc, blk.de, blk.hl), cpu.F, cpu.ram, cpu.pc, cpu.cycles + 8, Fresh(cpu.r, 2))
  BY <1>13, <1>14, <1>15
<1> QED BY <1>7, <1>16 DEF NextElement

LEMMA LaterElement ==
  ASSUME Sound, Looping, BlocksStay, phase \in Blocks, blk.turns > 0
  PROVE  \E v \in Cpu : NextElement(v, FlagsLeft(phase, cpu, blk))
<1> DEFINE f  == FlagsLeft(phase, cpu, blk)
           b  == Resumed(cpu, blk, f)
           pc == (cpu.pc - 2) % 65536
           regs == Regs(cpu.reg, blk.bc, blk.de, blk.hl)
           s  == Machine!M1(b, 2)
<1>1. cpu \in Cpu /\ blk \in BlockLocals /\ cpu.pc \in Word /\ cur.opcode \in Byte
  BY FieldsAre DEF Sound, Shapes, BlockLocals
<1>2. f \in SUBSET Flag /\ f \cap Kept(phase) = cpu.F \cap Kept(phase)
  BY <1>1, FlagsLeftAre
<1> HIDE DEF f
<1>3. b = With(cpu, regs, f, cpu.ram, pc, cpu.cycles, cpu.r) /\ b \in Cpu
  BY <1>1, <1>2, ResumedIs
<1>4. pc \in Int /\ (pc + 2) % 65536 = cpu.pc /\ pc % 65536 = (cpu.pc - 2) % 65536
      /\ (pc + 1) % 65536 = (cpu.pc - 1) % 65536 /\ cpu.pc - 2 \in Int /\ cpu.pc - 1 \in Int
  <2>1. cpu.pc \in Nat /\ cpu.pc <= 65535
    BY <1>1, WordIs
  <2> QED BY <2>1
<1>5. Processor = b /\ Bus = NoOpcode /\ Machine!NoOpcode = NoOpcode
  <2>1. Midway
    BY DEF Midway, Blocks
  <2> QED BY <2>1, RepeatedIs DEF Processor, Bus, Machine!NoOpcode, NoOpcode, f
<1>6. b.ram = cpu.ram /\ b.pc = pc /\ b.cycles = cpu.cycles /\ b.r = cpu.r
  BY <1>3, WithFields
<1>7. ReadByte(cpu, cpu.pc - 2) = 237 /\ ReadByte(cpu, cpu.pc - 1) = cur.opcode
  BY DEF BlocksStay, Blocks
<1>8. Machine!Opcode(b, 0) = 237
  <2> DEFINE a == (pc + 0) % 65536
  <2>1. a % 65536 = (cpu.pc - 2) % 65536 /\ a \in Int
    BY <1>4
  <2>2. a % MemSize = (cpu.pc - 2) % MemSize
    BY <1>4, <2>1, SameByte
  <2>3. Machine!Opcode(b, 0) = cpu.ram[a % MemSize]
    BY <1>6 DEF Machine!Opcode, ReadByte
  <2> HIDE DEF a
  <2> QED BY <1>7, <2>2, <2>3 DEF ReadByte
<1>9. Machine!Opcode(b, 1) = cur.opcode
  <2> DEFINE a == (pc + 1) % 65536
  <2>1. a % 65536 = (cpu.pc - 1) % 65536 /\ a \in Int
    BY <1>4
  <2>2. a % MemSize = (cpu.pc - 1) % MemSize
    BY <1>4, <2>1, SameByte
  <2>3. Machine!Opcode(b, 1) = cpu.ram[a % MemSize]
    BY <1>6 DEF Machine!Opcode, ReadByte
  <2> HIDE DEF a
  <2> QED BY <1>7, <2>2, <2>3 DEF ReadByte
<1>10. Machine!Op(b, 0) = "ED_PREFIX"
  <2>1. INSTRUCTION_TABLE[237] = LastQuarter(5, 5)
    BY DEF INSTRUCTION_TABLE, Y, Z
  <2>2. LastQuarter(5, 5) = Plain("ED_PREFIX")
    BY DEF LastQuarter
  <2>3. INSTRUCTION_TABLE[237].op = "ED_PREFIX"
    BY <2>1, <2>2, PlainIs
  <2>4. Machine!Op(b, 0) = INSTRUCTION_TABLE[237].op
    BY <1>8 DEF Machine!Op
  <2> QED BY <2>3, <2>4
<1>11. ReadAs(cur, "HL", cur.opcode, ED_INSTRUCTION_TABLE) /\ cur.ins.op \notin PREFIXES
  BY DEF Looping, REPEATED, PREFIXES
<1>12. Prefixed(b, 0) /\ ReadEd(b, 0, s, cur)
  <2>1. 0 + 2 = 2 /\ 0 + 1 = 1
    OBVIOUS
  <2>2. Prefixed(b, 0)
    BY DEF Prefixed
  <2>3. ReadEd(b, 0, s, cur)
    BY <1>9, <1>10, <1>11, <2>1 DEF ReadEd, ReadAs
  <2> QED BY <2>2, <2>3
<1> HIDE DEF b, pc, regs
<1>13. s = With(cpu, regs, f, cpu.ram, cpu.pc, cpu.cycles + 8, Fresh(cpu.r, 2)) /\ s \in Cpu
  <2> DEFINE p2 == (pc + 2) % 65536
             c2 == cpu.cycles + 4 * 2
             r2 == Fresh(cpu.r, 2)
  <2>1. s = [b EXCEPT !.pc = p2, !.cycles = c2, !.r = r2]
    BY <1>6 DEF Machine!M1, Fresh
  <2>2. p2 = cpu.pc /\ c2 = cpu.cycles + 8 /\ c2 \in Nat /\ r2 \in Byte
    <3>1. p2 = cpu.pc
      BY <1>4
    <3>2. cpu.cycles \in Nat /\ cpu.r \in Byte
      BY <1>1, FieldsAre
    <3>3. c2 = cpu.cycles + 8 /\ c2 \in Nat
      BY <3>2
    <3>4. 2 \in Int
      OBVIOUS
    <3>5. Fresh(cpu.r, 2) \in Byte
      BY <3>2, <3>4, FreshOK
    <3> QED BY <3>1, <3>3, <3>5
  <2>3. regs \in [ByteRegister -> Byte]
    BY <1>1, FieldsAre, RegsOK DEF BlockLocals, regs
  <2> HIDE DEF p2, c2, r2, s
  <2>4. s = With(cpu, regs, f, cpu.ram, p2, c2, r2)
    BY <1>3, <2>1 DEF With
  <2>5. s \in Cpu
    BY <1>1, <1>2, <2>2, <2>3, <2>4, FieldsAre, WithOK
  <2> QED BY <2>2, <2>4, <2>5 DEF r2
<1>14. Machine!Decoded(b) = [s |-> s, p |-> cur.p, opcode |-> cur.opcode, ins |-> cur.ins]
  <2>1. Reads(b, 0, s, cur)
    BY <1>12 DEF Reads
  <2> HIDE DEF s
  <2> QED BY <1>3, <1>11, <1>12, <2>1, DecodedIs
<1>15. cur.p = "HL"
  BY <1>11 DEF ReadAs
<1>16. Machine!Current = [s |-> s, p |-> "HL", opcode |-> cur.opcode, ins |-> cur.ins]
  BY <1>5, <1>14, <1>15 DEF Machine!Current
<1> HIDE DEF s
<1>17. NextElement(s, f)
  BY <1>2, <1>13, <1>16 DEF NextElement, regs
<1> QED BY <1>13, <1>17 DEF f

-----------------------------------------------------------------------------
(* A turn of a block loop is an element of the instruction.                *)

LEMMA EdQuarterIs ==
  ASSUME NEW y \in 0 .. 7, NEW z \in 0 .. 7 PROVE \E op, form : EdSecondQuarter(y, z) = I(op, form)
<1>1. CASE z = 7
  <2>1. /\ EdSecondQuarter(0, 7) = Plain("LD_I_A_LD_R_A")
        /\ EdSecondQuarter(1, 7) = Plain("LD_I_A_LD_R_A")
        /\ EdSecondQuarter(2, 7) = Plain("LD_A_I_LD_A_R")
        /\ EdSecondQuarter(3, 7) = Plain("LD_A_I_LD_A_R")
        /\ EdSecondQuarter(4, 7) = Plain("RLD_RRD")
        /\ EdSecondQuarter(5, 7) = Plain("RLD_RRD")
        /\ EdSecondQuarter(6, 7) = Plain("ED_UNDEFINED")
        /\ EdSecondQuarter(7, 7) = Plain("ED_UNDEFINED")
    BY DEF EdSecondQuarter
  <2>2. \E op : EdSecondQuarter(y, z) = Plain(op)
    BY <1>1, <2>1, Eight
  <2> QED BY <2>2 DEF Plain
<1>2. CASE z = 3
  <2>1. EdSecondQuarter(y, z) = I("LD_RR", "TO_INDIRECT_NN") \/ EdSecondQuarter(y, z) = I("LD_RR", "INDIRECT_NN")
    BY <1>2 DEF EdSecondQuarter
  <2> QED BY <2>1
<1>3. CASE z # 3 /\ z # 7
  <2>1. z = 0 \/ z = 1 \/ z = 2 \/ z = 4 \/ z = 5 \/ z = 6
    BY <1>3
  <2>2. \/ EdSecondQuarter(y, z) = Plain("IN_R_C") \/ EdSecondQuarter(y, z) = Plain("OUT_C_R")
        \/ EdSecondQuarter(y, z) = Plain("SBC_HL_RR") \/ EdSecondQuarter(y, z) = Plain("ADC_HL_RR")
        \/ EdSecondQuarter(y, z) = Plain("NEG") \/ EdSecondQuarter(y, z) = Plain("RETI_RETN")
        \/ EdSecondQuarter(y, z) = Plain("IM_N")
    BY <2>1 DEF EdSecondQuarter
  <2>3. \E op : EdSecondQuarter(y, z) = Plain(op)
    BY <2>2
  <2> QED BY <2>3 DEF Plain
<1> QED BY <1>1, <1>2, <1>3

LEMMA EdIs == ASSUME NEW opcode \in Byte PROVE \E op, form : ED_INSTRUCTION_TABLE[opcode] = I(op, form)
<1> DEFINE y == Y(opcode)
           z == Z(opcode)
           ins == ED_INSTRUCTION_TABLE[opcode]
<1>1. y \in 0 .. 7 /\ z \in 0 .. 7
  BY Fields
<1>2. \/ ins = EdSecondQuarter(y, z)
      \/ z < 4 /\ ins = EdBlock(y, z)
      \/ ins = Plain("ED_UNDEFINED")
  BY DEF ED_INSTRUCTION_TABLE, Byte
<1>3. EdBlock(y, z) = Plain(<<"LDI_LDD", "CPI_CPD", "INI_IND", "OUTI_OUTD">>[z + 1])
        \/ EdBlock(y, z) = Plain(<<"LDIR_LDDR", "CPIR_CPDR", "INIR_INDR", "OTIR_OTDR">>[z + 1])
  BY DEF EdBlock
<1> HIDE DEF y, z, ins
<1>4. CASE ins = EdSecondQuarter(y, z)
  BY <1>1, <1>4, EdQuarterIs DEF ins
<1>5. CASE ins = EdBlock(y, z)
  BY <1>3, <1>5 DEF ins, Plain
<1>6. CASE ins = Plain("ED_UNDEFINED")
  BY <1>6 DEF ins, Plain
<1> QED BY <1>2, <1>4, <1>5, <1>6

\* The instruction without its repetition.
Once(of) == IF of = "copy" THEN "LDI_LDD" ELSE "CPI_CPD"

LEMMA OnceIs ==
  ASSUME Sound, Looping, phase \in Blocks
  PROVE  /\ [cur.ins EXCEPT !.op = Once(phase)].op = Once(phase) /\ Once(phase) \in BLOCK_ONCE
         /\ Once(phase) = IF cur.ins.op = "LDIR_LDDR" THEN "LDI_LDD" ELSE "CPI_CPD"
         /\ cur.ins.op \in REPEATED /\ (cur.ins.op = "LDIR_LDDR" <=> phase = "copy")
<1>1. /\ ReadAs(cur, "HL", cur.opcode, ED_INSTRUCTION_TABLE)
      /\ cur.ins.op = IF phase = "copy" THEN "LDIR_LDDR" ELSE "CPIR_CPDR"
  BY DEF Looping
<1>2. cur.opcode \in Byte /\ cur.ins = ED_INSTRUCTION_TABLE[cur.opcode]
  BY <1>1 DEF Sound, Shapes, ReadAs
<1>3. PICK op, form : cur.ins = I(op, form)
  BY <1>2, EdIs
<1>4. [cur.ins EXCEPT !.op = Once(phase)].op = Once(phase)
  BY <1>3 DEF I
<1>5. Once(phase) \in BLOCK_ONCE
  BY DEF Once, BLOCK_ONCE
<1>6. Once(phase) = IF cur.ins.op = "LDIR_LDDR" THEN "LDI_LDD" ELSE "CPI_CPD"
  BY <1>1 DEF Once
<1>7. cur.ins.op \in REPEATED /\ (cur.ins.op = "LDIR_LDDR" <=> phase = "copy")
  BY <1>1 DEF REPEATED
<1> QED BY <1>4, <1>5, <1>6, <1>7

\* The cycles and refreshes of a turn.
Counting(s, k) == Refreshed(Refreshed(Cycles(s, k)))

LEMMA CountingIs ==
  ASSUME NEW ram, NEW s \in Cpu, s = With(cpu, cpu.reg, cpu.F, ram, cpu.pc, cpu.cycles, cpu.r),
         NEW k \in Nat, NEW c, c = cpu.cycles + k, NEW r, r = Fresh(cpu.r, 2), cpu \in Cpu
  PROVE  Counting(s, k) = With(cpu, cpu.reg, cpu.F, ram, cpu.pc, c, r) /\ Counting(s, k) \in Cpu
<1> DEFINE r1 == Fresh(cpu.r, 1)
           t1 == Cycles(s, k)
           t2 == Refreshed(t1)
<1>1. Fresh(r1, 1) = r
  <2>1. cpu.r \in Int /\ 1 \in Int /\ 1 + 1 = 2
    BY FieldsAre, ByteIs
  <2>2. Fresh(Fresh(cpu.r, 1), 1) = Fresh(cpu.r, 1 + 1)
    BY <2>1, FreshTwice
  <2> QED BY <2>1, <2>2
<1>2. r1 = Fresh(cpu.r, 1)
  OBVIOUS
<1>3. t1 = With(cpu, cpu.reg, cpu.F, ram, cpu.pc, c, cpu.r) /\ t1 \in Cpu
  BY CyclesWith, CyclesOK
<1> HIDE DEF r1, t1
<1>4. t2 = With(cpu, cpu.reg, cpu.F, ram, cpu.pc, c, r1) /\ t2 \in Cpu
  BY <1>2, <1>3, RefreshedWith, RefreshedOK
<1> HIDE DEF t2
<1>5. Refreshed(t2) = With(cpu, cpu.reg, cpu.F, ram, cpu.pc, c, r) /\ Refreshed(t2) \in Cpu
  BY <1>1, <1>4, RefreshedWith, RefreshedOK
<1> QED BY <1>5 DEF Counting, t1, t2

\* What the loop leaves: its registers stored, and pc behind or on the instruction.
LEMMA LeavingIs ==
  ASSUME NEW ram, NEW c, NEW r, cpu \in Cpu, NEW t \in Cpu, t = With(cpu, cpu.reg, cpu.F, ram, cpu.pc, c, r),
         NEW b \in BlockLocals, NEW f, NEW pc, pc = (cpu.pc - 2) % 65536,
         NEW regs, regs = Regs(cpu.reg, b.bc, b.de, b.hl)
  PROVE  /\ Flagged(StoredBlock(t, b), f) = With(cpu, regs, f, ram, cpu.pc, c, r)
         /\ Jump(Flagged(StoredBlock(t, b), f), t.pc - 2) = With(cpu, regs, f, ram, pc, c, r)
         /\ Resumed(t, b, f) = With(cpu, regs, f, ram, pc, c, r)
<1> DEFINE s == StoredBlock(t, b)
           left == Flagged(s, f)
           back == Jump(s, t.pc - 2)
<1>1. t.reg = cpu.reg /\ t.F = cpu.F /\ t.ram = ram /\ t.pc = cpu.pc /\ t.cycles = c /\ t.r = r
  BY WithFields
<1>2. s = With(t, regs, t.F, t.ram, t.pc, t.cycles, t.r)
  BY <1>1, StoredIs
<1> HIDE DEF s
<1>3. s = With(t, regs, cpu.F, ram, cpu.pc, c, r)
  BY <1>1, <1>2
<1>4. s = With(cpu, regs, cpu.F, ram, cpu.pc, c, r)
  BY <1>3, WithAgain
<1>5. left = With(cpu, regs, f, ram, cpu.pc, c, r)
  BY <1>4, FlaggedIs
<1>6. pc = (t.pc - 2) % 65536
  BY <1>1
<1>7. back = With(cpu, regs, cpu.F, ram, pc, c, r)
  BY <1>4, <1>6, JumpWith
<1> HIDE DEF left, back
<1>8. Jump(left, t.pc - 2) = With(cpu, regs, f, ram, pc, c, r)
  BY <1>5, <1>6, JumpWith
<1>9. Flagged(back, f) = With(cpu, regs, f, ram, pc, c, r)
  BY <1>7, FlaggedIs
<1> QED BY <1>5, <1>8, <1>9 DEF Resumed, s, left, back

LEMMA MoreIs ==
  ASSUME NEW regs, NEW f, NEW ram, NEW c, NEW r, NEW e, e = With(cpu, regs, f, ram, cpu.pc, c, r),
         NEW pc, pc = (cpu.pc - 2) % 65536, NEW c2, c2 = c + 5
  PROVE  Cycles(Jump(e, e.pc - 2), 5) = With(cpu, regs, f, ram, pc, c2, r)
<1> DEFINE t == Jump(e, e.pc - 2)
<1>1. e.pc = cpu.pc
  BY WithFields
<1>2. pc = (e.pc - 2) % 65536
  BY <1>1
<1>3. t = With(cpu, regs, f, ram, pc, c, r)
  BY <1>2, JumpWith
<1> HIDE DEF t
<1>4. Cycles(t, 5) = With(cpu, regs, f, ram, pc, c2, r)
  BY <1>3, CyclesWith
<1> QED BY <1>4 DEF t

\* The three ways a turn ends: with the last element, with the budget, or with neither.
LEMMA TurnEnds ==
  ASSUME NEW s, NEW b, NEW done \in BOOLEAN, NEW f, Turn(s, b, done, f)
  PROVE  \/ /\ done
            /\ Finish(Flagged(StoredBlock(Counting(s, 16), b), f), call.budget)
         \/ /\ ~done
            /\ Finish(Jump(Flagged(StoredBlock(Counting(s, 21), b), f), Counting(s, 21).pc - 2), call.budget)
         \/ /\ ~done
            /\ cpu' = Counting(s, 21) /\ blk' = b
            /\ UNCHANGED <<phase, call, cur, sub, begun, last, calls>>
<1>1. CASE done
  BY <1>1 DEF Turn, Counting, Flagged
<1>2. CASE ~done
  BY <1>2 DEF Turn, Counting, Flagged
<1> QED BY <1>1, <1>2

LEMMA TurnImplements ==
  ASSUME Sound, Looping, phase \in Blocks, NEW v, NEW g, NextElement(v, g),
         NEW ram, NEW s \in Cpu, s = With(cpu, cpu.reg, cpu.F, ram, cpu.pc, cpu.cycles, cpu.r),
         NEW b \in BlockLocals, b.turns > 0, NEW done \in BOOLEAN,
         NEW f, f = FlagsLeft(phase, cpu, b), Turn(s, b, done, f),
         NEW regs, regs = Regs(cpu.reg, b.bc, b.de, b.hl),
         NEW c, c = cpu.cycles + 16, NEW r, r = Fresh(cpu.r, 2),
         NEW e, e = Execute(v, "HL", cur.opcode, [cur.ins EXCEPT !.op = Once(phase)]),
         e = With(cpu, regs, f, ram, cpu.pc, c, r),
         done <=> (GetW(e, "BC") = 0 \/ (phase # "copy" /\ "Z" \in f))
  PROVE  Machine!Instruction
<1> DEFINE d    == Machine!Current
           more == GetW(e, "BC") # 0 /\ (cur.ins.op = "LDIR_LDDR" \/ "Z" \notin e.F)
           pc   == (cpu.pc - 2) % 65536
           c2   == cpu.cycles + 21
           t    == Counting(s, 16)
           t2   == Counting(s, 21)
<1>1. d = [s |-> v, p |-> "HL", opcode |-> cur.opcode, ins |-> cur.ins]
  BY DEF NextElement
<1>2. d.s = v /\ d.opcode = cur.opcode /\ d.ins = cur.ins
  BY <1>1
<1> HIDE DEF d
<1>3. cpu \in Cpu /\ cpu.cycles \in Nat
  BY FieldsAre DEF Sound, Shapes
<1>4. e.F = f
  BY WithFields
<1>5. /\ Once(phase) = IF cur.ins.op = "LDIR_LDDR" THEN "LDI_LDD" ELSE "CPI_CPD"
      /\ cur.ins.op \in REPEATED /\ (cur.ins.op = "LDIR_LDDR" <=> phase = "copy")
  BY OnceIs
<1>6. more <=> ~done
  BY <1>4, <1>5
<1>7. Machine!Element(d, d.s) = IF more THEN Cycles(Jump(e, e.pc - 2), 5) ELSE e
  BY <1>2, <1>5 DEF Machine!Element
<1> HIDE DEF more
<1>8. pc = (cpu.pc - 2) % 65536 /\ c2 = cpu.cycles + 21 /\ c2 = c + 5
  BY <1>3
<1> HIDE DEF pc, c2
<1>9. Cycles(Jump(e, e.pc - 2), 5) = With(cpu, regs, f, ram, pc, c2, r)
  BY <1>8, MoreIs
<1>10. t = With(cpu, cpu.reg, cpu.F, ram, cpu.pc, c, r) /\ t \in Cpu
  BY <1>3, CountingIs
<1>11. t2 = With(cpu, cpu.reg, cpu.F, ram, cpu.pc, c2, r) /\ t2 \in Cpu
  BY <1>3, <1>8, CountingIs
<1> HIDE DEF t, t2
<1>12. Flagged(StoredBlock(t, b), f) = e
  BY <1>3, <1>8, <1>10, LeavingIs
<1>13. /\ Jump(Flagged(StoredBlock(t2, b), f), t2.pc - 2) = With(cpu, regs, f, ram, pc, c2, r)
       /\ Resumed(t2, b, f) = With(cpu, regs, f, ram, pc, c2, r)
  BY <1>3, <1>8, <1>11, LeavingIs
<1>14. Shadow' = FALSE /\ Bus' = NoOpcode /\ Processor' = Machine!Element(d, d.s)
  <2>1. (cur.ins.op \in INTERRUPTS) = FALSE
    BY <1>5 DEF REPEATED, INTERRUPTS
  <2>2. CASE done /\ Finish(Flagged(StoredBlock(Counting(s, 16), b), f), call.budget)
    <3>1. Finish(e, call.budget)
      BY <1>12, <2>2 DEF t
    <3>2. Processor' = e /\ Bus' = NoOpcode /\ Shadow' = (cur.ins.op \in INTERRUPTS)
      BY <3>1, FinishOutside
    <3> QED BY <1>6, <1>7, <2>1, <2>2, <3>2
  <2>3. CASE /\ ~done
             /\ Finish(Jump(Flagged(StoredBlock(Counting(s, 21), b), f), Counting(s, 21).pc - 2), call.budget)
    <3> DEFINE w == Jump(Flagged(StoredBlock(t2, b), f), t2.pc - 2)
    <3>1. Finish(w, call.budget)
      BY <2>3 DEF t2
    <3> HIDE DEF w
    <3>2. Processor' = w /\ Bus' = NoOpcode /\ Shadow' = (cur.ins.op \in INTERRUPTS)
      BY <3>1, FinishOutside
    <3>3. w = Cycles(Jump(e, e.pc - 2), 5)
      BY <1>9, <1>13 DEF w
    <3> QED BY <1>6, <1>7, <2>1, <2>3, <3>2, <3>3
  <2>4. CASE /\ ~done /\ cpu' = Counting(s, 21) /\ blk' = b
             /\ UNCHANGED <<phase, call, cur, sub, begun, last, calls>>
    <3>1. cpu' = t2 /\ blk' = b /\ phase' = phase
      BY <2>4 DEF t2
    <3>2. Midway'
      BY <3>1 DEF Midway, Blocks
    <3>3. Processor' = Repeated' /\ Bus' = NoOpcode /\ Shadow' = FALSE
      BY <3>2 DEF Processor, Bus, Shadow
    <3>4. Repeated' = Resumed(t2, b, FlagsLeft(phase, t2, b))
      BY <3>1 DEF Repeated, Resumed, FlagsLeft, Flagged
    <3>5. t2.reg = cpu.reg /\ t2.F = cpu.F
      BY <1>11, WithFields
    <3>6. FlagsLeft(phase, t2, b) = f
      BY <3>5 DEF FlagsLeft
    <3>7. Processor' = Cycles(Jump(e, e.pc - 2), 5)
      BY <1>9, <1>13, <3>3, <3>4, <3>6
    <3> QED BY <1>6, <1>7, <2>4, <3>3, <3>7
  <2> QED BY <2>2, <2>3, <2>4, TurnEnds
<1>15. d.ins.op \notin PORTS \cup {"HALT"} /\ d.ins.op \in {"LDIR_LDDR", "CPIR_CPDR"} /\ d.ins.op \notin INTERRUPTS
  BY <1>2, <1>5, REPEATEDOnly DEF REPEATED, INTERRUPTS
<1>16. Shadow' = (d.ins.op \in INTERRUPTS)
  <2>1. (d.ins.op \in INTERRUPTS) = FALSE
    BY <1>15
  <2> QED BY <1>14, <2>1
<1> QED BY <1>14, <1>15, <1>16 DEF Machine!Instruction, Machine!NoOpcode, NoOpcode, d

\* The locals after a turn.
LEMMA LoopsOn ==
  ASSUME Sound, Looping, phase \in Blocks, NEW s, NEW b, NEW done \in BOOLEAN, NEW f, Turn(s, b, done, f),
         b.bc = blk.bc - 1, b.turns = blk.turns + 1
  PROVE  Looping'
<1>1. CASE \E t : Finish(t, call.budget)
  <2>1. phase' \notin Blocks
    BY <1>1 DEF Finish, Blocks
  <2> QED BY <2>1 DEF Looping
<1>2. CASE blk' = b /\ UNCHANGED <<phase, call, cur, sub, begun, last, calls>>
  <2>1. blk.bc \in Int /\ blk.turns \in Nat
    BY DEF Sound, Shapes
  <2>2. blk'.bc = blk.bc - 1 /\ blk'.turns = blk.turns + 1
    BY <1>2
  <2>3. -blk.turns <= blk.bc /\ blk.bc <= 65535
    BY DEF Looping
  <2>4. -blk'.turns <= blk'.bc /\ blk'.bc <= 65535 /\ blk'.turns # 0
    BY <2>1, <2>2, <2>3
  <2>5. /\ begun'.bus = NoOpcode
        /\ ReadAs(cur', "HL", cur'.opcode, ED_INSTRUCTION_TABLE)
        /\ cur'.ins.op = IF phase' = "copy" THEN "LDIR_LDDR" ELSE "CPIR_CPDR"
    BY <1>2 DEF Looping
  <2> QED BY <2>4, <2>5 DEF Looping
<1> QED BY <1>1, <1>2, TurnEnds

\* bc does not come round to 0 in 16 bits before it is 0.
LEMMA CountIs ==
  ASSUME Sound, Looping, BlocksStay, phase \in Blocks
  PROVE  blk.bc - 1 \in Int /\ ((blk.bc - 1) % 65536 # 0 <=> blk.bc - 1 # 0)
<1>1. blk.bc \in Int /\ blk.turns \in Nat /\ -blk.turns <= blk.bc /\ blk.bc <= 65535
  BY DEF Sound, Shapes, Looping
<1>2. blk.turns < 65535
  BY DEF BlocksStay, Blocks
<1> DEFINE x == blk.bc - 1
<1>3. x \in Int /\ -65536 < x /\ x < 65536
  BY <1>1, <1>2
<1> HIDE DEF x
<1>4. x % 65536 # 0 <=> x # 0
  BY <1>3
<1> QED BY <1>3, <1>4 DEF x

LEMMA ElementExists ==
  ASSUME Sound, Looping, BlocksStay, phase \in Blocks
  PROVE  \E v \in Cpu : \E g : NextElement(v, g)
<1>1. blk.turns = 0 \/ blk.turns > 0
  BY DEF Sound, Shapes
<1> QED BY <1>1, FirstElement, LaterElement

LEMMA CopyImplements ==
  ASSUME Sound, Looping, BlocksStay, CopyTurn PROVE Machine!Instruction /\ Looping'
<1> DEFINE n    == ReadByte(cpu, blk.hl)
           k    == Towards(cur.opcode)
           b    == [bc |-> blk.bc - 1, de |-> blk.de + k, hl |-> blk.hl + k, n |-> n, turns |-> blk.turns + 1]
           done == b.bc = 0
           f    == CopyFlags(n, cpu.reg["A"], b.bc, cpu.F)
           s    == WriteByte(cpu, blk.de, n)
           ram  == Poked(cpu.ram, blk.de, n)
           regs == Regs(cpu.reg, b.bc, b.de, b.hl)
           r    == Fresh(cpu.r, 2)
           c    == cpu.cycles + 16
           c1   == cpu.cycles + 8
           left == (blk.bc - 1) % 65536
           ins  == [cur.ins EXCEPT !.op = Once(phase)]
<1>1. phase = "copy" /\ phase \in Blocks /\ Turn(s, b, done, f)
  BY DEF CopyTurn, Blocks
<1>2. PICK v \in Cpu : \E g : NextElement(v, g)
  BY <1>1, ElementExists
<1>3. PICK g : NextElement(v, g)
  BY <1>2
<1>4. /\ cpu \in Cpu /\ blk \in BlockLocals /\ blk.bc \in Int /\ blk.de \in Int /\ blk.hl \in Int
      /\ blk.turns \in Nat
  BY DEF Sound, Shapes, BlockLocals
<1>5. k \in Int
  <2>1. k \in {1, -1}
    BY TowardsOK
  <2> HIDE DEF k
  <2> QED BY <2>1
<1>6. n \in Byte
  BY <1>4, ReadByteOK
<1>7. cpu.reg \in [ByteRegister -> Byte] /\ cpu.cycles \in Nat
  BY <1>4, FieldsAre
<1>8. b \in BlockLocals /\ b.bc = blk.bc - 1 /\ b.de = blk.de + k /\ b.hl = blk.hl + k /\ b.n = n
      /\ b.turns = blk.turns + 1 /\ b.turns > 0
  <2> HIDE DEF n, k
  <2> QED BY <1>4, <1>5, <1>6 DEF BlockLocals
<1>9. v = With(cpu, Regs(cpu.reg, blk.bc, blk.de, blk.hl), g, cpu.ram, cpu.pc, c1, r)
      /\ g \cap SZC = cpu.F \cap SZC
  BY <1>1, <1>3 DEF NextElement, Kept
<1>10. n = ReadByte(v, blk.hl)
  <2>1. v.ram = cpu.ram
    BY <1>9, WithFields
  <2> QED BY <2>1 DEF ReadByte
<1>11. s = With(cpu, cpu.reg, cpu.F, ram, cpu.pc, cpu.cycles, cpu.r) /\ s \in Cpu
  <2>1. n \in Int /\ cpu = With(cpu, cpu.reg, cpu.F, cpu.ram, cpu.pc, cpu.cycles, cpu.r)
    BY <1>4, <1>6, ByteIs, WithSelf
  <2> HIDE DEF n
  <2> QED BY <1>4, <2>1, WriteIs
<1>12. f = FlagsLeft(phase, cpu, b)
  <2> HIDE DEF n
  <2> QED BY <1>1, <1>8 DEF FlagsLeft
<1>13. ins.op = "LDI_LDD" /\ ins.op \in BLOCK_ONCE
  BY <1>1, OnceIs DEF Once
<1>14. (left # 0 <=> blk.bc - 1 # 0) /\ blk.bc - 1 \in Int
  BY <1>1, CountIs
<1>15. c = c1 + (3 + 3 + 2) /\ k = Towards(cur.opcode) /\ left = (blk.bc - 1) % 65536
  BY <1>7
<1> HIDE DEF n, k, s, ram, r, c1, c, left, ins
<1> DEFINE e == Execute(v, "HL", cur.opcode, ins)
           h == CopyFlags(n, cpu.reg["A"], left, g)
<1>16. e = With(cpu, Regs(cpu.reg, blk.bc - 1, blk.de + k, blk.hl + k), h, ram, cpu.pc, c, r)
  <2>1. e = BlockOnce(v, "HL", cur.opcode, ins)
    BY <1>13, GroupOf
  <2>2. BlockOnce(v, "HL", cur.opcode, ins)
          = With(cpu, Regs(cpu.reg, blk.bc - 1, blk.de + k, blk.hl + k), h, Poked(cpu.ram, blk.de, n),
                 cpu.pc, c1 + (3 + 3 + 2), r)
    BY <1>4, <1>5, <1>7, <1>9, <1>10, <1>13, <1>15, ElementIs
  <2> QED BY <1>15, <2>1, <2>2 DEF ram
<1>17. h = f
  <2>1. b.bc = blk.bc - 1
    BY <1>8
  <2> HIDE DEF b
  <2>2. (left # 0) <=> (b.bc # 0)
    BY <1>14, <2>1
  <2>3. g \cap SZC = cpu.F \cap SZC
    BY <1>9
  <2> QED BY <2>2, <2>3, CopyFlagsSame
<1> HIDE DEF h, e
<1>18. e = With(cpu, regs, f, ram, cpu.pc, c, r)
  BY <1>8, <1>16, <1>17
<1>19. GetW(e, "BC") = left
  <2>1. e.reg = Regs(cpu.reg, b.bc, b.de, b.hl)
    BY <1>18, WithFields
  <2>2. b.bc \in Int /\ b.de \in Int /\ b.hl \in Int
    BY <1>8 DEF BlockLocals
  <2> HIDE DEF b
  <2>3. GetW(e, "BC") = b.bc % 65536
    BY <1>7, <2>1, <2>2, PairsOf
  <2> QED BY <1>8, <1>15, <2>3
<1>20. done <=> (GetW(e, "BC") = 0 \/ (phase # "copy" /\ "Z" \in f))
  BY <1>1, <1>8, <1>14, <1>19
<1>21. done \in BOOLEAN /\ regs = Regs(cpu.reg, b.bc, b.de, b.hl) /\ c = cpu.cycles + 16 /\ r = Fresh(cpu.r, 2)
       /\ e = Execute(v, "HL", cur.opcode, [cur.ins EXCEPT !.op = Once(phase)])
  BY DEF c, r, e, ins
<1> HIDE DEF b, f, regs, done
<1>22. Machine!Instruction
  BY <1>1, <1>3, <1>8, <1>11, <1>12, <1>18, <1>20, <1>21, TurnImplements
<1>23. Looping'
  BY <1>1, <1>8, <1>21, LoopsOn
<1> QED BY <1>22, <1>23
LEMMA SearchImplements ==
  ASSUME Sound, Looping, BlocksStay, SearchTurn PROVE Machine!Instruction /\ Looping'
<1> DEFINE n    == ReadByte(cpu, blk.hl)
           k    == Towards(cur.opcode)
           b    == [bc |-> blk.bc - 1, de |-> blk.de, hl |-> blk.hl + k, n |-> n, turns |-> blk.turns + 1]
           done == b.bc = 0 \/ cpu.reg["A"] = n
           f    == SearchFlags(n, cpu.reg["A"], b.bc, cpu.F)
           s    == cpu
           ram  == cpu.ram
           regs == Regs(cpu.reg, b.bc, b.de, b.hl)
           r    == Fresh(cpu.r, 2)
           c    == cpu.cycles + 16
           c1   == cpu.cycles + 8
           left == (blk.bc - 1) % 65536
           ins  == [cur.ins EXCEPT !.op = Once(phase)]
<1>1. phase = "search" /\ phase \in Blocks /\ Turn(s, b, done, f)
  BY DEF SearchTurn, Blocks
<1>2. PICK v \in Cpu : \E g : NextElement(v, g)
  BY <1>1, ElementExists
<1>3. PICK g : NextElement(v, g)
  BY <1>2
<1>4. /\ cpu \in Cpu /\ blk \in BlockLocals /\ blk.bc \in Int /\ blk.de \in Int /\ blk.hl \in Int
      /\ blk.turns \in Nat
  BY DEF Sound, Shapes, BlockLocals
<1>5. k \in Int
  <2>1. k \in {1, -1}
    BY TowardsOK
  <2> HIDE DEF k
  <2> QED BY <2>1
<1>6. n \in Byte
  BY <1>4, ReadByteOK
<1>7. cpu.reg \in [ByteRegister -> Byte] /\ cpu.cycles \in Nat
  BY <1>4, FieldsAre
<1>8. b \in BlockLocals /\ b.bc = blk.bc - 1 /\ b.de = blk.de /\ b.hl = blk.hl + k /\ b.n = n
      /\ b.turns = blk.turns + 1 /\ b.turns > 0
  <2> HIDE DEF n, k
  <2> QED BY <1>4, <1>5, <1>6 DEF BlockLocals
<1>9. v = With(cpu, Regs(cpu.reg, blk.bc, blk.de, blk.hl), g, cpu.ram, cpu.pc, c1, r)
      /\ g \cap {"C"} = cpu.F \cap {"C"}
  BY <1>1, <1>3 DEF NextElement, Kept
<1>10. n = ReadByte(v, blk.hl)
  <2>1. v.ram = cpu.ram
    BY <1>9, WithFields
  <2> QED BY <2>1 DEF ReadByte
<1>11. s = With(cpu, cpu.reg, cpu.F, ram, cpu.pc, cpu.cycles, cpu.r) /\ s \in Cpu
  BY <1>4, WithSelf
<1>12. f = FlagsLeft(phase, cpu, b)
  <2> HIDE DEF n
  <2> QED BY <1>1, <1>8 DEF FlagsLeft
<1>13. ins.op = "CPI_CPD" /\ ins.op \in BLOCK_ONCE
  BY <1>1, OnceIs DEF Once
<1>14. (left # 0 <=> blk.bc - 1 # 0) /\ blk.bc - 1 \in Int
  BY <1>1, CountIs
<1>15. c = c1 + (3 + 5) /\ k = Towards(cur.opcode) /\ left = (blk.bc - 1) % 65536
  BY <1>7
<1> HIDE DEF n, k, s, ram, r, c1, c, left, ins
<1> DEFINE e == Execute(v, "HL", cur.opcode, ins)
           h == SearchFlags(n, cpu.reg["A"], left, g)
<1>16. e = With(cpu, Regs(cpu.reg, blk.bc - 1, blk.de, blk.hl + k), h, ram, cpu.pc, c, r)
  <2>1. e = BlockOnce(v, "HL", cur.opcode, ins)
    BY <1>13, GroupOf
  <2>2. BlockOnce(v, "HL", cur.opcode, ins)
          = With(cpu, Regs(cpu.reg, blk.bc - 1, blk.de, blk.hl + k), h, cpu.ram,
                 cpu.pc, c1 + (3 + 5), r)
    BY <1>4, <1>5, <1>7, <1>9, <1>10, <1>13, <1>15, ElementIs
  <2> QED BY <1>15, <2>1, <2>2 DEF ram
<1>17. h = f
  <2>1. b.bc = blk.bc - 1
    BY <1>8
  <2> HIDE DEF b
  <2>2. (left # 0) <=> (b.bc # 0)
    BY <1>14, <2>1
  <2>3. g \cap {"C"} = cpu.F \cap {"C"}
    BY <1>9
  <2> QED BY <2>2, <2>3, SearchFlagsSame
<1> HIDE DEF h, e
<1>18. e = With(cpu, regs, f, ram, cpu.pc, c, r)
  BY <1>8, <1>16, <1>17
<1>19. GetW(e, "BC") = left
  <2>1. e.reg = Regs(cpu.reg, b.bc, b.de, b.hl)
    BY <1>18, WithFields
  <2>2. b.bc \in Int /\ b.de \in Int /\ b.hl \in Int
    BY <1>8 DEF BlockLocals
  <2> HIDE DEF b
  <2>3. GetW(e, "BC") = b.bc % 65536
    BY <1>7, <2>1, <2>2, PairsOf
  <2> QED BY <1>8, <1>15, <2>3
<1>20. done <=> (GetW(e, "BC") = 0 \/ (phase # "copy" /\ "Z" \in f))
  <2>1. cpu.reg["A"] \in Byte /\ phase # "copy" /\ b.bc = blk.bc - 1
    BY <1>1, <1>7, <1>8 DEF ByteRegister
  <2> HIDE DEF b
  <2>2. "Z" \in f <=> cpu.reg["A"] = n
    BY <1>6, <2>1, SearchFlagsAre
  <2> HIDE DEF f
  <2> QED BY <1>14, <1>19, <2>1, <2>2
<1>21. done \in BOOLEAN /\ regs = Regs(cpu.reg, b.bc, b.de, b.hl) /\ c = cpu.cycles + 16 /\ r = Fresh(cpu.r, 2)
       /\ e = Execute(v, "HL", cur.opcode, [cur.ins EXCEPT !.op = Once(phase)])
  BY DEF c, r, e, ins
<1> HIDE DEF b, f, regs, done
<1>22. Machine!Instruction
  BY <1>1, <1>3, <1>8, <1>11, <1>12, <1>18, <1>20, <1>21, TurnImplements
<1>23. Looping'
  BY <1>1, <1>8, <1>21, LoopsOn
<1> QED BY <1>22, <1>23

-----------------------------------------------------------------------------
(* Together: every step is one of the processor's, or one it does not see. *)

Seen == Fetched /\ Looping /\ Shadowed

LEMMA SeenElsewhere ==
  ASSUME phase' # "execute", phase' \notin Blocks, phase' = "host" => last' \notin INTERRUPTS PROVE Seen'
BY DEF Seen, Fetched, Looping, Shadowed

LEMMA HostSeen == ASSUME Sound, Seen, InterruptsKnown, Host PROVE Seen'
<1>1. phase = "host" => last \notin INTERRUPTS
  BY DEF Seen, Shadowed
<1>2. CASE \E c \in calls : Z80Interrupt(c.arg)
  <2>1. PICK c \in calls : Z80Interrupt(c.arg)
    BY <1>2
  <2>2. Fetched'
    BY <2>1, InterruptFetched
  <2>3. phase = "host" /\ last' = "NOP" /\ phase' \in {"host", "execute"}
    BY <2>1 DEF Z80Interrupt, MayCall, InterruptMode0, InterruptMode1, InterruptMode2
  <2>4. Looping' /\ Shadowed'
    BY <2>3 DEF Looping, Shadowed, Blocks, INTERRUPTS
  <2> QED BY <2>2, <2>4 DEF Seen
<1>3. CASE \E c \in calls : EnterSubroutine(c.arg)
  <2>1. phase = "host" /\ phase' = "host" /\ last' = last
    BY <1>3 DEF EnterSubroutine, MayCall
  <2> QED BY <1>1, <2>1, SeenElsewhere DEF Blocks
<1>4. CASE Z80NonMaskableInterrupt
  <2>1. phase' = "host" /\ last' = "NOP"
    BY <1>4 DEF Z80NonMaskableInterrupt, MayCall
  <2> QED BY <2>1, SeenElsewhere DEF Blocks, INTERRUPTS
<1>5. CASE LeaveSubroutine
  <2>1. phase = "host" /\ phase' = "host" /\ last' = last
    BY <1>5 DEF LeaveSubroutine
  <2> QED BY <1>1, <2>1, SeenElsewhere DEF Blocks
<1>6. CASE (\E c \in calls : Z80Emulate(c.arg)) \/ StepSubroutine \/ AbortSubroutine
  <2>1. phase' \in {"opcode", "gave_up"}
    BY <1>6 DEF Z80Emulate, StepSubroutine, AbortSubroutine, StartCall
  <2> QED BY <2>1, SeenElsewhere DEF Blocks
<1> QED BY <1>2, <1>3, <1>4, <1>5, <1>6 DEF Host

LEMMA FinishSeen ==
  ASSUME NEW s, NEW budget, Finish(s, budget), cur.ins.op \notin INTERRUPTS \/ phase' = "opcode"
  PROVE  Seen'
<1>1. phase' \in {"host", "opcode"} /\ last' = cur.ins.op
  BY DEF Finish
<1> QED BY <1>1, SeenElsewhere DEF Blocks

LEMMA GroupSeen == ASSUME Sound, Seen, ShadowsPlain, Group \/ InterruptGroup PROVE Seen'
<1>1. CASE Group
  <2>1. PICK s \in Cpu : Do(s)
    BY <1>1, GroupDoes
  <2>2. Finish(s, call.budget)
    BY <2>1 DEF Do
  <2>3. cur.ins.op \notin INTERRUPTS
    BY <1>1, GroupPlain
  <2> QED BY <2>2, <2>3, FinishSeen
<1>2. CASE InterruptGroup
  <2>1. phase' = "opcode"
    BY <1>2, InterruptGoesOn DEF Seen
  <2>2. \E s, b : Finish(s, b)
    BY <1>2, InterruptsDo
  <2> QED BY <2>1, <2>2, FinishSeen
<1> QED BY <1>1, <1>2

LEMMA HaltSeen == ASSUME Sound, Halt PROVE Seen'
<1>1. PICK s \in Cpu : Do(s)
  BY HaltDoes
<1>2. Finish(s, call.budget)
  BY <1>1 DEF Do
<1>3. cur.ins.op = "HALT"
  BY DEF Halt, Executing
<1> QED BY <1>2, <1>3, FinishSeen DEF INTERRUPTS

\* A port ends the program: the processor stays in front of the instruction.
LEMMA PortStutters ==
  ASSUME Sound, InputOutput PROVE UNCHANGED <<Processor, Shadow, Bus>> /\ Seen'
<1>1. phase = "execute" /\ phase' = "aborted" /\ UNCHANGED <<cpu, blk, begun, last>>
  BY DEF InputOutput, Executing
<1>2. cpu \in Cpu
  BY DEF Sound, Shapes
<1>3. cpu' = At(cpu, cpu.pc, cpu.cycles, cpu.r) /\ cpu' \in Cpu /\ phase' \notin Blocks
  BY <1>1, <1>2, AtSelf DEF Blocks
<1>4. UNCHANGED <<Processor, Shadow, Bus>>
  BY <1>1, <1>3, ReadingStutters
<1>5. Seen'
  BY <1>1, <1>3, SeenElsewhere
<1> QED BY <1>4, <1>5

LEMMA TurnsSeen ==
  ASSUME Sound, Seen, CopyTurn \/ SearchTurn PROVE Fetched' /\ Shadowed'
<1>1. PICK s \in Cpu, b \in BlockLocals, done \in BOOLEAN, f \in SUBSET Flag : Turn(s, b, done, f)
  BY CopyDoes, SearchDoes
<1>2. phase \in Blocks
  BY CopyDoes, SearchDoes
<1>3. CASE \E t : Finish(t, call.budget)
  <2>1. cur.ins.op \notin INTERRUPTS
    BY <1>2, OnceIs DEF Seen, REPEATED, INTERRUPTS
  <2>2. Seen'
    BY <1>3, <2>1, FinishSeen
  <2> QED BY <2>2 DEF Seen
<1>4. CASE phase' = phase
  BY <1>2, <1>4 DEF Fetched, Shadowed, Blocks
<1> QED BY <1>1, <1>3, <1>4, TurnEnds

LEMMA SeenStays == ASSUME Seen, UNCHANGED vars PROVE Seen' /\ UNCHANGED <<Processor, Shadow, Bus, Halted>>
<1>1. UNCHANGED <<cpu, phase, blk, cur, begun, last>>
  BY DEF vars
<1>2. Before(cpu)' = Before(cpu)
  BY <1>1 DEF Before
<1>3. Fetched'
  BY <1>1, <1>2 DEF Seen, Fetched
<1>4. Looping'
  BY <1>1, <1>2 DEF Seen, Looping, Entered
<1>5. Shadowed'
  BY <1>1 DEF Seen, Shadowed
<1>6. Midway' = Midway /\ Between' = Between /\ Repeated' = Repeated
  BY <1>1 DEF Midway, Between, Repeated
<1>7. UNCHANGED <<Processor, Shadow, Bus, Halted>>
  BY <1>1, <1>2, <1>6 DEF Processor, Shadow, Bus, Halted
<1> QED BY <1>3, <1>4, <1>5, <1>7 DEF Seen

LEMMA TurnLeaves ==
  ASSUME Sound, Looping, CopyTurn \/ SearchTurn PROVE phase' \notin {"host", "gave_up"} \/ last' # "HALT"
<1>1. PICK s \in Cpu, b \in BlockLocals, done \in BOOLEAN, f \in SUBSET Flag : Turn(s, b, done, f)
  BY CopyDoes, SearchDoes
<1>2. phase \in Blocks
  BY CopyDoes, SearchDoes
<1>3. CASE \E t : Finish(t, call.budget)
  <2>1. cur.ins.op # "HALT"
    BY <1>2, OnceIs DEF REPEATED
  <2> QED BY <1>3, <2>1 DEF Finish
<1>4. CASE phase' = phase
  BY <1>2, <1>4 DEF Blocks
<1> QED BY <1>1, <1>3, <1>4, TurnEnds

LEMMA NextImplements ==
  ASSUME Sound, Seen, InterruptsKnown, ShadowsPlain, BlocksStay, [Next]_vars
  PROVE  Seen' /\ MachineStep
<1>1. Fetched /\ Looping /\ Shadowed
  BY DEF Seen
<1>2. CASE Host
  BY <1>1, <1>2, HostSeen, HostImplements
<1>3. CASE FetchOpcode
  <2>1. phase' = "execute"
    BY <1>3 DEF FetchOpcode
  <2>2. Looping' /\ Shadowed'
    BY <2>1 DEF Looping, Shadowed, Blocks
  <2>3. MachineStep
    BY <1>3, <2>1, FetchStutters, ReadingSteps DEF FetchOpcode
  <2> QED BY <1>3, <2>2, <2>3, FetchFetched DEF Seen
<1>4. CASE Prefix
  <2>1. phase = "execute" /\ phase' = "execute"
    BY <1>4 DEF Prefix, IndexPrefix, EdPrefix, CbPrefix, IndexedCbPrefix, Executing, ReadNextOpcode
  <2>2. Looping' /\ Shadowed'
    BY <2>1 DEF Looping, Shadowed, Blocks
  <2>3. Fetched' /\ UNCHANGED <<Processor, Shadow, Bus>>
    BY <1>1, <1>4, PrefixFetched
  <2> QED BY <2>1, <2>2, <2>3, ReadingSteps DEF Seen
<1>5. CASE Group \/ InterruptGroup
  <2>1. phase = "execute" /\ cur.ins.op \notin UNION {PREFIXES, REPEATED, PORTS, {"HALT"}}
    BY <1>5, GroupExecutes DEF Executes
  <2>2. last' = cur.ins.op
    BY <1>5, GroupExecutes DEF Executes, Finish
  <2>3. last' # "HALT"
    BY <2>1, <2>2
  <2>4. Machine!Instruction
    BY <1>1, <1>5, GroupImplements
  <2>5. MachineStep
    BY <2>1, <2>3, <2>4, InstructionSteps
  <2> QED BY <1>5, <2>5, GroupSeen
<1>6. CASE Halt
  BY <1>1, <1>6, HaltSteps, HaltSeen
<1>7. CASE InputOutput
  <2>1. phase = "execute" /\ phase' = "aborted"
    BY <1>7 DEF InputOutput, Executing
  <2> QED BY <1>7, <2>1, PortStutters, ReadingSteps
<1>8. CASE BeginBlock
  <2>1. phase = "execute" /\ phase' \in Blocks
    BY <1>8 DEF BeginBlock, Blocks, Executing
  <2>2. Fetched' /\ Shadowed'
    BY <2>1 DEF Fetched, Shadowed, Blocks
  <2>3. Looping' /\ UNCHANGED <<Processor, Shadow, Bus>>
    BY <1>1, <1>8, BeginLoops
  <2> QED BY <2>1, <2>2, <2>3, ReadingSteps DEF Seen, Blocks
<1>9. CASE CopyTurn \/ SearchTurn
  <2>1. Machine!Instruction /\ Looping'
    BY <1>1, <1>9, CopyImplements, SearchImplements
  <2>2. Fetched' /\ Shadowed'
    BY <1>9, TurnsSeen
  <2>3. phase \in Blocks
    BY <1>9, CopyDoes, SearchDoes
  <2>4. phase' \notin {"host", "gave_up"} \/ last' # "HALT"
    BY <1>9, <2>3, TurnLeaves DEF Seen
  <2>5. MachineStep
    BY <2>1, <2>3, <2>4, InstructionSteps DEF Blocks
  <2> QED BY <2>1, <2>2, <2>5 DEF Seen
<1>10. CASE UNCHANGED vars
  BY <1>10, SeenStays DEF MachineStep
<1>11. Next => \/ Host \/ FetchOpcode \/ Prefix \/ Group \/ InterruptGroup \/ Halt \/ InputOutput
               \/ BeginBlock \/ CopyTurn \/ SearchTurn
  BY DEF Next, Emulation, Prefix, Group
<1> QED BY <1>2, <1>3, <1>4, <1>5, <1>6, <1>7, <1>8, <1>9, <1>10, <1>11

LEMMA InitImplements == ASSUME Init PROVE Seen /\ Machine!Init
<1>1. phase = "host" /\ last = "NOP"
  BY DEF Init
<1>2. Seen
  BY <1>1 DEF Seen, Fetched, Looping, Shadowed, Blocks, INTERRUPTS
<1>3. Processor = cpu /\ Bus = NoOpcode /\ Shadow = FALSE
  BY <1>1, <1>2, AtHost DEF Seen
<1>4. cpu \in Cpu
  BY InitSound DEF Sound, Shapes
<1>5. Halted = FALSE
  BY <1>1, HaltedIs
<1> QED BY <1>2, <1>3, <1>4, <1>5 DEF Machine!Init, Machine!NoOpcode, NoOpcode

\* The slices are invisible: whatever program is run in whatever memory, and however its
\* host cuts it into calls of Z80Emulate, interrupts and subroutines, the emulator executes
\* the instructions and accepts the interrupts of a processor that knows nothing of calls,
\* except for the step in which a host emulates on behind a HALT without an interrupt;
\* as long as interrupts are of mode 0 or 1 and put no prefix on the bus, DI and EI have
\* no index prefix, and a block instruction does not overwrite itself nor go round for
\* 65535 turns in one slice.
THEOREM SlicesAreInvisible ==
  Spec /\ [](InterruptsKnown /\ ShadowsPlain /\ BlocksStay) => ImplementsZ80
<1> DEFINE Relied == InterruptsKnown /\ ShadowsPlain /\ BlocksStay
<1>1. Init => Seen /\ Machine!Init
  BY InitImplements
<1>2. Sound /\ Seen /\ Relied /\ [Next]_vars => Seen' /\ [Machine!Next \/ GoesOn]_(Machine!vars)
  BY NextImplements DEF MachineStep, Machine!vars
<1>3. Spec => []Sound
  BY EmulatorInvariance
<1> QED BY <1>1, <1>2, <1>3, PTL DEF Spec, ImplementsZ80

\* HALT (z80emu.c:1187-1209) is the processor's for a host that, after it, emulates nothing
\* before an interrupt has been accepted: then there is no such step, and the emulator
\* implements the processor.
THEOREM HaltWaitsForInterrupts ==
  Spec /\ [](InterruptsKnown /\ ShadowsPlain /\ BlocksStay /\ HaltsInterrupted) => Machine!Spec
<1> DEFINE Relied == InterruptsKnown /\ ShadowsPlain /\ BlocksStay
<1>1. Init => Seen /\ Machine!Init
  BY InitImplements
<1>2. ASSUME [Next]_vars, HaltsInterrupted', GoesOn PROVE FALSE
  <2>1. last = "HALT" /\ phase \in {"host", "gave_up"} /\ phase' = "opcode"
    BY <1>2 DEF GoesOn, Halted
  <2>2. last' # "HALT"
    BY <1>2, <2>1 DEF HaltsInterrupted
  <2>3. /\ phase = "host"
        /\ \/ \E c \in calls : Z80Emulate(c.arg) \/ Z80Interrupt(c.arg) \/ EnterSubroutine(c.arg)
           \/ Z80NonMaskableInterrupt \/ StepSubroutine \/ LeaveSubroutine \/ AbortSubroutine
    <3>1. Next
      BY <1>2, <2>1 DEF vars
    <3>2. ~Emulation
      BY <2>1 DEF Emulation, FetchOpcode, IndexPrefix, EdPrefix, CbPrefix, IndexedCbPrefix, LoadGroup,
           LoadWordGroup, ExchangeGroup, BlockGroup, ArithmeticGroup, IncrementGroup, AccumulatorGroup,
           WordGroup, ShiftGroup, BitGroup, DigitGroup, Jumps, CallsAndReturns, InterruptGroup, ModeGroup,
           Nothing, Halt, InputOutput, BeginBlock, CopyTurn, SearchTurn, Executing
    <3>3. Host
      BY <3>1, <3>2 DEF Next
    <3>4. phase = "host"
      BY <3>3 DEF Host, Z80Emulate, Z80Interrupt, EnterSubroutine, Z80NonMaskableInterrupt, StepSubroutine,
           LeaveSubroutine, AbortSubroutine, MayCall
    <3> QED BY <3>3, <3>4 DEF Host
  <2>4. last' = last
    BY <2>1, <2>3 DEF Z80Emulate, Z80Interrupt, EnterSubroutine, Z80NonMaskableInterrupt, StepSubroutine,
         LeaveSubroutine, AbortSubroutine, StartCall, MayCall, InterruptMode0, InterruptMode1, InterruptMode2
  <2> QED BY <2>1, <2>2, <2>4
<1>3. Sound /\ Seen /\ Relied /\ HaltsInterrupted' /\ [Next]_vars => Seen' /\ [Machine!Next]_(Machine!vars)
  BY <1>2, NextImplements DEF MachineStep, Machine!vars
<1>4. Spec => []Sound
  BY EmulatorInvariance
<1> QED BY <1>1, <1>3, <1>4, PTL DEF Spec, Machine!Spec
=============================================================================

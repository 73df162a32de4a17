-------------------------------- MODULE Alu ---------------------------------
(***************************************************************************)
(* The Z80's arithmetic (cpp-core/src/alu.cpp), and the two helpers of     *)
(* z80.cpp that choose among it, as short programs run it: bytes are 0..255*)
(* and words 0..65535, F is the set of the flags that are set.             *)
(***************************************************************************)
EXTENDS Integers, Sequences, FiniteSetsExt

CONSTANTS
  Starts,       \* the registers a program starts with, by what it works on
  MaxRotates    \* bound: how many times a rotate is repeated

VARIABLE alu        \* the registers, the operations run, and the states before each

Flags == {"S", "Z", "5", "H", "3", "P", "N", "C"}
Pow2(n) == 2 ^ n
BitOf(v, i) == (v \div Pow2(i)) % 2 = 1
If(flag, holds) == IF holds THEN {flag} ELSE {}
Of(b) == IF b THEN 1 ELSE 0
Low(v) == v % 256
High(v) == v \div 256

-----------------------------------------------------------------------------
(* Flags.                                                                  *)

Undocumented(v) == If("5", BitOf(v, 5)) \cup If("3", BitOf(v, 3))
sz_flags(v) == IF v = 0 THEN {"Z"} ELSE If("S", BitOf(v, 7))
even_parity(v) == Cardinality({i \in 0..7 : BitOf(v, i)}) % 2 = 0
szp_flags(v) == sz_flags(v) \cup Undocumented(v) \cup If("P", even_parity(v))

\* Bit i of x ^ y ^ z.
Odd(x, y, z, i) == (Of(BitOf(x, i)) + Of(BitOf(y, i)) + Of(BitOf(z, i))) % 2 = 1

add_overflow(x, y, z) == BitOf(x, 7) = BitOf(y, 7) /\ BitOf(y, 7) # BitOf(z, 7)
sub_overflow(x, y, z) == BitOf(x, 7) # BitOf(y, 7) /\ BitOf(z, 7) # BitOf(x, 7)
CarryHalf(x, y, r) == If("C", r \notin 0..255) \cup If("H", Odd(x, y, Low(r), 4))

Result(v, f) == [value |-> v, flags |-> f]

-----------------------------------------------------------------------------
(* 8-bit arithmetic and logic.                                             *)

adc8(x, y, c) ==
  LET r == x + y + c IN
  Result(Low(r), sz_flags(Low(r)) \cup Undocumented(r) \cup CarryHalf(x, y, r)
                 \cup If("P", add_overflow(x, y, Low(r))))
sbc8(x, y, c) ==
  LET r == x - y - c IN
  Result(Low(r), {"N"} \cup sz_flags(Low(r)) \cup Undocumented(Low(r)) \cup CarryHalf(x, y, r)
                 \cup If("P", sub_overflow(x, y, Low(r))))
cp8(x, y) == (sbc8(x, y, 0).flags \ {"5", "3"}) \cup Undocumented(y)

ByBit(x, y, Op(_, _)) == SumSet({Pow2(i) : i \in {j \in 0..7 : Op(BitOf(x, j), BitOf(y, j))}})
and8(x, y) == LET v == ByBit(x, y, LAMBDA p, q : p /\ q) IN Result(v, szp_flags(v) \cup {"H"})
xor8(x, y) == LET v == ByBit(x, y, LAMBDA p, q : p # q) IN Result(v, szp_flags(v))
or8(x, y)  == LET v == ByBit(x, y, LAMBDA p, q : p \/ q) IN Result(v, szp_flags(v))

inc8(v, f) ==
  LET r == Low(v + 1) IN
  Result(r, sz_flags(r) \cup Undocumented(r) \cup If("H", BitOf(r, 4) # BitOf(v, 4))
            \cup If("P", r = 128) \cup (f \cap {"C"}))
dec8(v, f) ==
  LET r == (v + 255) % 256 IN
  Result(r, {"N"} \cup sz_flags(r) \cup Undocumented(r) \cup If("H", BitOf(r, 4) # BitOf(v, 4))
            \cup If("P", r = 127) \cup (f \cap {"C"}))

alu_op(op, r, v) ==
  LET c == Of("C" \in r.f)
      x == CASE op = "add" -> adc8(r.a, v, 0) [] op = "adc" -> adc8(r.a, v, c)
             [] op = "sub" -> sbc8(r.a, v, 0) [] op = "sbc" -> sbc8(r.a, v, c)
             [] op = "and" -> and8(r.a, v) [] op = "xor" -> xor8(r.a, v) [] op = "or" -> or8(r.a, v)
             [] op = "cp" -> Result(r.a, cp8(r.a, v))
  IN [r EXCEPT !.a = x.value, !.f = x.flags]

-----------------------------------------------------------------------------
(* Rotates: by a bit to the left or to the right, taking one in.           *)

Left(v, in) == Result(Low(v * 2) + Of(in), BitOf(v, 7))
Right(v, in) == Result((v \div 2) + 128 * Of(in), BitOf(v, 0))
Rotated(op, v, f) ==
  CASE op \in {"rlc", "rlca"} -> Left(v, BitOf(v, 7))
    [] op \in {"rrc", "rrca"} -> Right(v, BitOf(v, 0))
    [] op \in {"rl", "rla"} -> Left(v, "C" \in f)
    [] op \in {"rr", "rra"} -> Right(v, "C" \in f)
    [] op = "sla" -> Left(v, FALSE)
    [] op = "sra" -> Right(v, BitOf(v, 7))
    [] op = "sll" -> Left(v, TRUE)
    [] op = "srl" -> Right(v, FALSE)

\* The accumulator's keep S, Z and P; cb_action's set them from the result.
rotate_a(op, r) ==
  LET x == Rotated(op, r.a, r.f)
  IN [r EXCEPT !.a = x.value, !.f = (@ \cap {"S", "Z", "P"}) \cup Undocumented(x.value) \cup If("C", x.flags)]
rotate(op, r) ==
  LET x == Rotated(op, r.v, r.f)
  IN [r EXCEPT !.v = x.value, !.f = szp_flags(x.value) \cup If("C", x.flags)]

\* BIT 7, and RES and SET of it; a byte of memory leaves its address in WZ (DE
\* here), and flags 5 and 3 are of that.
bit(r, indirect) ==
  [r EXCEPT !.f = (@ \cap {"C"}) \cup {"H"} \cup Undocumented(IF indirect THEN High(r.de) ELSE r.v)
                  \cup (IF BitOf(r.v, 7) THEN {"S"} ELSE {"Z", "P"})]
res(r) == [r EXCEPT !.v = IF BitOf(@, 7) THEN @ - 128 ELSE @]
set(r) == [r EXCEPT !.v = IF BitOf(@, 7) THEN @ ELSE @ + 128]

cb_action(op, r) ==
  CASE op = "bit" -> bit(r, FALSE) [] op = "bit_hl" -> bit(r, TRUE) [] op = "res" -> res(r) [] op = "set" -> set(r)
    [] OTHER -> rotate(op, r)

-----------------------------------------------------------------------------
(* The rest of the accumulator's.                                          *)

CorrectionWithoutCarry(a, f) == (IF a % 16 > 9 \/ "H" \in f THEN 6 ELSE 0) + (IF a > 153 THEN 96 ELSE 0)
Correction(a, f) == (IF a % 16 > 9 \/ "H" \in f THEN 6 ELSE 0) + (IF a > 153 \/ "C" \in f THEN 96 ELSE 0)
daa(r) ==
  LET v == Low(IF "N" \in r.f THEN r.a + 256 - Correction(r.a, r.f) ELSE r.a + Correction(r.a, r.f))
  IN [r EXCEPT !.a = v, !.f = (@ \cap {"C", "N"}) \cup If("C", r.a > 153)
                              \cup If("H", BitOf(r.a, 4) # BitOf(v, 4)) \cup szp_flags(v)]

cpl(r) ==
  [r EXCEPT !.a = 255 - @, !.f = (@ \cap {"S", "Z", "P", "C"}) \cup {"H", "N"} \cup Undocumented(255 - r.a)]

\* Flags 5 and 3 are A's, and F's too when the last operation left F alone.
FromQ(r) == Undocumented(r.a) \cup (IF r.q THEN {} ELSE r.f \cap {"5", "3"})
scf(r) == [r EXCEPT !.f = (@ \cap {"S", "Z", "P"}) \cup {"C"} \cup FromQ(r)]
ccf(r) == [r EXCEPT !.f = (@ \cap {"S", "Z", "P"}) \cup FromQ(r) \cup (IF "C" \in @ THEN {"H"} ELSE {"C"})]

rrd(r) ==
  LET a == (r.a - (r.a % 16)) + (r.v % 16)
  IN [r EXCEPT !.a = a, !.v = (@ \div 16) + 16 * (r.a % 16), !.f = (@ \cap {"C"}) \cup szp_flags(a)]
rld(r) ==
  LET a == (r.a - (r.a % 16)) + (r.v \div 16)
  IN [r EXCEPT !.a = a, !.v = Low(@ * 16) + (r.a % 16), !.f = (@ \cap {"C"}) \cup szp_flags(a)]

in_flags(r) == [r EXCEPT !.f = szp_flags(r.v) \cup (@ \cap {"C"})]
sziff2_flags(r, iff2) ==
  [r EXCEPT !.a = r.v, !.f = (@ \cap {"C"}) \cup sz_flags(r.v) \cup Undocumented(r.v) \cup If("P", iff2)]

-----------------------------------------------------------------------------
(* 16-bit arithmetic.                                                      *)

Wide(x, y, r) == Undocumented(High(r) % 256) \cup If("H", Odd(High(x), High(y), High(r % 65536), 4))
                 \cup If("C", r \notin 0..65535)
SzWide(r) == If("S", BitOf(r, 15)) \cup If("Z", r = 0)
add16(r) ==
  LET v == r.hl + r.de
  IN [r EXCEPT !.hl = v % 65536, !.f = (@ \cap {"S", "Z", "P"}) \cup Wide(r.hl, r.de, v)]
adc16(r) ==
  LET v == r.hl + r.de + Of("C" \in r.f)
      w == v % 65536
  IN [r EXCEPT !.hl = w, !.f = Wide(r.hl, r.de, v) \cup SzWide(w)
                               \cup If("P", add_overflow(High(r.hl), High(r.de), High(w)))]
sbc16(r) ==
  LET v == r.hl - r.de - Of("C" \in r.f)
      w == v % 65536
      undoc == Undocumented(High(w))
  IN [r EXCEPT !.hl = w, !.f = {"N"} \cup undoc \cup SzWide(w) \cup If("C", v < 0)
                               \cup If("H", Odd(High(r.hl), High(r.de), High(w), 4))
                               \cup If("P", sub_overflow(High(r.hl), High(r.de), High(w)))]

-----------------------------------------------------------------------------
(* The block instructions: a pass, of BC or B as it leaves it (DE here),   *)
(* and what its flags become when it repeats, with PC wound back (HL).     *)

ldi_ldd_flags(r) ==
  LET n == Low(r.a + r.v)
  IN [r EXCEPT !.f = (@ \cap {"S", "Z", "C"}) \cup If("5", BitOf(n, 1)) \cup If("3", BitOf(n, 3))
                     \cup If("P", r.de # 0)]
cpi_cpd(r) ==
  LET d == Low(r.a + 256 - r.v)
      half == d % 16 > r.a % 16
      n == IF half THEN Low(d + 255) ELSE d
  IN [r EXCEPT !.f = (@ \cap {"C"}) \cup {"N"} \cup sz_flags(d) \cup If("H", half)
                     \cup If("5", BitOf(n, 1)) \cup If("3", BitOf(n, 3)) \cup If("P", r.de # 0)]

\* ini_ind_flags and outi_outd_flags: B is E, what is added to the byte is A.
block_io_flags(r) ==
  LET b == Low(r.de)
      t == r.a + r.v
  IN [r EXCEPT !.f = sz_flags(b) \cup Undocumented(b) \cup If("N", BitOf(r.v, 7))
                     \cup (IF t > 255 THEN {"H", "C"} ELSE {})
                     \cup If("P", even_parity(ByBit(t % 8, b, LAMBDA p, q : p # q)))]

block_repeat_flags(r) == [r EXCEPT !.f = (@ \ {"5", "3"}) \cup Undocumented(High(r.hl))]
block_io_repeat_flags(r) ==
  LET b == Low(r.de)
      up == "C" \in r.f /\ "N" \notin r.f
      down == {"C", "N"} \subseteq r.f
      p == ByBit((r.a + r.v) % 8, b, LAMBDA x, y : x # y)
      mix == (IF down THEN b + 255 ELSE IF up THEN b + 1 ELSE b) % 8
  IN [r EXCEPT !.f = (@ \cap {"S", "N", "C"}) \cup Undocumented(High(r.hl))
                     \cup If("H", (down /\ b % 16 = 0) \/ (up /\ b % 16 = 15))
                     \cup If("P", even_parity(ByBit(p, mix, LAMBDA x, y : x # y)))]

-----------------------------------------------------------------------------
(* Programs: an operation, and what may come after it.                     *)

Arithmetic == {"add", "adc", "sub", "sbc", "and", "xor", "or", "cp"}
Rotates == {"rlc", "rrc", "rl", "rr", "sla", "sra", "sll", "srl"}
RotatesA == {"rlca", "rrca", "rla", "rra"}

Applied(op, r) ==
  CASE op \in Arithmetic -> alu_op(op, r, r.v)
    [] op \in Rotates \cup {"bit", "bit_hl", "res", "set"} -> cb_action(op, r)
    [] op \in RotatesA -> rotate_a(op, r)
    [] op = "inc" -> [r EXCEPT !.a = inc8(@, r.f).value, !.f = inc8(r.a, @).flags]
    [] op = "dec" -> [r EXCEPT !.a = dec8(@, r.f).value, !.f = dec8(r.a, @).flags]
    [] op = "neg" -> alu_op("sub", [r EXCEPT !.a = 0], r.a)
    [] op = "daa" -> daa(r) [] op = "cpl" -> cpl(r) [] op = "scf" -> scf(r) [] op = "ccf" -> ccf(r)
    [] op = "rrd" -> rrd(r) [] op = "rld" -> rld(r)
    [] op = "in" -> in_flags(r) [] op = "ld_a_i" -> sziff2_flags(r, TRUE) [] op = "ld_a_r" -> sziff2_flags(r, FALSE)
    [] op = "add16" -> add16(r) [] op = "adc16" -> adc16(r) [] op = "sbc16" -> sbc16(r)
    [] op = "ldi" -> ldi_ldd_flags(r) [] op = "cpi" -> cpi_cpd(r) [] op = "ini" -> block_io_flags(r)
    [] op = "again" -> block_repeat_flags(r) [] op = "ini_again" -> block_io_repeat_flags(r)

Turning == Rotates \cup RotatesA \cup {"rrd", "rld"}
Summing == {"add", "adc", "sub", "sbc", "inc", "dec", "neg"}
WordOps == {"add16", "adc16", "sbc16"}
Ops == [byte |-> Arithmetic \cup Summing \cup {"daa", "cpl", "scf", "ccf", "in", "ld_a_i", "ld_a_r"},
        turn |-> Turning,
        word |-> WordOps,
        memory |-> {"bit", "bit_hl", "res", "set", "ldi", "cpi", "ini"}]

\* A block instruction repeats until its count runs out, or CPI finds its byte.
Follows(op, f) ==
  CASE op \in Summing -> {"daa"}
    [] op \in Turning -> {op}
    [] op \in {"cpl", "ccf", "res"} -> {"ccf"}
    [] op \in {"ldi", "cpi"} /\ "P" \in f -> IF op = "cpi" /\ "Z" \in f THEN {} ELSE {"again"}
    [] op = "ini" /\ "Z" \notin f -> {"ini_again"}
    [] OTHER -> {}

AluInit ==
  \E kind \in DOMAIN Starts : \E r \in Starts[kind] :
    alu = [r |-> r, ops |-> <<>>, before |-> <<>>, on |-> kind]

\* flags_written_: an operation that leaves F alone leaves Q 0.
Do(op) ==
  alu' = [alu EXCEPT !.r = [Applied(op, alu.r) EXCEPT !.q = op \notin {"res", "set"}],
                     !.ops = Append(@, op), !.before = Append(@, alu.r)]

AluNext ==
  \/ alu.ops = <<>> /\ \E op \in Ops[alu.on] : Do(op)
  \/ /\ Len(alu.ops) \in 1..(MaxRotates - 1)
     /\ \E op \in Follows(alu.ops[Len(alu.ops)], alu.r.f) :
          /\ Len(alu.ops) >= 2 => op \in Turning
          /\ Do(op)

AluSpec == AluInit /\ [][AluNext]_alu

-----------------------------------------------------------------------------
(* Properties.                                                             *)

Signed(v) == IF v >= 128 THEN v - 256 ELSE v
SameFlags(f, g, kept) == f \cap kept = g \cap kept

\* Adding, or taking away, a byte and a carry.
AddsUp(x, y, c, sign, v, f) ==
  LET exact == x + sign * (y + c)
      signed == Signed(x) + sign * (Signed(y) + c)
      half == (x % 16) + sign * ((y % 16) + c)
  IN /\ v = exact % 256
     /\ ("C" \in f) = (exact \notin 0..255)
     /\ ("P" \in f) = (signed \notin -128..127)
     /\ ("H" \in f) = (half \notin 0..15)
     /\ ("Z" \in f) = (v = 0) /\ ("S" \in f) = (Signed(v) < 0) /\ ("N" \in f) = (sign = -1)

IsDecimal(v) == v % 16 < 10 /\ v \div 16 < 10
Decimal(v) == (v \div 16) * 10 + (v % 16)

\* What an operation and then DAA give of two decimal numbers.
DecimalExact(op, r, c) ==
  CASE op = "add" -> Decimal(r.a) + Decimal(r.v)
    [] op = "adc" -> Decimal(r.a) + Decimal(r.v) + c
    [] op = "sub" -> Decimal(r.a) - Decimal(r.v)
    [] op = "sbc" -> Decimal(r.a) - Decimal(r.v) - c
    [] op = "neg" -> 0 - Decimal(r.a)
    [] op = "inc" -> Decimal(r.a) + 1
    [] op = "dec" -> Decimal(r.a) - 1

\* 16 bits are the two bytes, the low one first, but for Z and what ADD keeps.
AsBytes(op, r, s) ==
  LET c == IF op = "add16" THEN 0 ELSE Of("C" \in r.f)
      byte(x, y, k) == IF op = "sbc16" THEN sbc8(x, y, k) ELSE adc8(x, y, k)
      low == byte(Low(r.hl), Low(r.de), c)
      high == byte(High(r.hl), High(r.de), Of("C" \in low.flags))
  IN /\ s.hl = high.value * 256 + low.value
     /\ IF op = "add16" THEN SameFlags(s.f, high.flags, {"5", "H", "3", "N", "C"}) /\ SameFlags(s.f, r.f, {"S", "Z", "P"})
        ELSE SameFlags(s.f, high.flags, Flags \ {"Z"}) /\ ("Z" \in s.f) = (s.hl = 0)

\* The registers after n rotates of one kind, from what they were before them.
Turned(op, n, r, s) ==
  CASE op \in {"rlc", "rrc"} -> n = 8 => s.v = r.v
    [] op \in {"rlca", "rrca"} -> n = 8 => s.a = r.a /\ SameFlags(s.f, r.f, {"S", "Z", "P"})
    [] op \in {"rl", "rr"} -> n = 9 => s.v = r.v /\ SameFlags(s.f, r.f, {"C"})
    [] op \in {"rla", "rra"} -> n = 9 => s.a = r.a /\ SameFlags(s.f, r.f, {"S", "Z", "P", "C"})
    [] op = "sla" -> s.v = (r.v * Pow2(n)) % 256
    [] op = "sll" -> s.v = (r.v * Pow2(n) + Pow2(n) - 1) % 256
    [] op = "srl" -> s.v = r.v \div Pow2(n)
    [] op = "sra" -> Signed(s.v) = Signed(r.v) \div Pow2(n)
    [] op \in {"rrd", "rld"} -> n = 3 => s.a = r.a /\ s.v = r.v /\ SameFlags(s.f, r.f, {"C"})

\* The registers hold what arithmetic says: the 8-bit operations are those of
\* integers, unsigned by C and signed by P; DAA after any of them gives the
\* decimal sum or difference of decimal numbers; the 16-bit ones are two 8-bit
\* ones; rotates are the powers of two they are named for, and come round; a
\* comparison in a block is CP without its carry; a repeat's H is that of
\* counting B on; and F keeps what the operation has no say in.
AluIsArithmetic ==
  alu.ops # <<>> =>
    LET n == Len(alu.ops)
        op == alu.ops[n]
        r == alu.before[n]
        s == alu.r
        c == Of("C" \in r.f)
    IN /\ op \in {"add", "adc"} => AddsUp(r.a, r.v, IF op = "adc" THEN c ELSE 0, 1, s.a, s.f)
       /\ op \in {"sub", "sbc"} => AddsUp(r.a, r.v, IF op = "sbc" THEN c ELSE 0, -1, s.a, s.f)
       /\ op = "cp" => s.a = r.a /\ AddsUp(r.a, r.v, 0, -1, (r.a - r.v) % 256, s.f)
       /\ op = "neg" => AddsUp(0, r.a, 0, -1, s.a, s.f)
       /\ op \in {"inc", "dec"} =>
            AddsUp(r.a, 1, 0, IF op = "inc" THEN 1 ELSE -1, s.a,
                   (s.f \ {"C"}) \cup If("C", r.a = IF op = "inc" THEN 255 ELSE 0)) /\ SameFlags(s.f, r.f, {"C"})
       /\ op = "daa" /\ alu.ops[1] \in Summing =>
            LET o == alu.before[1]
                exact == DecimalExact(alu.ops[1], o, Of("C" \in o.f))
            IN (IsDecimal(o.a) /\ (IsDecimal(o.v) \/ alu.ops[1] \in {"neg", "inc", "dec"})
                /\ (alu.ops[1] \in {"inc", "dec"} => "C" \notin o.f)) =>
                 IsDecimal(s.a) /\ Decimal(s.a) = exact % 100 /\ ("C" \in s.f) = (exact \notin 0..99)
       /\ op \in WordOps => AsBytes(op, r, s)
       /\ op \in Turning => Turned(op, n, alu.before[1], s)
       /\ op = "cpi" => SameFlags(s.f, cp8(r.a, r.v), {"S", "Z", "H", "N"}) /\ SameFlags(s.f, r.f, {"C"})
       /\ op = "ini_again" =>
            LET b == Low(r.de) IN
            /\ SameFlags(s.f, r.f, {"S", "N", "C"})
            /\ ("H" \in s.f) = ("C" \in r.f /\ "H" \in (IF "N" \in r.f THEN dec8(b, {}) ELSE inc8(b, {})).flags)
       /\ op \in {"and", "or", "xor", "in"} => ("P" \in s.f) = even_parity(IF op = "in" THEN s.v ELSE s.a)
       /\ op = "ccf" /\ n = 2 /\ alu.ops[1] = "ccf" => SameFlags(s.f, alu.before[1].f, {"S", "Z", "P", "C"})
       /\ op \in {"res", "set"} => s.f = r.f
=============================================================================

-------------------------------- MODULE Isa --------------------------------
(***************************************************************************)
(* The instructions of mySpim's CPU and its memory, as operators on a      *)
(* state record (machine/instructions/, machine/Memory.cpp).  A word has   *)
(* four bytes of ByteBits bits each, 8 in the machine; registers and       *)
(* memory hold unsigned numbers, signed() is the C++ int.  Instructions of *)
(* coprocessor 0 and the VM tunnel are in TrapPath and FileSystem.  All    *)
(* code lies in one 256 MiB region.                                        *)
(*                                                                         *)
(* Floating point registers have the numbers, here names, of the general   *)
(* ones.  What the arithmetic yields is left open; where it puts it is not.*)
(*                                                                         *)
(* An instruction is what decode makes of a word: its class and operands.  *)
(* The classes keep the assembler's names.                                 *)
(***************************************************************************)
EXTENDS Integers

CONSTANTS
    ByteBits,   \* bits of a byte
    Reg,        \* registers; none of them is special but RA
    RA,         \* the register jal links to
    Odd,        \* Odd[r]: the register behind the even one r
    FpResults   \* words that floating point operations yield

ASSUME WidthAssumption == ByteBits \in Nat \ {0}
ASSUME RegAssumption   ==
    /\ RA \in Reg
    /\ DOMAIN Odd \subseteq Reg
    /\ \A r \in DOMAIN Odd : Odd[r] \in Reg \ DOMAIN Odd

Width == 4 * ByteBits

(* 2 ^ k, and the number whose binary digits are one at the positions S.   *)
pow2[k \in 0..Width] == IF k = 0 THEN 1 ELSE 2 * pow2[k - 1]

number(S) ==
    LET upTo[k \in 0..Width] ==
            IF k = 0 THEN 0
            ELSE upTo[k - 1] + (IF k - 1 \in S THEN pow2[k - 1] ELSE 0)
    IN  upTo[Width]

ByteMod == pow2[ByteBits]
HalfMod == ByteMod * ByteMod
WordMod == HalfMod * HalfMod
Byte    == 0..(ByteMod - 1)
Half    == 0..(HalfMod - 1)
Word    == 0..(WordMod - 1)

ASSUME FpAssumption == FpResults \subseteq Word

wrap(n)         == n % WordMod
extend(n, mod)  == IF n < mod \div 2 THEN n ELSE n - mod   \* sign extension
signed(w)       == extend(w, WordMod)
bit(b)          == IF b THEN 1 ELSE 0

(* Exception codes of CPU.h; DIES is the arithmetic fault of the x86-64    *)
(* host, or a failed assertion, which end the emulator.                    *)
NOTRAP == 0
SYSCALL == 8
RI == 10
OVERFLOW == 12
TRAP == 13
DIES == 99

-----------------------------------------------------------------------------
(* Memory: big-endian, unaligned access allowed, addresses wrap around.    *)
getHalfWord(m, a) == m[a] * ByteMod + m[wrap(a + 1)]
getWord(m, a)     == getHalfWord(m, a) * HalfMod + getHalfWord(m, wrap(a + 2))

setHalfWord(m, a, h) ==
    [m EXCEPT ![a] = h \div ByteMod, ![wrap(a + 1)] = h % ByteMod]
setWord(m, a, w) ==
    setHalfWord(setHalfWord(m, a, w \div HalfMod), wrap(a + 2), w % HalfMod)

-----------------------------------------------------------------------------
ThreeRegister == {"addu", "subu", "and", "or", "xor", "nor", "slt", "sltu",
                  "sllv", "srlv", "srav"}
Shift     == {"sll", "srl", "sra"}
Immediate == {"addiu", "andi", "ori", "xori", "slti", "sltiu"}
Load      == {"lw", "lh", "lhu", "lb", "lbu"}
Store     == {"sw", "sh", "sb"}
Branch    == {"beq", "bne", "bgez", "bgtz", "blez", "bltz"}
Checked   == {"add", "sub", "addi"}
Jump      == {"j", "jal", "jr", "jalr"}
HiLo      == {"mult", "multu", "div", "divu", "mfhi", "mflo", "mthi", "mtlo"}
FpMove    == {"lwc1", "swc1"}
FpFormat  == {"fp.s", "fp.d", "fp.x"}    \* an operation, by its fmt: S, D, other
Op == ThreeRegister \cup Shift \cup Immediate \cup Load \cup Store
        \cup Branch \cup Checked \cup Jump \cup HiLo \cup FpMove \cup FpFormat
        \cup {"lui", "movn", "teq", "syscall", "sync"}

(* imm is the address j and jal name, and else a halfword.                 *)
Instruction ==
    [op : {"j", "jal"}, rd : Reg, rs : Reg, rt : Reg, imm : Word]
        \cup [op : Op \ {"j", "jal"}, rd : Reg, rs : Reg, rt : Reg, imm : Half]
Nothing(name) == [op |-> name, rd |-> RA, rs |-> RA, rt |-> RA, imm |-> 0]
Reserved      == Nothing("reserved")     \* a word decode throws RI for

State == [reg : [Reg -> Word], fpr : [Reg -> Word], hi : Word, lo : Word, pc : Word,
          mem : [Word -> Byte]]

simm(i) == extend(i.imm, HalfMod)

(* and, or and xor, by the positions of the bits.                          *)
bits(w) == {k \in 0..(Width - 1) : (w \div pow2[k]) % 2 = 1}

alu(op, x, y) ==
    CASE op = "addu" -> wrap(x + y)
      [] op = "subu" -> wrap(x - y)
      [] op = "and"  -> number(bits(x) \cap bits(y))
      [] op = "or"   -> number(bits(x) \cup bits(y))
      [] op = "xor"  -> number((bits(x) \cup bits(y)) \ (bits(x) \cap bits(y)))
      [] op = "nor"  -> WordMod - 1 - number(bits(x) \cup bits(y))
      [] op = "slt"  -> bit(signed(x) < signed(y))
      [] op = "sltu" -> bit(x < y)
      [] op = "sllv" -> wrap(y * pow2[x % Width])  \* the host masks the count
      [] op = "srlv" -> y \div pow2[x % Width]
      [] op = "srav" -> wrap(signed(y) \div pow2[x % Width])

(* The I-type instructions extend imm by sign or by zero; sltiu by zero.   *)
aluImmediate(op, x, i) ==
    CASE op = "addiu" -> wrap(x + simm(i))
      [] op = "slti"  -> bit(signed(x) < simm(i))
      [] op = "sltiu" -> bit(x < i.imm)
      [] op = "andi"  -> alu("and", x, i.imm)
      [] op = "ori"   -> alu("or", x, i.imm)
      [] op = "xori"  -> alu("xor", x, i.imm)

shiftOf == [sll |-> "sllv", srl |-> "srlv", sra |-> "srav"]

loaded(op, m, a) ==
    CASE op = "lw"  -> getWord(m, a)
      [] op = "lh"  -> wrap(extend(getHalfWord(m, a), HalfMod))
      [] op = "lhu" -> getHalfWord(m, a)
      [] op = "lb"  -> wrap(extend(m[a], ByteMod))
      [] op = "lbu" -> m[a]

stored(op, m, a, w) ==
    CASE op = "sw" -> setWord(m, a, w)
      [] op = "sh" -> setHalfWord(m, a, w % HalfMod)
      [] op = "sb" -> [m EXCEPT ![a] = w % ByteMod]

taken(op, x, y) ==
    CASE op = "beq"  -> x = y
      [] op = "bne"  -> x # y
      [] op = "bgez" -> signed(x) >= 0
      [] op = "bgtz" -> signed(x) > 0
      [] op = "blez" -> signed(x) <= 0
      [] op = "bltz" -> signed(x) < 0

-----------------------------------------------------------------------------
(* Ends of an instruction.  done: cycle() adds 4 to pc.                    *)
done(s)          == [st |-> [s EXCEPT !.pc = wrap(@ + 4)], trap |-> NOTRAP]
throws(s, code)  == [st |-> s, trap |-> code]
write(s, r, v)   == [s EXCEPT !.reg[r] = v]

(* __builtin_add_overflow stores the wrapped result first.  add and sub    *)
(* store to rt, where the other instructions of their format store to rd.  *)
checked(s, r, n) ==
    LET s1 == write(s, r, wrap(n))
    IN  IF signed(wrap(n)) = n THEN done(s1) ELSE throws(s1, OVERFLOW)

(* Truncating division, as C++ has it.                                     *)
magnitude(n) == IF n < 0 THEN -n ELSE n
quotient(n, d) ==
    LET q == magnitude(n) \div magnitude(d)
    IN  IF (n < 0) = (d < 0) THEN q ELSE -q
remainder(n, d) == n - d * quotient(n, d)

(* hi and lo of the full width of a product, and of a word.                *)
setHiLoWide(s, h, l) == done([s EXCEPT !.hi = h, !.lo = l])
setHiLo(s, h, l) == done([s EXCEPT !.hi = wrap(h), !.lo = wrap(l)])

(* rs * rt is an int: where it overflows, the compiler may have widened    *)
(* the product or wrapped it.  multu has wrapped it.                       *)
hiLoOp(op, s, x, y) ==
    LET p == signed(x) * signed(y)
        q == signed(wrap(p))
    IN  CASE op = "mult"  -> {setHiLo(s, p \div WordMod, p),
                              setHiLo(s, q \div WordMod, q)}
          [] op = "multu" -> {setHiLo(s, 0, x * y)}
          [] op = "div" ->
                IF y = 0 \/ (signed(y) = -1 /\ x = WordMod \div 2)
                THEN {throws(s, DIES)}
                ELSE {setHiLo(s, remainder(signed(x), signed(y)),
                                 quotient(signed(x), signed(y)))}
          [] op = "divu" -> IF y = 0 THEN {throws(s, DIES)}
                            ELSE {setHiLo(s, x % y, x \div y)}

moveHiLo(i, s) ==
    CASE i.op = "mfhi" -> write(s, i.rd, s.hi)
      [] i.op = "mflo" -> write(s, i.rd, s.lo)
      [] i.op = "mthi" -> [s EXCEPT !.hi = s.reg[i.rs]]
      [] i.op = "mtlo" -> [s EXCEPT !.lo = s.reg[i.rs]]

(* A link register that already holds the address behind the call.         *)
linkPastCall(s) == wrap(s.pc + 4)
(* The link is the address of the call itself: the + 4 comes at the return.*)
link(s) == s.pc

(* The target of j and jal is stored 4 short of where they go; jr and jalr *)
(* take the register as it is.                                             *)
jumped(i, s) ==
    CASE i.op = "j"    -> [s EXCEPT !.pc = wrap(i.imm - 4)]
      [] i.op = "jal"  -> [write(s, RA, link(s)) EXCEPT !.pc = wrap(i.imm - 4)]
      [] i.op = "jr"   -> [s EXCEPT !.pc = s.reg[i.rs]]
      [] i.op = "jalr" -> LET s1 == write(s, i.rd, link(s))
                          IN  [s1 EXCEPT !.pc = s1.reg[i.rs]]

(* lwc1 and swc1 move a word as it is; the other instructions of           *)
(* coprocessor 1 write fd, a double to an even register and the next.      *)
fpMove(i, s, a) ==
    IF i.op = "lwc1" THEN [s EXCEPT !.fpr[i.rt] = getWord(s.mem, a)]
                     ELSE [s EXCEPT !.mem = setWord(s.mem, a, s.fpr[i.rt])]

(* decode asserts the format and that the registers of doubles are even.   *)
single(i, s, v) == done([s EXCEPT !.fpr[i.rd] = v])
double(i, s, v) == done([s EXCEPT !.fpr[i.rd] = v[1], !.fpr[Odd[i.rd]] = v[2]])
fpOperation(i, s) ==
    IF i.op = "fp.s" THEN {single(i, s, v) : v \in FpResults}
    ELSE IF i.op = "fp.d" /\ {i.rd, i.rs, i.rt} \subseteq DOMAIN Odd
    THEN {double(i, s, v) : v \in FpResults \X FpResults}
    ELSE {throws(s, DIES)}

(* Instruction::run and the end of cycle(): the ways i can end in s.       *)
run(i, s) ==
    LET x == s.reg[i.rs]
        y == s.reg[i.rt]
        a == wrap(x + simm(i))
    IN  CASE i.op \in ThreeRegister -> {done(write(s, i.rd, alu(i.op, x, y)))}
          [] i.op \in Shift ->
                {done(write(s, i.rd, alu(shiftOf[i.op], i.imm, y)))}
          [] i.op \in Immediate ->
                {done(write(s, i.rt, aluImmediate(i.op, x, i)))}
          [] i.op = "lui"  -> {done(write(s, i.rt, i.imm * HalfMod))}
          [] i.op = "movn" -> {done(IF y # 0 THEN write(s, i.rd, x) ELSE s)}
          [] i.op = "add"  -> {checked(s, i.rt, signed(x) + signed(y))}
          [] i.op = "sub"  -> {checked(s, i.rt, signed(x) - signed(y))}
          [] i.op = "addi" -> {checked(s, i.rt, signed(x) + simm(i))}
          [] i.op \in Load -> {done(write(s, i.rt, loaded(i.op, s.mem, a)))}
          [] i.op \in Store ->
                {done([s EXCEPT !.mem = stored(i.op, s.mem, a, y)])}
          [] i.op \in Branch ->
                {done(IF taken(i.op, x, y)
                      THEN [s EXCEPT !.pc = wrap(@ + 4 * simm(i))] ELSE s)}
          [] i.op \in Jump -> {done(jumped(i, s))}
          [] i.op \in {"mult", "multu", "div", "divu"} -> hiLoOp(i.op, s, x, y)
          [] i.op \in {"mfhi", "mflo", "mthi", "mtlo"} -> {done(moveHiLo(i, s))}
          [] i.op \in FpMove -> {done(fpMove(i, s, a))}
          [] i.op \in FpFormat -> fpOperation(i, s)
          [] i.op = "teq" -> {IF x = y THEN throws(s, TRAP) ELSE done(s)}
          [] i.op = "syscall" -> {throws(s, SYSCALL)}
          [] i.op = "sync" -> {done(s)}
=============================================================================

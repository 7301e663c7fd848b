------------------------------- MODULE MCCpu -------------------------------
(* Words of four bits, a memory of sixteen bytes, five sets of sixteen     *)
(* instructions.  Every program loads a and b from lo and hi, which may    *)
(* hold anything, and has two more instructions.                           *)
EXTENDS Cpu, Sequences

In(op, rd, rs, rt, imm) ==
    [op |-> op, rd |-> rd, rs |-> rs, rt |-> rt, imm |-> imm]
Alu(op)    == In(op, "a", "a", "b", 1)
Imm(op, n) == In(op, "a", "a", "b", n)
Loads == <<In("mflo", "a", "a", "a", 0), In("mfhi", "b", "a", "a", 0)>>

Control == Loads \o
    <<Imm("jal", 8), In("jr", "a", "ra", "a", 0), Alu("addu"),
      In("sw", "a", "b", "a", 0), Imm("beq", 2), In("jalr", "b", "a", "a", 0),
      Alu("teq"), Alu("syscall"), In("add", "ra", "a", "b", 0), Reserved,
      Imm("j", 0), In("sb", "a", "b", "a", 1), In("lw", "a", "b", "a", 3),
      In("addi", "a", "a", "a", 1)>>
Arithmetic == Loads \o
    <<Alu("subu"), Alu("and"), Alu("or"), Alu("xor"), Alu("nor"), Alu("slt"),
      Alu("sltu"), Alu("sllv"), Alu("srlv"), Alu("srav"), Alu("sll"),
      Alu("srl"), Alu("sra"), Alu("sub")>>
Immediates == Loads \o
    <<Imm("addiu", 3), Imm("andi", 2), Imm("ori", 2), Imm("xori", 3),
      Imm("slti", 2), Imm("sltiu", 2), Imm("lui", 2), Imm("lh", 0),
      Imm("lhu", 1), Imm("lb", 1), Imm("lbu", 3), Imm("sh", 0), Alu("movn"),
      Alu("sync")>>
HiLos == Loads \o
    <<Alu("mult"), Alu("multu"), Alu("div"), Alu("divu"), Alu("mthi"),
      Alu("mtlo"), Imm("bne", 2), Imm("bgez", 3), Imm("bgtz", 2),
      Imm("blez", 3), Imm("bltz", 2), In("jr", "a", "b", "a", 0), Alu("addu"),
      Reserved>>
Floats == Loads \o
    <<In("lwc1", "a", "a", "a", 3), In("lwc1", "b", "b", "b", 0),
      In("swc1", "a", "b", "a", 0), In("swc1", "a", "a", "b", 1),
      In("fp.s", "b", "a", "a", 0), In("fp.d", "a", "a", "a", 0),
      In("fp.d", "a", "a", "b", 0), In("fp.x", "a", "a", "a", 0),
      Alu("addu"), Alu("syscall"), In("add", "ra", "a", "b", 0), Alu("teq"),
      Imm("j", 0), In("jr", "a", "b", "a", 0)>>

MCOdd == [a |-> "b"]

Table(s) == [w \in Word |-> s[w + 1]]

Program(w, v) ==
    LET zero == [a \in Word |-> 0]
    IN  setWord(setWord(setWord(setWord(zero, 0, 0), 4, 1), 8, w), 12, v)

Image(s, w, v) == [mem |-> Program(w, v), entry |-> 0, encoding |-> Table(s)]

MCImages == {Image(s, w, v) : s \in {Control, Arithmetic, Immediates, HiLos,
                                    Floats},
                              w \in Word, v \in Word}
MCSumImages == {Image(Control, 10, 12)}
=============================================================================

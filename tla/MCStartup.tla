----------------------------- MODULE MCStartup -----------------------------
(* Arguments that fit a row of argv, fill it, and run over; kernels with a *)
(* local symbol before the global one, with text that ends inside a word   *)
(* and with argc behind argv, where a third argument runs over it; and     *)
(* files with their sections in either order or missing.                   *)
EXTENDS Process

MCChars == {"a", "b", "s", "k1", "k2", "k3", "k4", "d", "h", "p", "q", "r", "x"}

chars(s) == [i \in DOMAIN s |-> byte(s[i])]

a    == chars(<<"a">>)
b    == chars(<<"b">>)
full == chars(<<"b", "a", "b">>)
over == chars(<<"b", "a", "b", "a">>)
MCFlag == chars(<<"s", "s">>)

MCArgLists == {<<>>} \cup
    UNION {[1..n -> {a, b, full, over, MCFlag}] : n \in 1..3}

MCAddress == 0..45

at(s, v) == [name |-> s, value |-> v]

plainKernel ==
    [entry |-> 20, textStart |-> 20, text |-> chars(<<"k1", "k2", "k3", "k4">>),
     dataStart |-> 25, data |-> chars(<<"d">>),
     symbols |-> <<at("argc", 26), at("kernel_trap", 22), at("argv", 27)>>,
     globals |-> [argc |-> 26, kernel_trap |-> 22, argv |-> 27]]

MCKernels ==
    {plainKernel,
     [plainKernel EXCEPT !.text = SubSeq(@, 1, 3), !.entry = 22],
     [plainKernel EXCEPT !.symbols = <<at("argv", 25), at("kernel_trap", 20)>> \o @],
     [plainKernel EXCEPT !.symbols = <<at("argv", 26), at("kernel_trap", 22), at("argc", 32)>>,
                         !.globals = [argc |-> 32, kernel_trap |-> 22, argv |-> 26]]}

section(s, o, n) == [name |-> s, offset |-> o, size |-> n]

fileBytes == chars(<<"h", "p", "q", "r", "x">>)
elfFile(s) == [bytes |-> fileBytes, elf |-> TRUE, entry |-> 1, sections |-> s]

text == section(".text", 1, 3)
data == section(".data", 4, 1)

Files ==
    {elfFile(<<text, data>>), elfFile(<<data, section(".bss", 5, 0), text>>),
     elfFile(<<text>>), elfFile(<<data>>),
     elfFile(<<section(".data", 1, 2), section(".text", 3, 2)>>),
     [bytes |-> fileBytes, elf |-> FALSE, entry |-> 0, sections |-> <<>>],
     [bytes |-> <<>>, elf |-> FALSE, entry |-> 0, sections |-> <<>>]}

(* "a" is a file, "b" is not, and "bab" in full is one.                    *)
MCDisks == {[p \in {a, full} |-> f] : f \in Files}

MCExtent == [offset : {0, 4, 9}, size : {0, 5}]
=============================================================================

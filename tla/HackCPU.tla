------------------------------- MODULE HackCPU -------------------------------
(***************************************************************************)
(* The Hack computer the assembler's output runs on (nand2tetris, chapter *)
(* 5): a ROM of 16-bit words, registers A and D, a program counter and a  *)
(* RAM of words.  This is a reference definition of the machine, not a    *)
(* translation of repository code: the VM translator and the assembler are *)
(* judged by what their output does on it.                                 *)
(*                                                                         *)
(* An instruction word below 2^15 is an A-instruction and loads itself    *)
(* into A.  Otherwise it is 111a cccccc ddd jjj: the ALU computes from D   *)
(* and A (a = 0) or M = RAM[A] (a = 1) under the six control bits          *)
(* zx nx zy ny f no, the result goes to A, D and/or M, and the jump bits   *)
(* lt eq gt compare it with 0 and load PC from A.                          *)
(***************************************************************************)
EXTENDS Integers, Sequences, Bitwise

Word == 2^16
WordMax == Word - 1

(* Bit i (0 = least significant) of a word. *)
BitOf(w, i) == (w \div 2^i) % 2 = 1

NotWord(w) == WordMax - w

(* RAM as a partial function: an unwritten cell reads 0, and a cell      *)
(* holding 0 is left out, so that equal memories are equal functions.    *)
RamRead(ram, a) == IF a \in DOMAIN ram THEN ram[a] ELSE 0

RamWrite(ram, a, v) ==
  LET dom == IF v = 0 THEN DOMAIN ram \ {a} ELSE DOMAIN ram \cup {a}
  IN  [x \in dom |-> IF x = a THEN v ELSE ram[x]]

(* The ALU on x and y under the six control bits c (zx is bit 5). *)
ALU(x, y, c) ==
  LET x1 == IF BitOf(c, 5) THEN 0 ELSE x
      x2 == IF BitOf(c, 4) THEN NotWord(x1) ELSE x1
      y1 == IF BitOf(c, 3) THEN 0 ELSE y
      y2 == IF BitOf(c, 2) THEN NotWord(y1) ELSE y1
      o  == IF BitOf(c, 1) THEN (x2 + y2) % Word ELSE x2 & y2
  IN  IF BitOf(c, 0) THEN NotWord(o) ELSE o

(* Whether the jump bits j (lt eq gt) take the jump for ALU output o. *)
Jumps(j, o) ==
  \/ BitOf(j, 2) /\ o >= 2^15
  \/ BitOf(j, 1) /\ o = 0
  \/ BitOf(j, 0) /\ o # 0 /\ o < 2^15

(* A machine state. *)
Reset == [a |-> 0, d |-> 0, pc |-> 0, ram |-> <<>>]

(* One clock cycle of the machine running rom (ROM[i] is rom[i + 1]).    *)
(* M is written at the address A held before the cycle, and a jump loads *)
(* that same A into PC.                                                   *)
Cycle(rom, s) ==
  LET w == rom[s.pc + 1]
  IN  IF w < 2^15
      THEN [s EXCEPT !.a = w, !.pc = @ + 1]
      ELSE LET y  == IF BitOf(w, 12) THEN RamRead(s.ram, s.a) ELSE s.a
               o  == ALU(s.d, y, (w \div 2^6) % 64)
               dd == (w \div 8) % 8
           IN  [a   |-> IF BitOf(dd, 2) THEN o ELSE s.a,
                d   |-> IF BitOf(dd, 1) THEN o ELSE s.d,
                ram |-> IF BitOf(dd, 0) THEN RamWrite(s.ram, s.a, o) ELSE s.ram,
                pc  |-> IF Jumps(w % 8, o) THEN s.a ELSE s.pc + 1]

(* The machine may only run while PC addresses an instruction of rom. *)
InRom(rom, s) == s.pc < Len(rom)
=============================================================================

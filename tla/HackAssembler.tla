----------------------------- MODULE HackAssembler -----------------------------
(***************************************************************************)
(* The Hack assembler of project06/assembler.py: a first pass that gives  *)
(* every label the ROM address of the instruction after it, and a second  *)
(* pass that turns each A-instruction into its address (a number, a       *)
(* symbol of the table, or a new variable from RAM 16 on) and each        *)
(* C-instruction into 111 + comp + dest + jump through the Code tables.   *)
(*                                                                         *)
(* A line of the .asm file is its text without the newline and the       *)
(* blanks around it, which Parser.hasMoreCommands cuts off with           *)
(* line[:-1] and strip(); the files the translator writes end every line  *)
(* in a newline.                                                          *)
(***************************************************************************)
EXTENDS Integers, Sequences, FiniteSets, TLC

Char(s, i) == SubSeq(s, i, i)

(* The first position of ch in s, 0 for none: str.index, with the        *)
(* ValueError of a missing ch taken as 0.                                *)
IndexOf(s, ch) ==
  IF \E i \in 1..Len(s) : Char(s, i) = ch
  THEN CHOOSE i \in 1..Len(s) : Char(s, i) = ch /\ \A j \in 1..(i - 1) : Char(s, j) # ch
  ELSE 0

(* Command.commandType: by the first character. *)
A_COMMAND == "A"
C_COMMAND == "C"
L_COMMAND == "L"
commandType(c) == CASE Char(c, 1) = "@" -> A_COMMAND
                    [] Char(c, 1) = "(" -> L_COMMAND
                    [] OTHER -> C_COMMAND

(* Command.symbol, dest, comp and jump: the text between the markers,    *)
(* "null" for a part that is absent.                                     *)
symbol(c) == IF commandType(c) = L_COMMAND THEN SubSeq(c, 2, Len(c) - 1) ELSE SubSeq(c, 2, Len(c))
dest(c) == IF IndexOf(c, "=") = 0 THEN "null" ELSE SubSeq(c, 1, IndexOf(c, "=") - 1)
comp(c) == SubSeq(c, IndexOf(c, "=") + 1, IF IndexOf(c, ";") = 0 THEN Len(c) ELSE IndexOf(c, ";") - 1)
jump(c) == IF IndexOf(c, ";") = 0 THEN "null" ELSE SubSeq(c, IndexOf(c, ";") + 1, Len(c))

(* Parser: the commands of a file, blank lines and lines that start with *)
(* // skipped.                                                            *)
ParsedCommands(lines) == SelectSeq(lines, LAMBDA l : l # "" /\ SubSeq(l, 1, 2) # "//")

(* The value of a string of binary digits, as the tables write codes. *)
RECURSIVE Bits(_)
Bits(s) == IF s = "" THEN 0
           ELSE 2 * Bits(SubSeq(s, 1, Len(s) - 1)) + (IF SubSeq(s, Len(s), Len(s)) = "1" THEN 1 ELSE 0)

(* str.isdigit() and int() on a symbol. *)
DigitValue == [d \in {"0", "1", "2", "3", "4", "5", "6", "7", "8", "9"} |->
                 CHOOSE v \in 0..9 : ToString(v) = d]
isdigit(s) == s # "" /\ \A i \in 1..Len(s) : SubSeq(s, i, i) \in DOMAIN DigitValue
RECURSIVE IntOfDigits(_)
IntOfDigits(s) == IF s = "" THEN 0
                  ELSE 10 * IntOfDigits(SubSeq(s, 1, Len(s) - 1)) + DigitValue[SubSeq(s, Len(s), Len(s))]

(* SymbolTable.__init__: the predefined symbols. *)
Predefined ==
  ("SP" :> 0) @@ ("LCL" :> 1) @@ ("ARG" :> 2) @@ ("THIS" :> 3) @@ ("THAT" :> 4)
  @@ [r \in {"R" \o ToString(i) : i \in 0..15} |-> CHOOSE i \in 0..15 : r = "R" \o ToString(i)]
  @@ ("SCREEN" :> 16384) @@ ("KBD" :> 24576)

(* SymbolTable.addEntry: a symbol already in the table raises ValueError. *)
addEntry(tab, sym, addr) == (sym :> addr) @@ tab

(* SymbolTable.contains and getAddress, the latter called only on a      *)
(* symbol the table contains.                                            *)
contains(tab, sym) == sym \in DOMAIN tab
getAddress(tab, sym) == tab[sym]

(* A dest table with a four-bit code for M. *)
dest_code_typo ==
  ("null" :> "000") @@ ("M" :> "0001") @@ ("D" :> "010") @@ ("MD" :> "011")
  @@ ("A" :> "100") @@ ("AM" :> "101") @@ ("AD" :> "110") @@ ("AMD" :> "111")

(* Code.dest_code, comp_code and jump_code, as the source writes them. *)
dest_code ==
  ("null" :> "000") @@ ("M" :> "001") @@ ("D" :> "010") @@ ("MD" :> "011")
  @@ ("A" :> "100") @@ ("AM" :> "101") @@ ("AD" :> "110") @@ ("AMD" :> "111")

comp_code ==
  ("0" :> "0101010") @@ ("1" :> "0111111") @@ ("-1" :> "0111010")
  @@ ("D" :> "0001100") @@ ("A" :> "0110000") @@ ("M" :> "1110000")
  @@ ("!D" :> "0001101") @@ ("!A" :> "0110001") @@ ("!M" :> "1110001")
  @@ ("-D" :> "0001101") @@ ("-A" :> "0110011") @@ ("-M" :> "1110011")
  @@ ("D+1" :> "0011111") @@ ("A+1" :> "0110111") @@ ("M+1" :> "1110111")
  @@ ("D-1" :> "0001110") @@ ("A-1" :> "0110010") @@ ("M-1" :> "1110010")
  @@ ("D+A" :> "0000010") @@ ("D+M" :> "1000010") @@ ("D-A" :> "0010011")
  @@ ("D-M" :> "1010011") @@ ("A-D" :> "0000111") @@ ("M-D" :> "1000111")
  @@ ("D&A" :> "0000000") @@ ("D&M" :> "1000000") @@ ("D|A" :> "0010101")
  @@ ("D|M" :> "1010101")

jump_code ==
  ("null" :> "000") @@ ("JGT" :> "001") @@ ("JEQ" :> "010") @@ ("JGE" :> "011")
  @@ ("JLT" :> "100") @@ ("JNE" :> "101") @@ ("JLE" :> "110") @@ ("JMP" :> "111")

(* "111" + comp + dest + jump; an unknown mnemonic raises ValueError. *)
CWord(c) == Bits("111" \o comp_code[comp(c)] \o dest_code[dest(c)] \o jump_code[jump(c)])
KnownMnemonics(c) ==
  comp(c) \in DOMAIN comp_code /\ dest(c) \in DOMAIN dest_code /\ jump(c) \in DOMAIN jump_code

-----------------------------------------------------------------------------
(* First pass of main: a label takes rom_addr, the number of A- and      *)
(* C-commands before it; addEntry raises for a symbol already in the     *)
(* table, predefined or an earlier label.                                *)
rom_addr(lines, i) == Len(SelectSeq(SubSeq(lines, 1, i - 1), LAMBDA c : commandType(c) # L_COMMAND))
LabelsAt(lines) == {i \in DOMAIN lines : commandType(lines[i]) = L_COMMAND}

FirstPass(lines) ==
  LET ls == LabelsAt(lines)
  IN  [tab |-> Predefined @@ [sym \in {symbol(lines[i]) : i \in ls} |->
                                rom_addr(lines, CHOOSE i \in ls : symbol(lines[i]) = sym)],
       err |-> IF \/ \E i, j \in ls : i < j /\ symbol(lines[i]) = symbol(lines[j])
                  \/ \E i \in ls : symbol(lines[i]) \in DOMAIN Predefined
               THEN "duplicate" ELSE "none"]

(* Second pass of main: labels are skipped; an A-command's symbol is a   *)
(* number, an entry of the table, or a new variable, which takes ram_addr *)
(* (16, then one more for each new variable met before it); a            *)
(* C-command with an unknown mnemonic raises.                            *)
NewVariables(lines, tab) ==
  {symbol(lines[i]) : i \in {i \in DOMAIN lines : commandType(lines[i]) = A_COMMAND
                                             /\ ~isdigit(symbol(lines[i])) /\ ~contains(tab, symbol(lines[i]))}}
FirstUse(lines, sym) ==
  CHOOSE i \in DOMAIN lines : /\ commandType(lines[i]) = A_COMMAND /\ symbol(lines[i]) = sym
                              /\ \A j \in 1..(i - 1) : ~(commandType(lines[j]) = A_COMMAND /\ symbol(lines[j]) = sym)

SecondPass(lines, tab) ==
  LET vs   == NewVariables(lines, tab)
      tab2 == tab @@ [v \in vs |-> 16 + Cardinality({w \in vs : FirstUse(lines, w) < FirstUse(lines, v)})]
      ins  == SelectSeq(lines, LAMBDA c : commandType(c) # L_COMMAND)
      bad  == \E i \in DOMAIN ins : commandType(ins[i]) = C_COMMAND /\ ~KnownMnemonics(ins[i])
      word(c) == IF commandType(c) = C_COMMAND THEN CWord(c)
                 ELSE IF isdigit(symbol(c)) THEN IntOfDigits(symbol(c)) ELSE getAddress(tab2, symbol(c))
  IN  [tab |-> tab2, err |-> IF bad THEN "mnemonic" ELSE "none",
       words |-> IF bad THEN <<>> ELSE [i \in DOMAIN ins |-> word(ins[i])]]

(* main: the words of the .hack file, the final symbol table, and how it  *)
(* ended: "none", or the ValueError of a "duplicate" label or an unknown *)
(* "mnemonic".  bin(addr).zfill(16) does not check the width, so a       *)
(* number of 2^16 or more becomes a word of more than 16 bits.           *)
Assemble(file) ==
  LET lines == ParsedCommands(file)
      p1 == FirstPass(lines)
      p2 == SecondPass(lines, p1.tab)
  IN  [words |-> p2.words, tab |-> p2.tab,
       err |-> IF p1.err # "none" THEN p1.err ELSE p2.err]
=============================================================================

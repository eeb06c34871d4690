------------------------------- MODULE VMToHack -------------------------------
(***************************************************************************)
(* The toolchain of nand2tetris projects 06 and 08 end to end: main() of  *)
(* the VM translator turns a directory of .vm files into assembly         *)
(* (module VMTranslator), the assembler turns that into ROM words         *)
(* (HackAssembler!Assemble), and the Hack computer runs them (HackCPU).   *)
(* The run is checked against what the VM program means (VMProgram):     *)
(* each time the CPU reaches the first instruction of a VM command, its  *)
(* state is read back as a VM state and must be one the VM program can  *)
(* be in after the commands run so far.  The directory is translated     *)
(* either by the project 8 translator or by the project 7 one             *)
(* (VMTranslator7), which shares main()'s state with it.                 *)
(***************************************************************************)
EXTENDS VMTranslator

CONSTANT Dirs7   \* the directories given to the project 7 translator

CPU == INSTANCE HackCPU

VARIABLES
  version,    \* the translator: 8 or 7
  phase,      \* "translate", "run", or "rejected" by the assembler
  rom,        \* the assembled words
  symbols,    \* the assembler's final symbol table
  romStart,   \* romStart[k]: ROM address of the code of VM command k
  cpu,        \* the Hack machine
  snap,       \* the VM state read from cpu at the last command boundary
  program     \* the VM program of the directory, fixed at the start

hvars == <<version, phase, rom, symbols, romStart, cpu, snap, program>>
vars == <<tvars, hvars>>

(* The VM program of the directory: the words of every non-blank line of *)
(* each file, in the order main reads the files.                          *)
FileProgram(f) ==
  LET ls == SelectSeq(f.lines, LAMBDA l : l.items # <<>>)
  IN  [k \in DOMAIN ls |-> [words |-> ls[k].items, file |-> f.name]]
Program == FlattenSeq([i \in DOMAIN vm_file_list |-> FileProgram(vm_file_list[i])])

(* The VM language of chapter 7 (stack arithmetic and memory access),  *)
(* which project 7 translates, and that of chapter 8, which adds        *)
(* branching and functions.                                              *)
StackLanguage == {"add", "sub", "neg", "eq", "gt", "lt", "and", "or", "not", "push", "pop"}
FullLanguage == StackLanguage \cup {"label", "goto", "if-goto", "function", "call", "return"}

VMA == INSTANCE VMProgram WITH prog <- program, vm <- snap,
                               ops <- IF version = 7 THEN StackLanguage ELSE FullLanguage
T7 == INSTANCE VMTranslator7

-----------------------------------------------------------------------------
(* Reading the machine as a VM state. *)

(* The ROM address of line pos of the assembly: the number of            *)
(* instructions before it, as the assembler's first pass counts them.    *)
RomAddress(code, pos) ==
  Len(SelectSeq(ASM!ParsedCommands(SubSeq(code, 1, pos)), LAMBDA l : ASM!commandType(l) # ASM!L_COMMAND))

(* The command whose code starts at ROM address r (the first that emits *)
(* any), or one past the program.                                        *)
CommandAt(r) ==
  LET ks == {k \in DOMAIN romStart : romStart[k] = r /\ ~VMA!Empty(k)}
  IN  IF ks = {} THEN Len(program) + 1 ELSE CHOOSE k \in ks : TRUE

(* A command boundary: the start of a command's code, or the end of the  *)
(* ROM, where a program that does not loop stops.                        *)
Boundary(r) == r = Len(rom) \/ \E k \in DOMAIN romStart : romStart[k] = r /\ ~VMA!Empty(k)

(* The cells holding return addresses: one per frame, found from LCL     *)
(* back through the saved LCLs to the bootstrap frame's 0.  That of the  *)
(* bootstrap's own frame, RAM 256, is left out of the state, as Sys.init *)
(* never returns.                                                         *)
RECURSIVE FrameCells(_, _, _)
FrameCells(ram, lcl, fuel) ==
  IF lcl < 261 \/ fuel = 0 THEN {}
  ELSE {lcl - 5} \cup FrameCells(ram, CPU!RamRead(ram, lcl - 4), fuel - 1)

StaticKeys ==
  {<<program[k].file, VMA!N(program[k])>> :
     k \in {k \in DOMAIN program : program[k].words[1] \in {"push", "pop"}
                                   /\ program[k].words[2] = "static"}}
(* Where a static lives: the assembler's address of the symbol file.i, *)
(* or RAM 16 + i for the project 7 translator.                          *)
StaticAddr(key) == IF version = 7 THEN T7!direct_segment_map["static"] + key[2]
                   ELSE symbols[StaticSymbol(key[1], key[2])]

Abs(s) ==
  LET rets == FrameCells(s.ram, CPU!RamRead(s.ram, 1), 64)
      boot == IF VMA!HasSysInit THEN {256} ELSE {}
      own  == {13, 14, 15} \cup boot \cup {StaticAddr(key) : key \in StaticKeys}
      ram  == [a \in DOMAIN s.ram \ own |-> IF a \in rets THEN CommandAt(s.ram[a]) ELSE s.ram[a]]
  IN  [pc |-> CommandAt(s.pc), ram |-> VMA!Live(ram),
       static |-> [key \in {k \in StaticKeys : CPU!RamRead(s.ram, StaticAddr(k)) # 0} |->
                     s.ram[StaticAddr(key)]]]

-----------------------------------------------------------------------------
(* A program without Sys.init gets no bootstrap; the test scripts that run *)
(* such a program set SP to 256 first.                                    *)
Init ==
  /\ \/ version = 8 /\ TInit
     \/ version = 7 /\ T7!TInit /\ function_name = ""
  /\ phase = "translate"
  /\ rom = <<>>
  /\ symbols = <<>>
  /\ romStart = <<>>
  /\ program = Program
  /\ cpu = IF VMA!HasSysInit THEN CPU!Reset ELSE [CPU!Reset EXCEPT !.ram = (0 :> 256)]
  /\ snap = VMA!Booted

Translate ==
  /\ phase = "translate"
  /\ \/ version = 8 /\ TNext
     \/ version = 7 /\ T7!TNext /\ UNCHANGED function_name
  /\ UNCHANGED hvars

(* The assembler on the closed output file; it is run on a directory's  *)
(* output the way the course's tools are chained.                        *)
Assembled == ASM!Assemble(out)

Load ==
  /\ phase = "translate" /\ status = "closed" /\ Assembled.err = "none"
  /\ phase' = "run"
  /\ rom' = Assembled.words
  /\ symbols' = Assembled.tab
  /\ romStart' = LET off == Len(starts) - Len(program)
                 IN  [k \in DOMAIN program |-> RomAddress(out, starts[k + off])]
  /\ UNCHANGED <<tvars, version, cpu, snap, program>>

(* main of the assembler raises ValueError: a duplicate label or an      *)
(* unknown mnemonic.                                                      *)
LoadFails ==
  /\ phase = "translate" /\ status = "closed" /\ Assembled.err # "none"
  /\ phase' = "rejected"
  /\ UNCHANGED <<tvars, version, rom, symbols, romStart, cpu, snap, program>>

(* One clock cycle; at the start of a command's code the VM state is read. *)
Run ==
  /\ phase = "run" /\ CPU!InRom(rom, cpu)
  /\ cpu' = CPU!Cycle(rom, cpu)
  /\ snap' = IF Boundary(cpu'.pc) THEN Abs(cpu') ELSE snap
  /\ UNCHANGED <<tvars, version, phase, rom, symbols, romStart, program>>

Next == Translate \/ Load \/ LoadFails \/ Run

(* Each tool runs to completion once started, and the clocked CPU always *)
(* executes its next instruction: weak fairness of translating, of        *)
(* assembling the closed output and of running.  The assembler's is        *)
(* written with its ENABLED spelled out: ENABLED <<Load \/ LoadFails>>_vars *)
(* holds exactly when the output is closed, as one of the two then        *)
(* applies and both change phase, and TLC would otherwise assemble the    *)
(* output again for every evaluation of it.                                *)
CanAssemble == phase = "translate" /\ status = "closed"
Fairness ==
  /\ WF_vars(Translate)
  /\ WF_vars(Run)
  /\ []<>~CanAssemble \/ []<><<Load \/ LoadFails>>_vars
Spec == Init /\ [][Next]_vars /\ Fairness

-----------------------------------------------------------------------------
(* The types of the state, and with them: every word the assembler writes *)
(* is a 16-bit instruction (main writes bin(addr).zfill(16) and the      *)
(* Code tables' bits without checking their width).                      *)
TypeOK ==
  /\ version \in {7, 8}
  /\ phase \in {"translate", "run", "rejected"}
  /\ status \in {"open", "closed", "failed"}
  /\ rom \in Seq(0..CPU!WordMax)
  /\ cpu.a \in 0..CPU!WordMax /\ cpu.d \in 0..CPU!WordMax
  /\ \A a \in DOMAIN cpu.ram : cpu.ram[a] \in 1..CPU!WordMax
  /\ phase = "run" => cpu.pc \in 0..CPU!WordMax

(* The translated and assembled program implements the VM program: at  *)
(* every command boundary the machine's state, read as a VM state, is   *)
(* the one the VM commands executed so far produce, and the machine      *)
(* keeps executing commands as long as the VM program would.            *)
VMSpecRefined == VMA!Spec
=============================================================================

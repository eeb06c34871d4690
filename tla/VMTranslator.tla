------------------------------ MODULE VMTranslator ------------------------------
(***************************************************************************)
(* The VM translator of project08/VMTranslator.py: main() walks the .vm   *)
(* files of a directory in the order os.listdir gives them, reads each    *)
(* with a Parser, and hands every command to the CodeWriter method for    *)
(* its type, which appends Hack assembly to the output file.  The         *)
(* function Sys.init makes writeInit put the bootstrap (SP = 256, call    *)
(* Sys.init) in front of everything written so far.                       *)
(*                                                                         *)
(* A .vm line is a record: the words str.split() finds in it before any   *)
(* // comment, whether it has such a comment, and whether it ends in a    *)
(* newline.  The output is the sequence of lines written, each without   *)
(* its indentation and newline; a comment line is "//", as the text after *)
(* it is the command's, which no reader of the file looks at.             *)
(***************************************************************************)
EXTENDS Integers, Sequences, SequencesExt, TLC

CONSTANT Dirs   \* the directories main may be given: sets of [name, lines]

ASM == INSTANCE HackAssembler

(* The instruction lines the CodeWriter writes: "@x", "(x)", "dest=comp" *)
(* and "comp;jump".                                                       *)
At(s) == "@" \o s
Lbl(s) == "(" \o s \o ")"
C2(dest, comp) == dest \o "=" \o comp
J(comp, jump) == comp \o ";" \o jump

(* _writeInstructions: a comment line naming the command, then the code. *)
_writeInstructions(code) == <<"//">> \o code

-----------------------------------------------------------------------------
(* Command: the argument counts and types, and the checks of            *)
(* _validateCommand, arg1 and arg2.                                       *)
command_argument_number ==
  [c \in {"add", "sub", "neg", "eq", "gt", "lt", "and", "or", "not"} |-> 0]
  @@ ("push" :> 2) @@ ("pop" :> 2) @@ ("label" :> 1) @@ ("goto" :> 1)
  @@ ("if-goto" :> 1) @@ ("function" :> 2) @@ ("call" :> 2) @@ ("return" :> 0)

command_type(name) ==
  CASE command_argument_number[name] = 0 /\ name # "return" -> "C_ARITHMETIC"
    [] name = "push" -> "C_PUSH"       [] name = "pop" -> "C_POP"
    [] name = "label" -> "C_LABEL"     [] name = "goto" -> "C_GOTO"
    [] name = "if-goto" -> "C_IF"      [] name = "function" -> "C_FUNCTION"
    [] name = "call" -> "C_CALL"       [] name = "return" -> "C_RETURN"

binary_command == {"add", "sub", "eq", "gt", "lt", "and", "or"}

_validateCommand(c) ==
  /\ c.items[1] \in DOMAIN command_argument_number
  /\ Len(c.items) = command_argument_number[c.items[1]] + 1

commandType(c) == command_type(c.items[1])
arg1(c) == IF Len(c.items) = 1 THEN c.items[1] ELSE c.items[2]

(* int() of a word: an optional sign and decimal digits. *)
IntOf(s) ==
  LET sign == SubSeq(s, 1, 1)
      body == IF sign \in {"-", "+"} THEN SubSeq(s, 2, Len(s)) ELSE s
  IN  [ok |-> ASM!isdigit(body),
       v  |-> IF ~ASM!isdigit(body) THEN 0
              ELSE IF sign = "-" THEN -ASM!IntOfDigits(body) ELSE ASM!IntOfDigits(body)]

arg2(c) == IntOf(c.items[3]).v

(* What main's dispatch of c raises before it writes anything: ValueError *)
(* from _validateCommand or from arg2's int(), or the AssertionError of  *)
(* _writePush/_writePop for a segment they do not know.                 *)
indirect_segment_map == ("local" :> "LCL") @@ ("argument" :> "ARG") @@ ("this" :> "THIS") @@ ("that" :> "THAT")
direct_segment_map == ("temp" :> 5) @@ ("pointer" :> 3)
PopSegments == DOMAIN indirect_segment_map \cup DOMAIN direct_segment_map \cup {"static"}

Raises(c) ==
  \/ ~_validateCommand(c)
  \/ commandType(c) \in {"C_PUSH", "C_POP", "C_FUNCTION", "C_CALL"} /\ ~IntOf(c.items[3]).ok
  \/ commandType(c) = "C_PUSH" /\ arg1(c) \notin PopSegments \cup {"constant"}
  \/ commandType(c) = "C_POP" /\ arg1(c) \notin PopSegments

-----------------------------------------------------------------------------
(* Parser.hasMoreCommands: line[:-1] drops the last character, which is  *)
(* the newline except on a last line without one; blank and comment-only *)
(* lines are skipped; a command's number counts commands, not lines.      *)
DropLastChar(items) ==
  LET w == items[Len(items)]
  IN  IF Len(w) = 1 THEN SubSeq(items, 1, Len(items) - 1)
      ELSE [items EXCEPT ![Len(items)] = SubSeq(w, 1, Len(w) - 1)]

LineWords(l) == IF l.nl \/ l.comment \/ l.items = <<>> THEN l.items ELSE DropLastChar(l.items)

Commands(lines) ==
  LET ws == SelectSeq([i \in DOMAIN lines |-> LineWords(lines[i])], LAMBDA w : w # <<>>)
  IN  [k \in DOMAIN ws |-> [items |-> ws[k], lineno |-> k]]

-----------------------------------------------------------------------------
(* CodeWriter: the code of each method, as assembly line records. *)
PopToD   == <<At("SP"), C2("M", "M-1"), At("SP"), C2("A", "M"), C2("D", "M")>>
StoreD   == <<At("SP"), C2("A", "M"), C2("M", "D")>>
IncSP    == <<At("SP"), C2("M", "M+1")>>
_pushToStack == StoreD \o IncSP

StaticSymbol(file, i) == file \o "." \o ToString(i)

(* vm_command_map_assemble_code, with eq/gt/lt's labels filled in. *)
Compare(jump, file, lineno) ==
  LET l1 == file \o "." \o ToString(lineno) \o ".1"
      l2 == file \o "." \o ToString(lineno) \o ".2"
  IN  <<C2("D", "M-D"), At(l1), J("D", jump), C2("D", "-1"), At(l2), J("0", "JMP"),
        Lbl(l1), C2("D", "0"), Lbl(l2)>>

vm_command_map_assemble_code(cmd, file, lineno) ==
  CASE cmd = "add" -> <<C2("D", "D+M")>>  [] cmd = "sub" -> <<C2("D", "M-D")>>
    [] cmd = "neg" -> <<C2("D", "-D")>>   [] cmd = "and" -> <<C2("D", "D&M")>>
    [] cmd = "or"  -> <<C2("D", "D|M")>>  [] cmd = "not" -> <<C2("D", "!D")>>
    [] cmd = "eq"  -> Compare("JNE", file, lineno)
    [] cmd = "gt"  -> Compare("JLE", file, lineno)
    [] cmd = "lt"  -> Compare("JGE", file, lineno)

writeArithmetic(cmd, file, lineno) ==
  PopToD \o (IF cmd \in binary_command THEN <<At("SP"), C2("M", "M-1"), At("SP"), C2("A", "M")>>
             ELSE <<>>)
  \o vm_command_map_assemble_code(cmd, file, lineno) \o _pushToStack

_writePush(seg, i, file) ==
  CASE seg = "constant" -> <<At(ToString(i)), C2("D", "A")>> \o StoreD \o IncSP
    [] seg \in DOMAIN indirect_segment_map ->
         <<At(indirect_segment_map[seg]), C2("D", "M"), At(ToString(i)), C2("A", "D+A"),
           C2("D", "M")>> \o StoreD \o IncSP
    [] seg \in DOMAIN direct_segment_map ->
         <<At(ToString(direct_segment_map[seg] + i)), C2("D", "M")>> \o StoreD \o IncSP
    [] OTHER -> <<At(StaticSymbol(file, i)), C2("D", "M")>> \o StoreD \o IncSP

_writePop(seg, i, file) ==
  CASE seg \in DOMAIN indirect_segment_map ->
         PopToD \o <<At("R13"), C2("M", "D"), At(indirect_segment_map[seg]), C2("D", "M"),
                     At(ToString(i)), C2("D", "D+A"), At("R14"), C2("M", "D"), At("R13"),
                     C2("D", "M"), At("R14"), C2("A", "M"), C2("M", "D")>>
    [] seg \in DOMAIN direct_segment_map ->
         PopToD \o <<At(ToString(direct_segment_map[seg] + i)), C2("M", "D")>>
    [] OTHER -> <<At("SP"), C2("AM", "M-1"), C2("D", "M"), At(StaticSymbol(file, i)), C2("M", "D")>>

writePushPop(cmd, seg, i, file) ==
  IF cmd = "push" THEN _writePush(seg, i, file) ELSE _writePop(seg, i, file)

(* writeLabel, writeGoto, writeIf: a label is qualified by the function  *)
(* being written, or by the file before any function.                   *)
Qualified(label, file, fn) == (IF fn = "" THEN file ELSE fn) \o ":" \o label
writeLabel(l, file, fn) == <<Lbl(Qualified(l, file, fn))>>
writeGoto(l, file, fn)  == <<At(Qualified(l, file, fn)), J("0", "JMP")>>
writeIf(l, file, fn)    ==
  <<At("SP"), C2("AM", "M-1"), C2("D", "M"), At(Qualified(l, file, fn)), J("D", "JNE")>>

(* A call that sets ARG to SP - (n + 4), one word into the saved frame. *)
writeCall_argOffset(f, n, file, lineno) ==
  LET ret == file \o ":" \o ToString(lineno) \o ":" \o f
  IN  <<At(ret), C2("D", "A")>> \o _pushToStack
      \o FlattenSeq([k \in 1..4 |-> <<At(<<"LCL", "ARG", "THIS", "THAT">>[k]), C2("D", "M")>>
                                    \o _pushToStack])
      \o <<At("4"), C2("D", "A"), At(ToString(n)), C2("D", "D+A"), At("SP"), C2("A", "M"),
           C2("D", "A-D"), At("ARG"), C2("M", "D"), At("SP"), C2("D", "M"), At("LCL"),
           C2("M", "D"), At(f), J("0", "JMP"), Lbl(ret)>>

writeCall(f, n, file, lineno) ==
  LET ret == file \o ":" \o ToString(lineno) \o ":" \o f
  IN  <<At(ret), C2("D", "A")>> \o _pushToStack
      \o FlattenSeq([k \in 1..4 |-> <<At(<<"LCL", "ARG", "THIS", "THAT">>[k]), C2("D", "M")>>
                                    \o _pushToStack])
      \o <<At("5"), C2("D", "A"), At(ToString(n)), C2("D", "D+A"), At("SP"), C2("A", "M"),
           C2("D", "A-D"), At("ARG"), C2("M", "D"), At("SP"), C2("D", "M"), At("LCL"),
           C2("M", "D"), At(f), J("0", "JMP"), Lbl(ret)>>

writeReturn ==
  <<At("SP"), C2("A", "M-1"), C2("D", "M"), At("R13"), C2("M", "D"), At("ARG"), C2("D", "M"),
    At("R14"), C2("M", "D"), At("LCL"), C2("D", "M"), At("SP"), C2("M", "D")>>
  \o FlattenSeq([k \in 1..5 |-> PopToD \o <<At(<<"THAT", "THIS", "ARG", "LCL", "R15">>[k]),
                                          C2("M", "D")>>])
  \o <<At("R14"), C2("D", "M"), At("SP"), C2("M", "D"), At("R13"), C2("D", "M")>>
  \o _pushToStack \o <<At("R15"), C2("A", "M"), J("0", "JMP")>>

writeFunction(f, k) ==
  <<Lbl(f)>> \o FlattenSeq([i \in 1..k |-> <<At("SP"), C2("A", "M"), C2("M", "0")>> \o IncSP])

(* writeInit: the bootstrap (SP = 256, then a call of Sys.init that it   *)
(* numbers line 1) in a new file, and the output so far copied behind it. *)
SetSP == <<At("256"), C2("D", "A"), At("SP"), C2("M", "D")>>
writeInit(file, written) ==
  _writeInstructions(SetSP) \o _writeInstructions(writeCall("Sys.init", 0, file, 1))
  \o written

-----------------------------------------------------------------------------
(* main() over one directory.  starts is instrumentation: the position in *)
(* out where the code of each command written so far begins, the         *)
(* bootstrap first once it has been written.                             *)
VARIABLES vm_file_list, fileIdx, cmds, out, input_file_name, function_name, status, starts

tvars == <<vm_file_list, fileIdx, cmds, out, input_file_name, function_name, status, starts>>

TInit ==
  /\ \E dir \in Dirs : vm_file_list \in SetToSeqs(dir)
  /\ fileIdx = 0
  /\ cmds = <<>>
  /\ out = <<>>
  /\ input_file_name = ""
  /\ function_name = ""
  /\ status = "open"
  /\ starts = <<>>

(* setFileName: the file's name becomes _input_file_name, and a comment  *)
(* line naming it is written, with no instructions.                      *)
setFileName(name) ==
  /\ input_file_name' = name
  /\ out' = out \o _writeInstructions(<<>>)

(* setFileName and Parser(file_name) for the next file of the list. *)
NextFile ==
  /\ status = "open" /\ cmds = <<>> /\ fileIdx < Len(vm_file_list)
  /\ fileIdx' = fileIdx + 1
  /\ setFileName(vm_file_list[fileIdx + 1].name)
  /\ cmds' = Commands(vm_file_list[fileIdx + 1].lines)
  /\ UNCHANGED <<vm_file_list, function_name, status, starts>>

(* One command of the for loop, handled without an exception. *)
Current == Head(cmds)
Handled(type) == status = "open" /\ cmds # <<>> /\ ~Raises(Current) /\ commandType(Current) = type

Emit(code) ==
  /\ out' = out \o _writeInstructions(code)
  /\ starts' = Append(starts, Len(out))
  /\ cmds' = Tail(cmds)
  /\ UNCHANGED <<vm_file_list, fileIdx, input_file_name, status>>

WriteArithmetic ==
  Handled("C_ARITHMETIC") /\ UNCHANGED function_name
  /\ Emit(writeArithmetic(Current.items[1], input_file_name, Current.lineno))

WritePushPop ==
  /\ Handled("C_PUSH") \/ Handled("C_POP")
  /\ UNCHANGED function_name
  /\ Emit(writePushPop(Current.items[1], arg1(Current), arg2(Current), input_file_name))

WriteGoto == Handled("C_GOTO") /\ UNCHANGED function_name
             /\ Emit(writeGoto(arg1(Current), input_file_name, function_name))
WriteIf == Handled("C_IF") /\ UNCHANGED function_name
           /\ Emit(writeIf(arg1(Current), input_file_name, function_name))
WriteLabel == Handled("C_LABEL") /\ UNCHANGED function_name
              /\ Emit(writeLabel(arg1(Current), input_file_name, function_name))
WriteCall == Handled("C_CALL") /\ UNCHANGED function_name
             /\ Emit(writeCall(arg1(Current), arg2(Current), input_file_name, Current.lineno))
WriteReturn == Handled("C_RETURN") /\ UNCHANGED function_name /\ Emit(writeReturn)

(* writeFunction; for Sys.init, writeInit first rewrites the output.  In *)
(* starts, the bootstrap is first and the commands written so far move   *)
(* behind it.                                                             *)
WriteFunction ==
  /\ Handled("C_FUNCTION")
  /\ function_name' = arg1(Current)
  /\ IF arg1(Current) # "Sys.init"
     THEN Emit(writeFunction(arg1(Current), arg2(Current)))
     ELSE LET init == writeInit(input_file_name, out)
              boot == Len(init) - Len(out)
          IN  /\ out' = init \o _writeInstructions(writeFunction(arg1(Current), arg2(Current)))
              /\ starts' = <<0>> \o [i \in DOMAIN starts |-> starts[i] + boot] \o <<Len(init)>>
              /\ cmds' = Tail(cmds)
              /\ UNCHANGED <<vm_file_list, fileIdx, input_file_name, status>>

(* A command whose dispatch raises: the translation stops, and what was  *)
(* written stays in the output file.                                     *)
Raise ==
  /\ status = "open" /\ cmds # <<>> /\ Raises(Current)
  /\ status' = "failed"
  /\ UNCHANGED <<vm_file_list, fileIdx, cmds, out, input_file_name, function_name, starts>>

(* code_writer.close() after the last file.  It flushes and closes only a *)
(* file that is already closed, so it changes nothing the model sees.     *)
Close ==
  /\ status = "open" /\ cmds = <<>> /\ fileIdx = Len(vm_file_list)
  /\ status' = "closed"
  /\ UNCHANGED <<vm_file_list, fileIdx, cmds, out, input_file_name, function_name, starts>>

TNext ==
  \/ NextFile \/ WriteArithmetic \/ WritePushPop \/ WriteGoto \/ WriteIf \/ WriteLabel
  \/ WriteCall \/ WriteReturn \/ WriteFunction \/ Raise \/ Close
=============================================================================

----------------------------- MODULE VMTranslator7 -----------------------------
(***************************************************************************)
(* The VM translator of project07/VMTranslator.py: the stack-arithmetic   *)
(* and memory-access half of the VM language.  main() walks the .vm files *)
(* of a directory in the order os.listdir gives them and hands each       *)
(* arithmetic, push or pop command to the CodeWriter; any other command   *)
(* raises NotImplementedError.  It differs from the project 8 translator  *)
(* in three ways the model keeps:                                          *)
(*  - the Parser does not cut a // comment off the end of a command line, *)
(*    so its words become arguments of the command;                        *)
(*  - static is a direct segment, static i at RAM 16 + i, whatever the    *)
(*    file;                                                                *)
(*  - there is no bootstrap: the program starts at its first command.      *)
(*                                                                         *)
(* Input lines and output text are represented as in module VMTranslator. *)
(***************************************************************************)
EXTENDS Integers, Sequences, SequencesExt, TLC

CONSTANT Dirs7   \* the directories main may be given: sets of [name, lines]

(* main()'s state, as in module VMTranslator (starts is instrumentation). *)
VARIABLES vm_file_list, fileIdx, cmds, out, input_file_name, status, starts

P8 == INSTANCE VMTranslator WITH Dirs <- Dirs7, function_name <- ""
At(s) == P8!At(s)
C2(dest, comp) == P8!C2(dest, comp)

(* Command and the arithmetic table are word for word those of project 8. *)
_validateCommand(c) == P8!_validateCommand(c)
commandType(c) == P8!commandType(c)
arg1(c) == P8!arg1(c)
arg2(c) == P8!arg2(c)
vm_command_map_assemble_code(cmd, file, lineno) == P8!vm_command_map_assemble_code(cmd, file, lineno)

-----------------------------------------------------------------------------
(* Parser.hasMoreCommands: a line that starts with // is skipped; on any *)
(* other line the comment stays, one word or more after the command's.   *)
LineWords(l) ==
  IF l.comment /\ l.items # <<>> THEN l.items \o <<"//">> ELSE P8!LineWords(l)

Commands(lines) ==
  LET ws == SelectSeq([i \in DOMAIN lines |-> LineWords(lines[i])], LAMBDA w : w # <<>>)
  IN  [k \in DOMAIN ws |-> [items |-> ws[k], lineno |-> k]]

(* CodeWriter.indirect_segment_map and direct_segment_map. *)
indirect_segment_map == P8!indirect_segment_map
direct_segment_map == ("temp" :> 5) @@ ("pointer" :> 3) @@ ("static" :> 16)

(* What main's dispatch of c raises before it writes: the ValueError of   *)
(* _validateCommand or arg2's int(), NotImplementedError for a command   *)
(* that is neither arithmetic, push nor pop, and the AssertionError of   *)
(* _writePush/_writePop for a segment outside both maps.                 *)
Raises(c) ==
  \/ ~_validateCommand(c)
  \/ commandType(c) \notin {"C_ARITHMETIC", "C_PUSH", "C_POP"}
  \/ commandType(c) \in {"C_PUSH", "C_POP"} /\ ~P8!IntOf(c.items[3]).ok
  \/ commandType(c) = "C_PUSH"
     /\ arg1(c) \notin {"constant"} \cup DOMAIN indirect_segment_map \cup DOMAIN direct_segment_map
  \/ commandType(c) = "C_POP"
     /\ arg1(c) \notin DOMAIN indirect_segment_map \cup DOMAIN direct_segment_map

-----------------------------------------------------------------------------
(* CodeWriter: writeArithmetic, with eq/gt/lt's labels named after the    *)
(* file and the command's number.                                         *)
writeArithmetic(cmd, file, lineno) ==
  P8!PopToD \o (IF cmd \in P8!binary_command THEN <<At("SP"), C2("M", "M-1"), At("SP"), C2("A", "M")>>
                ELSE <<>>)
  \o vm_command_map_assemble_code(cmd, file, lineno) \o P8!StoreD \o P8!IncSP

(* _writePush: constant, indirect through the segment's pointer, or the   *)
(* direct address base + i; then SP is incremented.                       *)
_writePush(seg, i) ==
  CASE seg = "constant" -> <<At(ToString(i)), C2("D", "A")>> \o P8!StoreD \o P8!IncSP
    [] seg \in DOMAIN indirect_segment_map ->
         <<At(indirect_segment_map[seg]), C2("D", "M"), At(ToString(i)), C2("A", "D+A"),
           C2("D", "M")>> \o P8!StoreD \o P8!IncSP
    [] OTHER -> <<At(ToString(direct_segment_map[seg] + i)), C2("D", "M")>> \o P8!StoreD \o P8!IncSP

(* _writePop: through R13 and R14 for an indirect segment, else straight *)
(* to base + i.                                                          *)
_writePop(seg, i) ==
  IF seg \in DOMAIN indirect_segment_map
  THEN P8!PopToD \o <<At("R13"), C2("M", "D"), At(indirect_segment_map[seg]), C2("D", "M"),
                      At(ToString(i)), C2("D", "D+A"), At("R14"), C2("M", "D"), At("R13"),
                      C2("D", "M"), At("R14"), C2("A", "M"), C2("M", "D")>>
  ELSE P8!PopToD \o <<At(ToString(direct_segment_map[seg] + i)), C2("M", "D")>>

writePushPop(cmd, seg, i) == IF cmd = "push" THEN _writePush(seg, i) ELSE _writePop(seg, i)

-----------------------------------------------------------------------------
(* main() over one directory. *)
tvars7 == <<vm_file_list, fileIdx, cmds, out, input_file_name, status, starts>>

TInit ==
  /\ \E dir \in Dirs7 : vm_file_list \in SetToSeqs(dir)
  /\ fileIdx = 0
  /\ cmds = <<>>
  /\ out = <<>>
  /\ input_file_name = ""
  /\ status = "open"
  /\ starts = <<>>

(* setFileName and Parser(file_name) for the next file. *)
NextFile ==
  /\ status = "open" /\ cmds = <<>> /\ fileIdx < Len(vm_file_list)
  /\ fileIdx' = fileIdx + 1
  /\ input_file_name' = vm_file_list[fileIdx + 1].name
  /\ cmds' = Commands(vm_file_list[fileIdx + 1].lines)
  /\ UNCHANGED <<vm_file_list, out, status, starts>>

Current == Head(cmds)
Handled(type) == status = "open" /\ cmds # <<>> /\ ~Raises(Current) /\ commandType(Current) = type

(* _writeInstructions: a comment line naming the command, then the code. *)
_writeInstructions(code) == <<"//">> \o code

Emit(code) ==
  /\ out' = out \o _writeInstructions(code)
  /\ starts' = Append(starts, Len(out))
  /\ cmds' = Tail(cmds)
  /\ UNCHANGED <<vm_file_list, fileIdx, input_file_name, status>>

WriteArithmetic ==
  Handled("C_ARITHMETIC") /\ Emit(writeArithmetic(Current.items[1], input_file_name, Current.lineno))

WritePushPop ==
  /\ Handled("C_PUSH") \/ Handled("C_POP")
  /\ Emit(writePushPop(Current.items[1], arg1(Current), arg2(Current)))

(* A command whose dispatch raises: translation stops with the output    *)
(* written so far.                                                        *)
Raise ==
  /\ status = "open" /\ cmds # <<>> /\ Raises(Current)
  /\ status' = "failed"
  /\ UNCHANGED <<vm_file_list, fileIdx, cmds, out, input_file_name, starts>>

(* code_writer.close(): it acts only on a file already closed. *)
Close ==
  /\ status = "open" /\ cmds = <<>> /\ fileIdx = Len(vm_file_list)
  /\ status' = "closed"
  /\ UNCHANGED <<vm_file_list, fileIdx, cmds, out, input_file_name, starts>>

TNext == NextFile \/ WriteArithmetic \/ WritePushPop \/ Raise \/ Close
=============================================================================

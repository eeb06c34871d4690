------------------------------ MODULE MC_VMToHack ------------------------------
(***************************************************************************)
(* Directories for the VM-to-Hack toolchain.  A line is written as its    *)
(* words; every line ends in a newline and has no comment unless built   *)
(* with Cmt.  The model checker tries every order os.listdir may give.   *)
(***************************************************************************)
EXTENDS VMToHack

Ln(ws) == [items |-> ws, comment |-> FALSE, nl |-> TRUE]
Cmt(ws) == [items |-> ws, comment |-> TRUE, nl |-> TRUE]
File(name, ws) == [name |-> name, lines |-> [i \in DOMAIN ws |-> Ln(ws[i])]]

(* Sys.init calls Main.f(7, 3), stores the result in a static, and loops. *)
SysFile ==
  [name |-> "Sys", lines |->
     <<Cmt(<<>>), Ln(<<"function", "Sys.init", "0">>), Ln(<<"push", "constant", "7">>),
       Ln(<<"push", "constant", "3">>), Cmt(<<"call", "Main.f", "2">>),
       Ln(<<"pop", "static", "0">>), Ln(<<"label", "END">>), Ln(<<"goto", "END">>)>>]

(* Main.f(a, b): counts local 0 down from a - b while it exceeds 2, keeps *)
(* it in this 1 of an object at 3000 and in a static, and returns        *)
(* static 0 + this 1 compared with 4.                                   *)
MainFile ==
  File("Main",
    << <<"function", "Main.f", "1">>, <<"push", "argument", "0">>, <<"push", "argument", "1">>,
       <<"sub">>, <<"pop", "local", "0">>, <<"label", "LOOP">>,
       <<"push", "local", "0">>, <<"push", "constant", "1">>, <<"sub">>, <<"pop", "local", "0">>,
       <<"push", "local", "0">>, <<"push", "constant", "2">>, <<"gt">>, <<"if-goto", "LOOP">>,
       <<"push", "constant", "3000">>, <<"pop", "pointer", "0">>,
       <<"push", "local", "0">>, <<"pop", "this", "1">>, <<"push", "this", "1">>,
       <<"pop", "static", "0">>, <<"push", "static", "0">>, <<"push", "this", "1">>, <<"add">>,
       <<"push", "constant", "4">>, <<"eq">>, <<"not">>, <<"push", "temp", "2">>, <<"or">>,
       <<"return">> >>)

(* A command with a segment the translator does not know. *)
BadFile == File("Bad", << <<"function", "Sys.init", "0">>, <<"push", "heap", "1">> >>)

(* A label defined twice in one function: translated, then rejected by  *)
(* the assembler.                                                        *)
TwiceFile == File("Sys", << <<"function", "Sys.init", "0">>, <<"label", "L">>, <<"label", "L">>,
                           <<"goto", "L">> >>)

DirsPass == {{SysFile, MainFile}, {BadFile}, {TwiceFile}}

(* Main.f(5, 0) returns neg 5. *)
NegFile == File("Main", << <<"function", "Main.f", "0">>, <<"push", "argument", "0">>, <<"neg">>,
                           <<"return">> >>)
DirsNeg == {{SysFile, NegFile}}

(* Main.f(7, 3) returns (0 - 20000) gt 20000, which is false. *)
CompareFile == File("Main", << <<"function", "Main.f", "0">>, <<"push", "constant", "0">>,
                               <<"push", "constant", "20000">>, <<"sub">>,
                               <<"push", "constant", "20000">>, <<"gt">>, <<"return">> >>)
DirsCompare == {{SysFile, CompareFile}}

(* For the project 7 translator: one file, after a comment line, that    *)
(* uses every arithmetic command but neg (whose assembly is wrong, as    *)
(* run assembler_neg shows) and every segment but local and argument     *)
(* (the chapter 7 test scripts give LCL and ARG no value).               *)
StackFile ==
  [name |-> "Main", lines |->
     <<Cmt(<<>>)>> \o
     [i \in 1..31 |-> Ln(<< <<"push", "constant", "3000">>, <<"pop", "pointer", "0">>,
       <<"push", "constant", "3010">>, <<"pop", "pointer", "1">>,
       <<"push", "constant", "7">>, <<"push", "constant", "8">>, <<"lt">>, <<"pop", "this", "2">>,
       <<"push", "constant", "5">>, <<"pop", "static", "1">>, <<"push", "static", "1">>,
       <<"push", "this", "2">>, <<"and">>, <<"push", "constant", "5">>, <<"eq">>, <<"not">>,
       <<"push", "constant", "9">>, <<"gt">>, <<"push", "temp", "3">>, <<"or">>,
       <<"pop", "that", "1">>, <<"push", "that", "1">>, <<"push", "constant", "2">>, <<"sub">>,
       <<"pop", "temp", "3">>, <<"push", "temp", "3">>, <<"push", "constant", "1">>, <<"add">>,
       <<"push", "static", "1">>, <<"add">>, <<"pop", "static", "0">> >>[i])]]

(* A label, which project 7 does not implement. *)
LabelFile == File("Main", << <<"push", "constant", "1">>, <<"label", "X">> >>)

Dirs7Pass == {{StackFile}, {LabelFile}}
NoDirs == {}
=============================================================================

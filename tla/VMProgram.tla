------------------------------ MODULE VMProgram ------------------------------
(***************************************************************************)
(* What a VM program means (nand2tetris, chapters 7 and 8), on the        *)
(* standard mapping of its state onto RAM: SP, LCL, ARG, THIS and THAT in *)
(* RAM 0..4, temp in 5..12, the stack from 256, frames of five saved      *)
(* words (return address, LCL, ARG, THIS, THAT) pushed by call.  It is    *)
(* the specification the translated and assembled program must           *)
(* implement, written from the VM language and not from the translator:  *)
(*                                                                         *)
(*  - static variables are kept apart, one per (file, index);             *)
(*  - a return address is the index in prog of the command to resume;    *)
(*  - RAM 13..15 are the translator's own, and the stack above SP holds   *)
(*    nothing, so neither is part of the state;                           *)
(*  - label and "function f 0" do nothing, so pc never rests on them.     *)
(*                                                                         *)
(* prog is the program: each command is the words of its line and the    *)
(* file it is in; ops is the set of commands of the language it is       *)
(* written in (chapter 7's stack arithmetic and push/pop, or chapter 8's *)
(* whole language).  The program starts in Sys.init, called by the          *)
(* bootstrap with SP = 256.                                               *)
(***************************************************************************)
EXTENDS Integers, Sequences, FiniteSets, Bitwise, TLC

VARIABLES prog, ops, vm

svars == <<prog, ops, vm>>

Word == 2^16
StackEnd == 2048

Peek(ram, a) == IF a \in DOMAIN ram THEN ram[a] ELSE 0
Poke(ram, a, v) ==
  LET dom == IF v = 0 THEN DOMAIN ram \ {a} ELSE DOMAIN ram \cup {a}
  IN  [x \in dom |-> IF x = a THEN v ELSE ram[x]]

(* The state without the stack above SP. *)
Live(ram) == [a \in {x \in DOMAIN ram : ~(Peek(ram, 0) <= x /\ x < StackEnd)} |-> ram[a]]

-----------------------------------------------------------------------------
(* The language: a command's words. *)
Op(c) == c.words[1]
Arith == {"add", "sub", "neg", "eq", "gt", "lt", "and", "or", "not"}
Segments == {"constant", "local", "argument", "this", "that", "pointer", "temp", "static"}
DigitSet == {"0", "1", "2", "3", "4", "5", "6", "7", "8", "9"}
IsNumber(s) == s # "" /\ \A i \in 1..Len(s) : SubSeq(s, i, i) \in DigitSet
RECURSIVE Number(_)
Number(s) == IF s = "" THEN 0
             ELSE 10 * Number(SubSeq(s, 1, Len(s) - 1))
                  + CHOOSE d \in 0..9 : SubSeq("0123456789", d + 1, d + 1) = SubSeq(s, Len(s), Len(s))
N(c) == Number(c.words[3])

WellFormedCommand(c) ==
  \/ Op(c) \in Arith \cup {"return"} /\ Len(c.words) = 1
  \/ Op(c) \in {"label", "goto", "if-goto"} /\ Len(c.words) = 2
  \/ /\ Op(c) \in {"push", "pop", "function", "call"} /\ Len(c.words) = 3
     /\ IsNumber(c.words[3])
     /\ Op(c) = "push" => c.words[2] \in Segments /\ (c.words[2] = "constant" => N(c) < 2^15)
     /\ Op(c) = "pop" => c.words[2] \in Segments \ {"constant"}
     /\ Op(c) \in {"push", "pop"} /\ c.words[2] = "pointer" => N(c) < 2
     /\ Op(c) \in {"push", "pop"} /\ c.words[2] = "temp" => N(c) < 8
WellFormed(c) ==
  /\ Op(c) \in ops
  /\ WellFormedCommand(c)

(* The function a command belongs to: the last one declared before it in *)
(* its file ("" before any).  Labels are local to it.                    *)
FnOf(k) ==
  LET fs == {j \in 1..k : Op(prog[j]) = "function" /\ prog[j].file = prog[k].file}
  IN  IF fs = {} THEN "" ELSE LET j == CHOOSE j \in fs : \A i \in fs : i <= j IN prog[j].words[2]

Scopes == [k \in DOMAIN prog |-> FnOf(k)]
LabelsIn(sc, k, l) ==
  {j \in DOMAIN prog : Op(prog[j]) = "label" /\ prog[j].words[2] = l /\ sc[j] = sc[k]}
LabelIdx(k, l) == LabelsIn(Scopes, k, l)
FunctionIdx(f) == {j \in DOMAIN prog : Op(prog[j]) = "function" /\ prog[j].words[2] = f}

(* A program the VM runs: well-formed commands, one definition of each   *)
(* function and of each label in a function, and every jump and call to  *)
(* a defined target.                                                      *)
ValidIn(sc) ==
  /\ \A k \in DOMAIN prog : WellFormed(prog[k])
  /\ \A k \in DOMAIN prog : Op(prog[k]) \in {"function", "call"} => Cardinality(FunctionIdx(prog[k].words[2])) = 1
  /\ \A k \in DOMAIN prog : Op(prog[k]) \in {"label", "goto", "if-goto"} => Cardinality(LabelsIn(sc, k, prog[k].words[2])) = 1
Valid == ValidIn(Scopes)

(* Commands with no effect; pc moves over them. *)
Empty(k) == Op(prog[k]) = "label" \/ (Op(prog[k]) = "function" /\ N(prog[k]) = 0)
Skip(k) == LET ks == {j \in k..Len(prog) : ~Empty(j)}
           IN  IF ks = {} THEN Len(prog) + 1 ELSE CHOOSE j \in ks : \A i \in ks : j <= i

Target(k) == CHOOSE j \in IF Op(prog[k]) = "call" THEN FunctionIdx(prog[k].words[2])
                          ELSE LabelIdx(k, prog[k].words[2]) : TRUE

-----------------------------------------------------------------------------
(* The words of the machine. *)
Signed(v) == IF v >= 2^15 THEN v - Word ELSE v
Bool(b) == IF b THEN Word - 1 ELSE 0
Binary(op, x, y) ==
  CASE op = "add" -> (x + y) % Word  [] op = "sub" -> (x - y + Word) % Word
    [] op = "eq"  -> Bool(x = y)     [] op = "gt"  -> Bool(Signed(x) > Signed(y))
    [] op = "lt"  -> Bool(Signed(x) < Signed(y))
    [] op = "and" -> x & y           [] op = "or"  -> x | y
Unary(op, y) == IF op = "neg" THEN (Word - y) % Word ELSE Word - 1 - y

Base == ("local" :> 1) @@ ("argument" :> 2) @@ ("this" :> 3) @@ ("that" :> 4)
Fixed == ("pointer" :> 3) @@ ("temp" :> 5)
Addr(ram, seg, i) == IF seg \in DOMAIN Base THEN (Peek(ram, Base[seg]) + i) % Word ELSE Fixed[seg] + i

Push(ram, v) == Poke(Poke(ram, Peek(ram, 0), v), 0, Peek(ram, 0) + 1)
Top(ram) == Peek(ram, Peek(ram, 0) - 1)
Drop(ram, n) == Poke(ram, 0, Peek(ram, 0) - n)

(* function f k: k locals of 0. *)
RECURSIVE PushZeros(_, _)
PushZeros(ram, k) == IF k = 0 THEN ram ELSE PushZeros(Push(ram, 0), k - 1)

(* call f n from ram, to resume at ret. *)
Called(ram, n, ret) ==
  LET r1 == Push(Push(Push(Push(Push(ram, ret), Peek(ram, 1)), Peek(ram, 2)), Peek(ram, 3)), Peek(ram, 4))
  IN  Poke(Poke(r1, 2, Peek(r1, 0) - n - 5), 1, Peek(r1, 0))

(* return: the result to ARG, SP just above it, the caller's pointers back. *)
Returned(ram) ==
  LET f  == Peek(ram, 1)
      r1 == Poke(ram, Peek(ram, 2), Top(ram))
      r2 == Poke(r1, 0, Peek(ram, 2) + 1)
  IN  Poke(Poke(Poke(Poke(r2, 4, Peek(ram, f - 1)), 3, Peek(ram, f - 2)), 2, Peek(ram, f - 3)),
           1, Peek(ram, f - 4))

Step(s) ==
  LET k == s.pc  c == prog[k]  ram == s.ram  op == Op(c)
      next(r, st) == [pc |-> Skip(k + 1), ram |-> Live(r), static |-> st]
      go(r, j) == [pc |-> Skip(j), ram |-> Live(r), static |-> s.static]
      key == <<c.file, N(c)>>
  IN  CASE op \in Arith \ {"neg", "not"} ->
             next(Poke(Drop(ram, 1), Peek(ram, 0) - 2,
                       Binary(op, Peek(ram, Peek(ram, 0) - 2), Top(ram))), s.static)
        [] op \in {"neg", "not"} -> next(Poke(ram, Peek(ram, 0) - 1, Unary(op, Top(ram))), s.static)
        [] op = "push" /\ c.words[2] = "constant" -> next(Push(ram, N(c)), s.static)
        [] op = "push" /\ c.words[2] = "static" ->
             next(Push(ram, IF key \in DOMAIN s.static THEN s.static[key] ELSE 0), s.static)
        [] op = "push" -> next(Push(ram, Peek(ram, Addr(ram, c.words[2], N(c)))), s.static)
        [] op = "pop" /\ c.words[2] = "static" ->
             next(Drop(ram, 1), Poke(s.static, key, Top(ram)))
        [] op = "pop" -> next(Poke(Drop(ram, 1), Addr(ram, c.words[2], N(c)), Top(ram)), s.static)
        [] op = "goto" -> go(ram, Target(k))
        [] op = "if-goto" -> IF Top(ram) # 0 THEN go(Drop(ram, 1), Target(k))
                             ELSE next(Drop(ram, 1), s.static)
        [] op = "call" -> go(Called(ram, N(c), Skip(k + 1)), Target(k))
        [] op = "function" -> next(PushZeros(ram, N(c)), s.static)
        [] op = "return" -> [pc |-> Peek(ram, Peek(ram, 1) - 5), ram |-> Live(Returned(ram)),
                             static |-> s.static]

-----------------------------------------------------------------------------
(* The bootstrap: SP = 256, then call Sys.init 0.  Sys.init never        *)
(* returns, so the return address of its frame is no part of the state.  *)
(* A program without Sys.init starts as the test scripts of chapter 7    *)
(* start one: SP = 256, at its first command.                             *)
HasSysInit == FunctionIdx("Sys.init") # {}
Booted == IF ~HasSysInit THEN [pc |-> Skip(1), ram |-> Poke(<<>>, 0, 256), static |-> <<>>]
          ELSE [pc |-> Skip(CHOOSE j \in FunctionIdx("Sys.init") : TRUE),
                ram |-> Called(Poke(<<>>, 0, 256), 0, 0), static |-> <<>>]

Init == vm = Booted

Next == /\ vm.pc <= Len(prog)
        /\ Valid
        /\ vm' = Step(vm)
        /\ UNCHANGED <<prog, ops>>

(* ENABLED <<Next>>_svars: Step is a function of the state, so the *)
(* VM can move exactly when Step changes it.                              *)
CanStep == vm.pc <= Len(prog) /\ Valid /\ Step(vm) # vm

(* WF_svars(Next), with its ENABLED written out as CanStep. *)
Progress == []<>~CanStep \/ []<><<Next>>_svars

Spec == Init /\ [][Next]_svars /\ Progress
=============================================================================

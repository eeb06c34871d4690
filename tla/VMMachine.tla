----------------------------- MODULE VMMachine -----------------------------
(***************************************************************************)
(* Meaning of the stack-machine code the compiler emits (spec section 6): *)
(* the instructions push/pop over the segments constant, local, argument,  *)
(* static, this, that, pointer, temp; add sub neg eq gt lt and or not;     *)
(* label, goto, if-goto, call and return, on 16-bit words.  Exec runs the  *)
(* body of one function; a call to another function is not followed: it   *)
(* pops its arguments, is recorded in the trace and pushes CallResult,     *)
(* a fixed function of the callee and the arguments, so that the caller's  *)
(* code is judged by what it passes and what it does with the answer.      *)
(***************************************************************************)
EXTENDS Integers, Sequences, Bitwise, TLC

CONSTANTS
  FunList,   \* the function names that may be called, as a sequence
  MaxSteps   \* instructions one execution may take before it is cut off

Word == 2^16
True == Word - 1          \* -1, what eq/gt/lt and "not 0" produce

Signed(v) == IF v >= 2^15 THEN v - Word ELSE v

(* The arithmetic-logical commands on words. *)
Add(x, y) == (x + y) % Word
Sub(x, y) == (x + Word - y) % Word
Neg(y)    == (Word - y) % Word
NotW(y)   == Word - 1 - y
Eq(x, y)  == IF x = y THEN True ELSE 0
Gt(x, y)  == IF Signed(x) > Signed(y) THEN True ELSE 0
Lt(x, y)  == IF Signed(x) < Signed(y) THEN True ELSE 0
AndW(x, y) == x & y
OrW(x, y)  == x | y

(* What a call returns: a hash of the callee and its arguments. *)
FunCode(f) == CHOOSE i \in 0..Len(FunList) :
                (i = 0 /\ \A j \in 1..Len(FunList) : FunList[j] # f)
                \/ (i > 0 /\ FunList[i] = f)

CallResult(f, args) ==
  LET RECURSIVE H(_)
      H(i) == IF i = 0 THEN FunCode(f) + 1
              ELSE (H(i - 1) * 257 + args[i] + 1) % 65521
  IN  H(Len(args))

(* Memory read with unwritten cells reading 0. *)
Read(mem, a) == IF a \in DOMAIN mem THEN mem[a] ELSE 0
Write(mem, a, v) == [x \in DOMAIN mem \cup {a} |-> IF x = a THEN v ELSE mem[x]]
SameMemory(m1, m2) ==
  \A a \in DOMAIN m1 \cup DOMAIN m2 : Read(m1, a) = Read(m2, a)

-----------------------------------------------------------------------------
(***************************************************************************)
(* A machine state: program counter, working stack, the segments of the    *)
(* running function (local and argument have fixed extents, static, temp  *)
(* and RAM read 0 where unwritten), pointer 0/1 (THIS/THAT), the trace of  *)
(* calls made, and on halting the returned value (NoValue when `return`   *)
(* finds the working stack empty and returns whatever lies below it) or an *)
(* error.  labelDepth and unbalanced are instrumentation: the stack depth  *)
(* at the first arrival at each label, and whether a later arrival found a *)
(* different depth.                                                        *)
(***************************************************************************)
NoValue == -1

Frame(argVals, nLocals, this, statics, ram) ==
  [pc |-> 2, stack |-> <<>>, local |-> [i \in 0..nLocals - 1 |-> 0],
   argument |-> [i \in 0..Len(argVals) - 1 |-> argVals[i + 1]],
   static |-> statics, temp |-> <<>>, pointer |-> <<this, 0>>,
   ram |-> ram, calls |-> <<>>, halted |-> FALSE, ret |-> NoValue,
   err |-> "none", labelDepth |-> <<>>, unbalanced |-> FALSE]

Halt(s, ret, err) == [s EXCEPT !.halted = TRUE, !.ret = ret, !.err = err]

(* local and argument have the extents the function header and the call *)
(* gave them; pointer has two cells; constant cannot be popped.          *)
InSegment(s, seg, i, isPop) ==
  CASE seg = "local"    -> i \in DOMAIN s.local
    [] seg = "argument" -> i \in DOMAIN s.argument
    [] seg = "pointer"  -> i \in {0, 1}
    [] seg = "constant" -> ~isPop
    [] OTHER            -> TRUE

ReadSeg(s, seg, i) ==
  CASE seg = "constant" -> i
    [] seg = "local"    -> s.local[i]
    [] seg = "argument" -> s.argument[i]
    [] seg = "static"   -> Read(s.static, i)
    [] seg = "temp"     -> Read(s.temp, i)
    [] seg = "pointer"  -> s.pointer[i + 1]
    [] seg = "this"     -> Read(s.ram, Add(s.pointer[1], i))
    [] seg = "that"     -> Read(s.ram, Add(s.pointer[2], i))

WriteSeg(s, seg, i, v) ==
  CASE seg = "local"    -> [s EXCEPT !.local[i] = v]
    [] seg = "argument" -> [s EXCEPT !.argument[i] = v]
    [] seg = "static"   -> [s EXCEPT !.static = Write(@, i, v)]
    [] seg = "temp"     -> [s EXCEPT !.temp = Write(@, i, v)]
    [] seg = "pointer"  -> [s EXCEPT !.pointer[i + 1] = v]
    [] seg = "this"     -> [s EXCEPT !.ram = Write(@, Add(s.pointer[1], i), v)]
    [] seg = "that"     -> [s EXCEPT !.ram = Write(@, Add(s.pointer[2], i), v)]

LabelAt(code, l) == {i \in 1..Len(code) : code[i].op = "label" /\ code[i].a1 = l}

(* The binary commands, y being the top of the stack and x the one below. *)
BinaryOps == {"add", "sub", "eq", "gt", "lt", "and", "or"}
Binary(op, x, y) ==
  CASE op = "add" -> Add(x, y) [] op = "sub" -> Sub(x, y)
    [] op = "eq"  -> Eq(x, y)  [] op = "gt"  -> Gt(x, y)
    [] op = "lt"  -> Lt(x, y)  [] op = "and" -> AndW(x, y)
    [] op = "or"  -> OrW(x, y)

(* Arriving at a label with the current stack depth. *)
AtLabel(s, l) ==
  IF l \in DOMAIN s.labelDepth
  THEN [s EXCEPT !.unbalanced = @ \/ s.labelDepth[l] # Len(s.stack)]
  ELSE [s EXCEPT !.labelDepth = (l :> Len(s.stack)) @@ @]

Step(code, s) ==
  LET ins == code[s.pc]
      st  == s.stack
      n   == Len(st)
      top == st[n]
      next(t) == [t EXCEPT !.pc = @ + 1]
      jump(t, l) == IF LabelAt(code, l) = {} THEN Halt(t, NoValue, "nolabel")
                    ELSE [t EXCEPT !.pc = CHOOSE i \in LabelAt(code, l) :
                                            \A j \in LabelAt(code, l) : i <= j]
      replace(k, v) == next([s EXCEPT !.stack = Append(SubSeq(st, 1, n - k), v)])
  IN
  CASE ins.op = "push" ->
         IF ~InSegment(s, ins.a1, ins.a2, FALSE) THEN Halt(s, NoValue, "segment")
         ELSE next([s EXCEPT !.stack = Append(st, ReadSeg(s, ins.a1, ins.a2))])
    [] ins.op = "pop" ->
         CASE n < 1 -> Halt(s, NoValue, "underflow")
           [] ~InSegment(s, ins.a1, ins.a2, TRUE) -> Halt(s, NoValue, "segment")
           [] OTHER -> next(WriteSeg([s EXCEPT !.stack = SubSeq(st, 1, n - 1)],
                                     ins.a1, ins.a2, top))
    [] ins.op \in BinaryOps ->
         IF n < 2 THEN Halt(s, NoValue, "underflow")
         ELSE replace(2, Binary(ins.op, st[n - 1], top))
    [] ins.op \in {"neg", "not"} ->
         IF n < 1 THEN Halt(s, NoValue, "underflow")
         ELSE replace(1, IF ins.op = "neg" THEN Neg(top) ELSE NotW(top))
    [] ins.op = "label" -> next(AtLabel(s, ins.a1))
    [] ins.op = "goto"  -> jump(s, ins.a1)
    [] ins.op = "if-goto" ->
         IF n < 1 THEN Halt(s, NoValue, "underflow")
         ELSE LET t == [s EXCEPT !.stack = SubSeq(st, 1, n - 1)]
              IN  IF top # 0 THEN jump(t, ins.a1) ELSE next(t)
    [] ins.op = "call" ->
         IF n < ins.a2 THEN Halt(s, NoValue, "underflow")
         ELSE LET args == SubSeq(st, n - ins.a2 + 1, n)
              IN  next([s EXCEPT !.stack = Append(SubSeq(st, 1, n - ins.a2),
                                                  CallResult(ins.a1, args)),
                                 !.calls = Append(@, <<ins.a1, args>>)])
    [] ins.op = "return" -> Halt(s, IF n < 1 THEN NoValue ELSE top, "none")
    [] OTHER -> Halt(s, NoValue, "opcode")

(* Run from state s for at most fuel steps. *)
RECURSIVE Exec(_, _, _)
Exec(code, s, fuel) ==
  CASE s.halted -> s
    [] s.pc > Len(code) -> Halt(s, NoValue, "fell-off")
    [] fuel = 0 -> Halt(s, NoValue, "fuel")
    [] OTHER -> Exec(code, Step(code, s), fuel - 1)
=============================================================================

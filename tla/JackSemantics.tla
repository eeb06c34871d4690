---------------------------- MODULE JackSemantics ----------------------------
(***************************************************************************)
(* What one Jack subroutine means, read directly from its syntax tree (the *)
(* same records JackVMWriter compiles), against which the code the writer  *)
(* emits is judged.  Variables live in the slots the standard layout       *)
(* gives them (k-th static, field, parameter, var in declaration order;    *)
(* the receiver of a method in argument 0), values are 16-bit words with   *)
(* the arithmetic of VMMachine, expressions are evaluated left to right    *)
(* with no precedence (spec 4.2), and calls of other subroutines are the   *)
(* uninterpreted calls of VMMachine, recorded in the same trace.           *)
(*                                                                         *)
(* LetOrder says which of the two expressions of `let a[i] = e` is         *)
(* evaluated first: "index" as spec 4.4 states, or "value".               *)
(***************************************************************************)
EXTENDS VMMachine, FiniteSets

CONSTANTS ClassName, LetOrder, MaxLoops

(* The class members in declaration order, each [kind, type, name]. *)
Members(decs) ==
  LET RECURSIVE Flat(_)
      Flat(i) == IF i > Len(decs) THEN <<>>
                 ELSE [j \in 1..Len(decs[i].names) |->
                         [kind |-> decs[i].kind, type |-> decs[i].type,
                          name |-> decs[i].names[j]]] \o Flat(i + 1)
  IN  Flat(1)

(* Where a name lives: the first parameter, var, or class member so named, *)
(* in that order of scopes, with its slot among those of its kind.        *)
Position(seq, name) == CHOOSE i \in 1..Len(seq) + 1 :
                         /\ \A j \in 1..i - 1 : seq[j].name # name
                         /\ i <= Len(seq) => seq[i].name = name
SlotOf(seq, i, kind) == Cardinality({j \in 1..i - 1 : seq[j].kind = kind})

Resolve(cx, name) ==
  LET p == Position(cx.dec.params, name)
      v == Position(cx.dec.vars, name)
      ms == Members(cx.cls)
      m == Position(ms, name)
  IN  CASE p <= Len(cx.dec.params) -> [where |-> "frame", type |-> cx.dec.params[p].type, slot |-> 0]
        [] v <= Len(cx.dec.vars) -> [where |-> "frame", type |-> cx.dec.vars[v].type, slot |-> 0]
        [] m <= Len(ms) -> [where |-> ms[m].kind, type |-> ms[m].type,
                            slot |-> SlotOf(ms, m, ms[m].kind)]
        [] OTHER -> [where |-> "none", type |-> "", slot |-> 0]

IsVariable(cx, name) == Resolve(cx, name).where # "none"

(***************************************************************************)
(* An environment: frame maps parameter and var names to values, static    *)
(* maps static slots to values, this is the current object, ram memory,    *)
(* calls the call trace; halted, ret and err as in VMMachine, loops counts *)
(* loop iterations against MaxLoops.                                       *)
(***************************************************************************)
Value(cx, env, name) ==
  LET r == Resolve(cx, name)
  IN  CASE r.where = "frame"  -> env.frame[name]
        [] r.where = "field"  -> Read(env.ram, Add(env.this, r.slot))
        [] r.where = "static" -> Read(env.static, r.slot)
        [] OTHER -> 0

Assign(cx, env, name, v) ==
  LET r == Resolve(cx, name)
  IN  CASE r.where = "frame"  -> [env EXCEPT !.frame[name] = v]
        [] r.where = "field"  -> [env EXCEPT !.ram = Write(@, Add(env.this, r.slot), v)]
        [] r.where = "static" -> [env EXCEPT !.static = Write(@, r.slot, v)]
        [] OTHER -> env

(* Calling another subroutine: recorded, answered by CallResult. *)
Call(env, f, args) ==
  [v |-> CallResult(f, args), env |-> [env EXCEPT !.calls = Append(@, <<f, args>>)]]

(* A binary operator of Jack; * and / are the OS's Math functions. *)
ApplyOp(op, x, y, env) ==
  CASE op = "*" -> Call(env, <<"Math", "multiply">>, <<x, y>>)
    [] op = "/" -> Call(env, <<"Math", "divide">>, <<x, y>>)
    [] OTHER -> [v |-> CASE op = "+" -> Add(x, y) [] op = "-" -> Sub(x, y)
                         [] op = "&" -> AndW(x, y) [] op = "|" -> OrW(x, y)
                         [] op = "<" -> Lt(x, y)   [] op = ">" -> Gt(x, y)
                         [] op = "=" -> Eq(x, y),
                 env |-> env]

(* A string constant is built by String.new and one appendChar per char. *)
StringValue(chars, env) ==
  LET RECURSIVE App(_, _)
      App(i, r) == IF i > Len(chars) THEN r
                   ELSE App(i + 1, Call(r.env, <<"String", "appendChar">>, <<r.v, chars[i]>>))
  IN  App(1, Call(env, <<"String", "new">>, <<Len(chars)>>))

RECURSIVE EvalExpr(_, _, _), EvalTerm(_, _, _), EvalList(_, _, _)

(* The value x so far combined by op with the result r of the next term. *)
Combine(op, x, r) == ApplyOp(op, x, r.v, r.env)

EvalExpr(cx, e, env) ==
  LET RECURSIVE Fold(_, _)
      Fold(i, acc) == IF i > Len(e.terms) THEN acc
                      ELSE Fold(i + 1, Combine(e.ops[i - 1], acc.v,
                                               EvalTerm(cx, e.terms[i], acc.env)))
  IN  Fold(2, EvalTerm(cx, e.terms[1], env))

(* The values of a list of expressions, left to right: h is the first's. *)
Cons(cx, h, rest) ==
  LET t == EvalList(cx, rest, h.env)
  IN  [vs |-> <<h.v>> \o t.vs, env |-> t.env]

EvalList(cx, args, env) ==
  IF args = <<>> THEN [vs |-> <<>>, env |-> env]
  ELSE Cons(cx, EvalExpr(cx, Head(args), env), Tail(args))

(* A call: on a variable, a method of its type with the object first; on *)
(* any other qualifier, a function of that class; unqualified, a method  *)
(* of this class on this.  as holds the values of the arguments.         *)
CallWith(cx, q, f, env, as) ==
  CASE q = "" -> Call(as.env, <<ClassName, f>>, <<env.this>> \o as.vs)
    [] IsVariable(cx, q) -> Call(as.env, <<Resolve(cx, q).type, f>>,
                                 <<Value(cx, env, q)>> \o as.vs)
    [] OTHER -> Call(as.env, <<q, f>>, as.vs)

CallTerm(cx, q, f, args, env) == CallWith(cx, q, f, env, EvalList(cx, args, env))

(* A unary operator and an indexed read, given their operand's result. *)
UnaryValue(op, r) == [v |-> IF op = "-" THEN Neg(r.v) ELSE NotW(r.v), env |-> r.env]
IndexValue(cx, env, name, r) ==
  [v |-> Read(r.env.ram, Add(Value(cx, env, name), r.v)), env |-> r.env]

EvalTerm(cx, t, env) ==
  CASE t.term = "int" -> [v |-> t.val, env |-> env]
    [] t.term = "str" -> StringValue(t.chars, env)
    [] t.term = "kw" -> [v |-> CASE t.kw = "true" -> True [] t.kw = "this" -> env.this
                                 [] OTHER -> 0,
                         env |-> env]
    [] t.term = "unary" -> UnaryValue(t.op, EvalTerm(cx, t.arg, env))
    [] t.term = "arr" -> IndexValue(cx, env, t.name, EvalExpr(cx, t.index, env))
    [] t.term = "paren" -> EvalExpr(cx, t.expr, env)
    [] t.term = "call" -> CallTerm(cx, t.q, t.f, t.args, env)
    [] t.term = "var" -> [v |-> Value(cx, env, t.name), env |-> env]

-----------------------------------------------------------------------------
(* A condition holds when its value is not false (0). *)
Holds(v) == v # 0

RECURSIVE Run(_, _, _), RunStmt(_, _, _), Loop(_, _, _)

Run(cx, stmts, env) ==
  IF stmts = <<>> \/ env.halted THEN env
  ELSE Run(cx, Tail(stmts), RunStmt(cx, Head(stmts), env))

(* let a[i] = e: both expressions in LetOrder, then the store; r1 and r2 *)
(* are the results of the first and the second.                         *)
ArrayStore(cx, s, env, r1, r2) ==
  LET idx == IF LetOrder = "index" THEN r1.v ELSE r2.v
      val == IF LetOrder = "index" THEN r2.v ELSE r1.v
  IN  [r2.env EXCEPT !.ram = Write(@, Add(Value(cx, env, s.name), idx), val)]

ArraySecond(cx, s, env, r1) ==
  ArrayStore(cx, s, env, r1,
             EvalExpr(cx, IF LetOrder = "index" THEN s.value ELSE s.index[1], r1.env))

ArrayLet(cx, s, env) ==
  ArraySecond(cx, s, env,
              EvalExpr(cx, IF LetOrder = "index" THEN s.index[1] ELSE s.value, env))

(* if: the branch the condition's result c selects. *)
Branch(cx, s, c) ==
  IF Holds(c.v) THEN Run(cx, s.then, c.env)
  ELSE IF s.else = <<>> THEN c.env ELSE Run(cx, s.else[1], c.env)

(* while: one test with result c, and the body's result b; an iteration *)
(* beyond MaxLoops cuts the run off.                                    *)
LoopBody(cx, s, b) == IF b.halted THEN b ELSE Loop(cx, s, b)
LoopTest(cx, s, c) ==
  CASE ~Holds(c.v) -> c.env
    [] c.env.loops >= MaxLoops -> Halt(c.env, NoValue, "fuel")
    [] OTHER -> LoopBody(cx, s, Run(cx, s.body, [c.env EXCEPT !.loops = @ + 1]))
Loop(cx, s, env) == LoopTest(cx, s, EvalExpr(cx, s.cond, env))

AssignValue(cx, name, r) == Assign(cx, r.env, name, r.v)
ReturnValue(r) == Halt(r.env, r.v, "none")

RunStmt(cx, s, env) ==
  CASE s.stmt = "let" /\ s.index = <<>> -> AssignValue(cx, s.name, EvalExpr(cx, s.value, env))
    [] s.stmt = "let" -> ArrayLet(cx, s, env)
    [] s.stmt = "do" -> CallTerm(cx, s.q, s.f, s.args, env).env
    [] s.stmt = "return" /\ s.value = <<>> -> Halt(env, NoValue, "none")
    [] s.stmt = "return" -> ReturnValue(EvalExpr(cx, s.value[1], env))
    [] s.stmt = "if" -> Branch(cx, s, EvalExpr(cx, s.cond, env))
    [] s.stmt = "while" -> Loop(cx, s, env)

(***************************************************************************)
(* Running a subroutine from a start: argument values for its parameters,  *)
(* the statics by slot, the current object and the memory.  A constructor  *)
(* first obtains its object from Memory.alloc with the field count (at     *)
(* least one word); running off the end of the body is an error.          *)
(***************************************************************************)
FieldCount(cls) == Cardinality({i \in 1..Len(Members(cls)) : Members(cls)[i].kind = "field"})

NamesOf(decls) == {decls[i].name : i \in 1..Len(decls)}

(* Running off the end of the body. *)
Ended(e) == IF e.halted THEN e ELSE Halt(e, NoValue, "fell-off")

Meaning(cls, dec, argVals, statics, this, ram) ==
  LET cx  == [cls |-> cls, dec |-> dec]
      e0  == [frame |-> [n \in NamesOf(dec.params) \cup NamesOf(dec.vars) |->
                           LET p == Position(dec.params, n)
                           IN  IF p <= Len(dec.params) THEN argVals[p] ELSE 0],
              static |-> statics, this |-> this, ram |-> ram, calls |-> <<>>,
              halted |-> FALSE, ret |-> NoValue, err |-> "none", loops |-> 0]
      e1  == IF dec.kind = "constructor"
             THEN LET a == Call(e0, <<"Memory", "alloc">>,
                                <<IF FieldCount(cls) = 0 THEN 1 ELSE FieldCount(cls)>>)
                  IN  [a.env EXCEPT !.this = a.v]
             ELSE e0
  IN  Ended(Run(cx, dec.body, e1))

(* A machine run and a source run agree: same error, same calls with the *)
(* same arguments in the same order, same memory and statics, and the    *)
(* same value returned when the source returns one.                     *)
Agree(vm, env) ==
  /\ vm.err = env.err
  /\ vm.calls = env.calls
  /\ SameMemory(vm.ram, env.ram)
  /\ SameMemory(vm.static, env.static)
  /\ env.ret # NoValue => vm.ret = env.ret
-----------------------------------------------------------------------------
(***************************************************************************)
(* The starts a subroutine is run from: the current object at ThisBase, an *)
(* int parameter 0 or 2 (a loop to p runs zero or two times), an Array at  *)
(* ArrayBase holding 5, 7, 9, any other object at ObjectBase; each class   *)
(* member holds the value its type gives.                                  *)
(***************************************************************************)
ThisBase   == 50
ObjectBase == 70
ArrayBase  == 100

ArgValues(type) == CASE type = "int" -> {0, 2} [] type = "Array" -> {ArrayBase}
                     [] OTHER -> {ObjectBase}
MemberValue(type) == CASE type = "int" -> 3 [] type = "Array" -> ArrayBase
                       [] OTHER -> ObjectBase

ArgChoices(dec) ==
  {a \in [1..Len(dec.params) -> UNION {ArgValues(dec.params[i].type) : i \in 1..Len(dec.params)}] :
     \A i \in 1..Len(dec.params) : a[i] \in ArgValues(dec.params[i].type)}

SlotsOf(cls, kind) ==
  LET ms == Members(cls)
  IN  {i \in 1..Len(ms) : ms[i].kind = kind}

InitStatics(cls) ==
  LET ms == Members(cls)
  IN  [k \in {SlotOf(ms, i, "static") : i \in SlotsOf(cls, "static")} |->
         MemberValue(ms[CHOOSE i \in SlotsOf(cls, "static") : SlotOf(ms, i, "static") = k].type)]

InitRAM(cls) ==
  LET ms == Members(cls)
      fieldAt(a) == CHOOSE i \in SlotsOf(cls, "field") : ThisBase + SlotOf(ms, i, "field") = a
  IN  [a \in {ThisBase + SlotOf(ms, i, "field") : i \in SlotsOf(cls, "field")}
             \cup (ArrayBase..ArrayBase + 2) |->
         IF a >= ArrayBase THEN 5 + 2 * (a - ArrayBase) ELSE MemberValue(ms[fieldAt(a)].type)]

(* The source run and the machine run of code, the function compiled    *)
(* from dec, from the same start; the machine's local segment has the    *)
(* extent the function header declares, its argument segment holds the  *)
(* receiver first when dec is a method.                                  *)
SourceRun(cls, dec, args) == Meaning(cls, dec, args, InitStatics(cls), ThisBase, InitRAM(cls))

MachineRun(code, cls, dec, args) ==
  Exec(code, Frame(IF dec.kind = "method" THEN <<ThisBase>> \o args ELSE args,
                   code[1].a2, ThisBase, InitStatics(cls), InitRAM(cls)),
       MaxSteps)

(* code does what dec means from every start, unless the source run is  *)
(* cut off by MaxLoops.                                                  *)
MeetsFrom(code, cls, dec, args, env) ==
  env.err = "fuel" \/ Agree(MachineRun(code, cls, dec, args), env)

CodeMeetsSource(code, cls, dec) ==
  \A args \in ArgChoices(dec) :
    MeetsFrom(code, cls, dec, args, SourceRun(cls, dec, args))

-----------------------------------------------------------------------------
(***************************************************************************)
(* The static rules of Jack a class must meet: no name declared twice in   *)
(* a scope, every name used as a variable declared, and the target of an   *)
(* indexed let an Array.  (A call's qualifier may be a class name and an   *)
(* unqualified call names a method, so neither has to be a variable.)      *)
(***************************************************************************)
Distinct(seq) == \A i, j \in 1..Len(seq) : i # j => seq[i].name # seq[j].name

RECURSIVE ExprOK(_, _), TermOK(_, _), StmtsOK(_, _)
ExprOK(cx, e) == \A i \in 1..Len(e.terms) : TermOK(cx, e.terms[i])
TermOK(cx, t) ==
  CASE t.term = "unary" -> TermOK(cx, t.arg)
    [] t.term = "arr"   -> IsVariable(cx, t.name) /\ ExprOK(cx, t.index)
    [] t.term = "paren" -> ExprOK(cx, t.expr)
    [] t.term = "call"  -> \A i \in 1..Len(t.args) : ExprOK(cx, t.args[i])
    [] t.term = "var"   -> IsVariable(cx, t.name)
    [] OTHER -> TRUE
StmtsOK(cx, ss) ==
  \A k \in 1..Len(ss) :
    LET s == ss[k]
    IN  CASE s.stmt = "let" ->
               /\ IsVariable(cx, s.name) /\ ExprOK(cx, s.value)
               /\ s.index # <<>> => Resolve(cx, s.name).type = "Array" /\ ExprOK(cx, s.index[1])
          [] s.stmt = "do" -> \A i \in 1..Len(s.args) : ExprOK(cx, s.args[i])
          [] s.stmt = "return" -> s.value # <<>> => ExprOK(cx, s.value[1])
          [] s.stmt = "if" -> /\ ExprOK(cx, s.cond) /\ StmtsOK(cx, s.then)
                              /\ s.else # <<>> => StmtsOK(cx, s.else[1])
          [] s.stmt = "while" -> ExprOK(cx, s.cond) /\ StmtsOK(cx, s.body)

WellFormed(cls, dec) ==
  /\ Distinct(Members(cls))
  /\ Distinct(dec.params \o dec.vars)
  /\ StmtsOK([cls |-> cls, dec |-> dec], dec.body)
=============================================================================

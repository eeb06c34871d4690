---------------------------- MODULE JackVMWriter ----------------------------
(***************************************************************************)
(* The code generator of the Jack compiler (project11/jack_vm_writer.py,   *)
(* class JackVMWriter): it walks the syntax tree of one class, drives the  *)
(* symbol table and writes one VM function per subroutine.                 *)
(*                                                                         *)
(* Syntax trees are abstracted to records holding exactly what the writer  *)
(* finds in the XML elements.  An expression is a sequence of terms and    *)
(* the operators between them; a term is one of the records built by the   *)
(* Term constructors below.  A VM instruction is a record [op, a1, a2];    *)
(* a function name Class.sub is the pair <<Class, sub>> and the label      *)
(* "sub$n" the pair <<sub, n>>: formatting is left out, both stay          *)
(* injective.  The writer's run() defines the class variables and then     *)
(* compiles subroutine after subroutine; here each step chooses the next   *)
(* subroutine declaration of the class from SubroutineDecs.                *)
(***************************************************************************)
EXTENDS Naturals, Sequences, FiniteSets, TLC

CONSTANTS
  ClassName,           \* identifier of the class being compiled
  Names, Types, SubNames,
  ClassVarDecChoices,  \* possible classVarDec lists of the class
  SubroutineDecs,      \* possible subroutineDec elements
  MaxSubroutines,      \* bound on subroutines per class
  FunList, MaxSteps, MaxLoops   \* bounds of the reference runs (JackSemantics)

(***************************************************************************)
(* The writer's state.  table is _symbol_table, labelIndex _label_index,   *)
(* out the VM file as the list of vm_code_list blocks written so far.      *)
(* status is "classVars" before run() starts, "subroutines" while it       *)
(* compiles them, "done" after close() and "failed" once an exception      *)
(* aborted the run.  classVarDecs is the class's classVarDec list (input); *)
(* compiled is a ghost list of the subroutineDecs whose functions are in   *)
(* out.                                                                    *)
(***************************************************************************)
VARIABLES table, labelIndex, out, status, classVarDecs, compiled

vars == <<table, labelIndex, out, status, classVarDecs, compiled>>

(* The symbol table's operators, applied to the writer's table. *)
ST == INSTANCE JackSymbolTable
        WITH MaxArgBumps <- 1, history <- <<>>, bumps <- 0

-----------------------------------------------------------------------------
(* VM instructions and the helpers that build them. *)
I(op, a1, a2) == [op |-> op, a1 |-> a1, a2 |-> a2]
Push(seg, i)  == I("push", seg, i)
Pop(seg, i)   == I("pop", seg, i)
Op(name)      == I(name, 0, 0)
CallI(f, n)   == I("call", f, n)

(* Seeded fault for mutation analysis: * emitted as an instruction the  *)
(* stack machine does not have.                                         *)
op_map_vm_code_mul(op) ==
  IF op = "*" THEN Op("mul")
  ELSE CASE op = "+" -> Op("add") [] op = "-" -> Op("sub")
         [] op = "/" -> CallI(<<"Math", "divide">>, 2)
         [] op = "&" -> Op("and") [] op = "|" -> Op("or")
         [] op = "<" -> Op("lt")  [] op = ">" -> Op("gt") [] op = "=" -> Op("eq")

(* op_map_vm_code *)
op_map_vm_code(op) ==
  CASE op = "+" -> Op("add")
    [] op = "-" -> Op("sub")
    [] op = "*" -> CallI(<<"Math", "multiply">>, 2)
    [] op = "/" -> CallI(<<"Math", "divide">>, 2)
    [] op = "&" -> Op("and")
    [] op = "|" -> Op("or")
    [] op = "<" -> Op("lt")
    [] op = ">" -> Op("gt")
    [] op = "=" -> Op("eq")

(* A compilation result: the code and whether no exception was raised.   *)
(* None.kind on an unknown name raises AttributeError; a failed assert    *)
(* raises AssertionError: either aborts the compiler.                     *)
Ok(code) == [code |-> code, ok |-> TRUE]
Fail     == [code |-> <<>>, ok |-> FALSE]
ToSetOfSeq(s) == {s[i] : i \in 1..Len(s)}

Then(r1, r2) == [code |-> r1.code \o r2.code, ok |-> r1.ok /\ r2.ok]

PushSymbol(sym) == Push(ST!kind2Str(sym.kind), sym.index)

-----------------------------------------------------------------------------
RECURSIVE _compileExpression(_, _), _compileTerm(_, _),
          _compileExpressionList(_, _)

(* _compileExpression: term (op term)*, each operator after its right   *)
(* operand, strictly left to right.                                     *)
_compileExpression(e, tbl) ==
  LET RECURSIVE Each(_)
      Each(i) == IF i > Len(e.terms) THEN Ok(<<>>)
                 ELSE Then(Then(_compileTerm(e.terms[i], tbl),
                                Ok(IF i = 1 THEN <<>>
                                   ELSE <<op_map_vm_code(e.ops[i - 1])>>)),
                           Each(i + 1))
  IN  Each(1)

(* _compileExpressionList: the arguments and their number. *)
_compileExpressionList(args, tbl) ==
  LET RECURSIVE Each(_)
      Each(i) == IF i > Len(args) THEN Ok(<<>>)
                 ELSE Then(_compileExpression(args[i], tbl), Each(i + 1))
      r == Each(1)
  IN  [code |-> r.code, ok |-> r.ok, n |-> Len(args)]

(* The string literal term: String.new then one appendChar per char. *)
StringCode(chars) ==
  <<Push("constant", Len(chars)), CallI(<<"String", "new">>, 1)>>
  \o [i \in 1..2 * Len(chars) |->
        IF i % 2 = 1 THEN Push("constant", chars[(i + 1) \div 2])
        ELSE CallI(<<"String", "appendChar">>, 2)]

(* A name pushed as a variable: None has no kind (AttributeError). *)
PushName(name, tbl) ==
  LET sym == ST!symbol(tbl, name)
  IN  IF sym = ST!None THEN Fail ELSE Ok(<<PushSymbol(sym)>>)

(* The nested expressions of a term: the operand of a unary operator (as  *)
(* a one-term expression), the index, the parenthesised expression or the *)
(* arguments.  They are compiled as one list, whose code is the           *)
(* concatenation of theirs.                                               *)
Nested(t) ==
  CASE t.term = "unary" -> << [terms |-> <<t.arg>>, ops |-> <<>>] >>
    [] t.term = "arr"   -> <<t.index>>
    [] t.term = "paren" -> <<t.expr>>
    [] t.term = "call"  -> t.args
    [] OTHER            -> <<>>

(* _compileTerm, in the order of its tests, given the result sub of its   *)
(* nested expressions.  _isSubroutineCall compares the element after the  *)
(* identifier with the string '(' and so never recognises an unqualified  *)
(* call; its assertion on the expressionList is caught and the term is    *)
(* compiled as the varName of its identifier.                             *)
TermCode(t, tbl, sub) ==
  LET sym == ST!symbol(tbl, t.q)
  IN
  CASE t.term = "int" -> Ok(<<Push("constant", t.val)>>)
    [] t.term = "str" -> Ok(StringCode(t.chars))
    [] t.term = "kw" /\ t.kw \in {"null", "false"} ->
          Ok(<<Push("constant", 0)>>)
    [] t.term = "kw" /\ t.kw = "true" ->
          Ok(<<Push("constant", 0), Op("not")>>)
    [] t.term = "kw" -> Ok(<<Push("pointer", 0)>>)
    [] t.term = "unary" ->
          Then(sub, Ok(<<IF t.op = "-" THEN Op("neg") ELSE Op("not")>>))
    [] t.term = "arr" ->
          Then(Then(PushName(t.name, tbl), sub),
               Ok(<<Op("add"), Pop("pointer", 1), Push("that", 0)>>))
    [] t.term = "paren" -> Then(sub, Ok(<<>>))
    [] t.term = "call" /\ t.q # "" /\ sym # ST!None ->
          Then(Ok(<<PushSymbol(sym)>>),
               Then(sub, Ok(<<CallI(<<sym.type, t.f>>, sub.n + 1)>>)))
    [] t.term = "call" /\ t.q # "" ->
          Then(sub, Ok(<<CallI(<<t.q, t.f>>, sub.n)>>))
    [] t.term = "call" -> PushName(t.f, tbl)
    [] t.term = "var" -> PushName(t.name, tbl)

_compileTerm(t, tbl) == TermCode(t, tbl, _compileExpressionList(Nested(t), tbl))

-----------------------------------------------------------------------------
(* Statement results also carry the label counter _label_index. *)
SOk(r, lbl) == [code |-> r.code, ok |-> r.ok, lbl |-> lbl]

RECURSIVE _compileStatements(_, _, _, _)

(* _compileLet, given the symbol of the target, the value's code and the  *)
(* index's code (empty for a plain let): one expression pops into the     *)
(* variable; two (array target) emit the value first, then base + index   *)
(* into pointer 1 and pop into that 0.  None.kind and the Array assertion *)
(* raise.                                                                 *)
(* Seeded fault for mutation analysis: the element address is popped    *)
(* into pointer 0 (THIS) instead of pointer 1 (THAT).                   *)
LetCode_pointer0(s, sym, exp, idx) ==
  IF s.index = <<>>
  THEN IF sym = ST!None THEN Fail
       ELSE Then(exp, Ok(<<Pop(ST!kind2Str(sym.kind), sym.index)>>))
  ELSE IF sym = ST!None \/ sym.type # "Array" THEN Fail
       ELSE Then(Then(exp, Ok(<<PushSymbol(sym)>>)),
                 Then(idx, Ok(<<Op("add"), Pop("pointer", 0), Pop("that", 0)>>)))

LetCode(s, sym, exp, idx) ==
  IF s.index = <<>>
  THEN IF sym = ST!None THEN Fail
       ELSE Then(exp, Ok(<<Pop(ST!kind2Str(sym.kind), sym.index)>>))
  ELSE IF sym = ST!None \/ sym.type # "Array" THEN Fail
       ELSE Then(Then(exp, Ok(<<PushSymbol(sym)>>)),
                 Then(idx, Ok(<<Op("add"), Pop("pointer", 1), Pop("that", 0)>>)))

_compileLet(s, tbl) ==
  LetCode(s, ST!symbol(tbl, s.name), _compileExpression(s.value, tbl),
          _compileExpressionList(s.index, tbl))

(* _compileDo, given the arguments' result: an unqualified call is a     *)
(* method call on this; a qualifier that is a variable pushes it and     *)
(* names its type; otherwise the qualifier is taken as a class name.     *)
(* The result is left on the stack.                                      *)
DoCode(s, tbl, args) ==
  LET sym == ST!symbol(tbl, s.q)
      call(f, n) == Ok(<<CallI(f, n)>>)
  IN  CASE s.q = "" ->
             Then(Then(Ok(<<Push("pointer", 0)>>), args),
                  call(<<ClassName, s.f>>, args.n + 1))
        [] sym # ST!None ->
             Then(Then(Ok(<<PushSymbol(sym)>>), args),
                  call(<<sym.type, s.f>>, args.n + 1))
        [] OTHER -> Then(args, call(<<s.q, s.f>>, args.n))

_compileDo(s, tbl) == DoCode(s, tbl, _compileExpressionList(s.args, tbl))

_compileReturn(s, tbl) ==
  IF s.value = <<>> THEN Ok(<<Op("return")>>)
  ELSE Then(_compileExpression(s.value[1], tbl), Ok(<<Op("return")>>))

(* _compileIf and _compileWhile compile the condition and the nested     *)
(* statements first and only then take their labels from _label_index.   *)
IfCode(s, sub, cond, tbody, ebody) ==
  IF s.else = <<>>
  THEN LET L == <<sub, tbody.lbl>>
       IN  SOk(Then(Then(cond, Ok(<<Op("not"), I("if-goto", L, 0)>>)),
                    Then(tbody, Ok(<<I("label", L, 0)>>))), tbody.lbl + 1)
  ELSE LET EL == <<sub, ebody.lbl>>
           L  == <<sub, ebody.lbl + 1>>
       IN  SOk(Then(Then(cond, Ok(<<Op("not"), I("if-goto", EL, 0)>>)),
                    Then(Then(tbody, Ok(<<I("goto", L, 0), I("label", EL, 0)>>)),
                         Then(ebody, Ok(<<I("label", L, 0)>>)))),
               ebody.lbl + 2)

(* The else body, if any, is compiled after the then body. *)
IfBodies(s, tbl, sub, cond, tbody) ==
  IfCode(s, sub, cond, tbody,
         _compileStatements(IF s.else = <<>> THEN <<>> ELSE s.else[1],
                            tbl, sub, tbody.lbl))

_compileIf(s, tbl, sub, lbl) ==
  IfBodies(s, tbl, sub, _compileExpression(s.cond, tbl),
           _compileStatements(s.then, tbl, sub, lbl))

WhileCode(sub, cond, body) ==
  LET W == <<sub, body.lbl>>
      L == <<sub, body.lbl + 1>>
  IN  SOk(Then(Then(Ok(<<I("label", W, 0)>>), cond),
               Then(Ok(<<Op("not"), I("if-goto", L, 0)>>),
                    Then(body, Ok(<<I("goto", W, 0), I("label", L, 0)>>)))),
          body.lbl + 2)

(* Seeded fault for mutation analysis: while names its two labels after *)
(* the counter as it was before the body, and advances it only after.    *)
_compileWhile_labelsEarly(s, tbl, sub, lbl) ==
  LET body == _compileStatements(s.body, tbl, sub, lbl)
      cond == _compileExpression(s.cond, tbl)
      W == <<sub, lbl>>
      L == <<sub, lbl + 1>>
  IN  SOk(Then(Then(Ok(<<I("label", W, 0)>>), cond),
               Then(Ok(<<Op("not"), I("if-goto", L, 0)>>),
                    Then(body, Ok(<<I("goto", W, 0), I("label", L, 0)>>)))),
          body.lbl + 2)

_compileWhile(s, tbl, sub, lbl) ==
  WhileCode(sub, _compileExpression(s.cond, tbl),
            _compileStatements(s.body, tbl, sub, lbl))

(* statement_route: the method for each statement tag. *)
_compileStatement(s, tbl, sub, lbl) ==
  CASE s.stmt = "let"    -> SOk(_compileLet(s, tbl), lbl)
    [] s.stmt = "do"     -> SOk(_compileDo(s, tbl), lbl)
    [] s.stmt = "return" -> SOk(_compileReturn(s, tbl), lbl)
    [] s.stmt = "if"     -> _compileIf(s, tbl, sub, lbl)
    [] s.stmt = "while"  -> _compileWhile(s, tbl, sub, lbl)

(* _compileStatements: each statement in order, the label counter passed *)
(* on from one to the next.                                             *)
StatementsAfter(first, rest, tbl, sub) ==
  LET r == _compileStatements(rest, tbl, sub, first.lbl)
  IN  SOk(Then(first, r), r.lbl)

_compileStatements(stmts, tbl, sub, lbl) ==
  IF stmts = <<>> THEN SOk(Ok(<<>>), lbl)
  ELSE StatementsAfter(_compileStatement(Head(stmts), tbl, sub, lbl),
                       Tail(stmts), tbl, sub)

-----------------------------------------------------------------------------
(***************************************************************************)
(* Declarations.  A classVarDec is [kind, type, names]; a subroutineDec is *)
(* [kind, name, params, vars, body] with params and vars the sequences of  *)
(* [type, name] pairs the writer reads from parameterList and varDec.      *)
(***************************************************************************)
RECURSIVE DefineAll(_, _, _)

(* Define each [type, name] of decls with this kind, in order; define's  *)
(* assertion on a duplicate name aborts.                                 *)
DefineAll(tbl, decls, kind) ==
  IF decls = <<>> THEN [t |-> tbl, ok |-> TRUE]
  ELSE IF ~ST!CanDefine(tbl, Head(decls).name, kind)
       THEN [t |-> tbl, ok |-> FALSE]
       ELSE DefineAll(ST!define(tbl, Head(decls).name, Head(decls).type, kind),
                      Tail(decls), kind)

(* _defineClassVar: every name of every classVarDec, with its kind. *)
ClassVarDecls(decs) ==
  LET RECURSIVE Flat(_)
      Flat(i) == IF i > Len(decs) THEN <<>>
                 ELSE [j \in 1..Len(decs[i].names) |->
                         [type |-> decs[i].type, name |-> decs[i].names[j],
                          kind |-> decs[i].kind]] \o Flat(i + 1)
  IN  Flat(1)

_defineClassVar(tbl, decs) ==
  LET RECURSIVE Each(_, _)
      Each(t, ds) == IF ds = <<>> THEN [t |-> t, ok |-> TRUE]
                     ELSE LET r == DefineAll(t, <<Head(ds)>>, Head(ds).kind)
                          IN  IF r.ok THEN Each(r.t, Tail(ds)) ELSE r
  IN  Each(tbl, ClassVarDecls(decs))

(* _writeSubroutine up to the point the function is written: the table   *)
(* after the arguments and vars are defined (and, for a method, the     *)
(* argument indices bumped), the label counter and the function's code.  *)
(* head is the function line and the prologue, body the statements'      *)
(* result, declared whether the definitions raised nothing.               *)
SubroutineResult(t, head, declared, body) ==
  [t |-> t, lbl |-> body.lbl, ok |-> declared /\ body.ok,
   code |-> head \o body.code]

_writeSubroutine(tbl, dec) ==
  LET t0   == ST!startSubroutine(tbl, dec.name)
      args == DefineAll(t0, dec.params, "argument")
      vs   == DefineAll(args.t, dec.vars, "var")
      nLocals == ST!varCount(vs.t, "var")
      size == ST!varCount(vs.t, "field")
      prologue ==
        CASE dec.kind = "constructor" ->
               <<Push("constant", IF size = 0 THEN 1 ELSE size),
                 CallI(<<"Memory", "alloc">>, 1), Pop("pointer", 0)>>
          [] dec.kind = "method" -> <<Push("argument", 0), Pop("pointer", 0)>>
          [] OTHER -> <<>>
      t1   == IF dec.kind = "method" THEN ST!inc_arg_index(vs.t) ELSE vs.t
  IN  SubroutineResult(t1,
                       <<I("function", <<ClassName, dec.name>>, nLocals)>> \o prologue,
                       args.ok /\ vs.ok,
                       _compileStatements(dec.body, t1, dec.name, 0))

-----------------------------------------------------------------------------
Init ==
  /\ table = ST!NewTable
  /\ labelIndex = 0
  /\ out = <<>>
  /\ status = "classVars"
  /\ classVarDecs \in ClassVarDecChoices
  /\ compiled = <<>>

(* run(), first line: _defineClassVar over every classVarDec. *)
DefineClassVar ==
  /\ status = "classVars"
  /\ LET r == _defineClassVar(table, classVarDecs)
     IN  /\ table' = r.t
         /\ status' = IF r.ok THEN "subroutines" ELSE "failed"
  /\ UNCHANGED <<labelIndex, out, classVarDecs, compiled>>

(* _writeVMCode: the function is appended to the file only if nothing   *)
(* raised while it was compiled; an exception aborts the run.           *)
_writeVMCode(r) ==
  /\ table' = r.t
  /\ labelIndex' = r.lbl
  /\ IF r.ok
     THEN /\ out' = Append(out, r.code)
          /\ UNCHANGED status
     ELSE /\ status' = "failed"
          /\ UNCHANGED out

(* run(), loop body: _writeSubroutine for the next subroutineDec. *)
WriteSubroutine(dec) ==
  /\ status = "subroutines"
  /\ Len(compiled) < MaxSubroutines
  /\ dec.name \notin {d.name : d \in ToSetOfSeq(compiled)}
  /\ _writeVMCode(_writeSubroutine(table, dec))
  /\ compiled' = IF status' = "failed" THEN compiled ELSE Append(compiled, dec)
  /\ UNCHANGED classVarDecs

(* run() returns after the last subroutineDec; main() calls close(). *)
Close ==
  /\ status = "subroutines"
  /\ status' = "done"
  /\ UNCHANGED <<table, labelIndex, out, classVarDecs, compiled>>

Next ==
  \/ DefineClassVar
  \/ \E dec \in SubroutineDecs : WriteSubroutine(dec)
  \/ Close

Spec == Init /\ [][Next]_vars
-----------------------------------------------------------------------------
(* The meaning of Jack: with the let order the writer uses (value first)  *)
(* and with the one spec 4.4 states (index first).                         *)
Sem     == INSTANCE JackSemantics WITH LetOrder <- "value"
SemSpec == INSTANCE JackSemantics WITH LetOrder <- "index"

Opcodes == {"push", "pop", "add", "sub", "neg", "eq", "gt", "lt", "and", "or",
            "not", "label", "goto", "if-goto", "function", "call", "return"}

TypeOK ==
  /\ status \in {"classVars", "subroutines", "done", "failed"}
  /\ classVarDecs \in ClassVarDecChoices
  /\ labelIndex \in Nat
  /\ compiled \in Seq(SubroutineDecs)
  /\ Len(out) = Len(compiled)
  /\ \A f \in 1..Len(out) : \A i \in 1..Len(out[f]) : out[f][i].op \in Opcodes
  /\ table.methodName \in SubNames \cup {""}

(***************************************************************************)
(* LabelsUnique (spec 4.4, if/while labels "strictly increasing, never     *)
(* reused"): in every function written, each label is declared once and   *)
(* every goto and if-goto names a label of the same function.  It depends  *)
(* on _label_index being taken after the nested bodies of if and while     *)
(* have been compiled and on the two labels of if/else and while being     *)
(* consecutive.                                                            *)
(***************************************************************************)
LabelsUnique ==
  \A f \in 1..Len(out) :
    LET code == out[f]
        decl == {i \in 1..Len(code) : code[i].op = "label"}
    IN  /\ \A i, j \in decl : i # j => code[i].a1 # code[j].a1
        /\ \A i \in 1..Len(code) :
             code[i].op \in {"goto", "if-goto"} => \E j \in decl : code[j].a1 = code[i].a1

(***************************************************************************)
(* CompiledCodeMatchesSource: every function written, run on the stack     *)
(* machine from each start, makes the same calls with the same arguments   *)
(* in the same order, leaves the same memory and statics and returns the   *)
(* same value as the subroutine it was compiled from means (JackSemantics, *)
(* with the writer's let order).  It ties together the symbol table's      *)
(* slots (kind2Str, index, the method's argument bump, var count in the    *)
(* header), the constructor and method prologues, the operand order of    *)
(* every expression, call and indexed access, and the control flow of if   *)
(* and while.                                                              *)
(***************************************************************************)
CompiledCodeMatchesSource ==
  \A f \in 1..Len(out) : Sem!CodeMeetsSource(out[f], classVarDecs, compiled[f])

(***************************************************************************)
(* ArrayLetIndexFirst (spec 4.4 and the example of spec 8, `let arr[i] =  *)
(* 5`): the same as CompiledCodeMatchesSource with `let a[i] = e`          *)
(* evaluating i before e, which is visible when both make calls.           *)
(***************************************************************************)
ArrayLetIndexFirst ==
  \A f \in 1..Len(out) : SemSpec!CodeMeetsSource(out[f], classVarDecs, compiled[f])

(***************************************************************************)
(* StackBalancedAtLabels: whenever a run of a function written reaches a   *)
(* label, the working stack is as deep as the first time it reached it.   *)
(* Spec 4.4 claims `do` needs no pop of the value the call returns; if it *)
(* is left on the stack, a do inside a loop deepens the stack on every     *)
(* iteration.                                                              *)
(***************************************************************************)
StackBalancedAtLabels ==
  \A f \in 1..Len(out) : \A args \in Sem!ArgChoices(compiled[f]) :
    ~Sem!MachineRun(out[f], classVarDecs, compiled[f], args).unbalanced

(***************************************************************************)
(* WellFormedClassCompiles: a class that meets the static rules of Jack    *)
(* (JackSemantics!WellFormed) never aborts the compiler: every subroutine *)
(* compiled so far, and any that can be compiled next, go through.        *)
(***************************************************************************)
WellFormedClassCompiles ==
  status = "subroutines" =>
    \A dec \in SubroutineDecs :
      (Sem!WellFormed(classVarDecs, dec) /\ Len(compiled) < MaxSubroutines)
        => _writeSubroutine(table, dec).ok
=============================================================================

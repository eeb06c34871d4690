------------------------ MODULE MC_JackCompilerEngine ------------------------
(***************************************************************************)
(* Instances of JackCompilerEngine for TLC.  The token inputs are the     *)
(* tokens of trees built by the productions of spec 4.2, so that each     *)
(* carries the tree it must parse to; the file input is read by the       *)
(* tokenizer.                                                              *)
(***************************************************************************)
EXTENDS JackCompilerEngine

MCLetters ==
  LET az == "abcdefghijklmnopqrstuvwxyzABCDEFGHIJKLMNOPQRSTUVWXYZ"
  IN  {SubSeq(az, i, i) : i \in 1..Len(az)}

-----------------------------------------------------------------------------
(* The productions of spec 4.2, as the elements a parse must build. *)
Kw(v)  == Elem("keyword", v, <<>>)
Id(v)  == Elem("identifier", v, <<>>)
IntC(v) == Elem("integerConstant", v, <<>>)
Str(v) == Elem("stringConstant", v, <<>>)

Term(k) == Node("term", k)
E(t)    == Node("expression", <<t>>)
Var(x)  == Term(<<Id(x)>>)

ExprList(es) ==
  Node("expressionList",
       FlattenSeq([i \in DOMAIN es |-> IF i = 1 THEN <<es[i]>> ELSE <<Symbol(","), es[i]>>]))

CallOf(name, es) == name \o <<Symbol("("), ExprList(es), Symbol(")")>>

GStatements(ss) == Node("statements", ss)

GLet(x, e) == Node("letStatement", <<Kw("let"), Id(x), Symbol("="), e, Symbol(";")>>)

GLetAt(x, i, e) ==
  Node("letStatement", <<Kw("let"), Id(x), Symbol("["), i, Symbol("]"), Symbol("="),
                         e, Symbol(";")>>)

GDo(name, es) == Node("doStatement", <<Kw("do")>> \o CallOf(name, es) \o <<Symbol(";")>>)

GReturn == Node("returnStatement", <<Kw("return"), Symbol(";")>>)

GReturnOf(e) == Node("returnStatement", <<Kw("return"), e, Symbol(";")>>)

Block(ss) == <<Symbol("{"), GStatements(ss), Symbol("}")>>

Cond(e) == <<Symbol("("), e, Symbol(")")>>

GIf(e, ss) == Node("ifStatement", <<Kw("if")>> \o Cond(e) \o Block(ss))

GIfElse(e, ss1, ss2) ==
  Node("ifStatement", <<Kw("if")>> \o Cond(e) \o Block(ss1) \o <<Kw("else")>> \o Block(ss2))

GWhile(e, ss) == Node("whileStatement", <<Kw("while")>> \o Cond(e) \o Block(ss))

GSub(kind, type, params, decls, ss) ==
  Node("subroutineDec",
       <<Kw(kind), type, Id("f"), Symbol("("), Node("parameterList", params), Symbol(")"),
         Node("subroutineBody", <<Symbol("{")>> \o decls \o <<GStatements(ss), Symbol("}")>>)>>)

GClass(decs, subs) ==
  Node("class", <<Kw("class"), Id("Main"), Symbol("{")>> \o decs \o subs \o <<Symbol("}")>>)

-----------------------------------------------------------------------------
(* Expressions with every term form, a bare variable last before each     *)
(* token that can follow one: an operator, ";", ")", "]" and ",".         *)
Qualified == <<Id("C"), Symbol("."), Id("h")>>

Exprs ==
  { E(Var("y")),
    Node("expression", <<Var("y"), Symbol("+"), Term(<<IntC("1")>>)>>),
    E(Term(<<Symbol("-"), Var("y")>>)),
    E(Term(<<Symbol("("), Node("expression", <<Var("x"), Symbol("<"), Var("y")>>),
             Symbol(")")>>)),
    E(Term(<<Id("a"), Symbol("["), E(Var("y")), Symbol("]")>>)),
    E(Term(CallOf(<<Id("g")>>, <<>>))),
    E(Term(CallOf(Qualified, <<E(Var("y")), E(Term(<<Str("s")>>))>>))),
    E(Term(<<Kw("this")>>)) }

Simple ==
  {GLet("x", e) : e \in Exprs}
  \cup {GLetAt("a", E(Var("y")), E(Var("x"))), GDo(<<Id("g")>>, <<E(Var("y"))>>),
        GDo(Qualified, <<>>), GReturnOf(E(Var("y")))}

(* if and while with the if's lookahead landing on each kind of token:   *)
(* a statement keyword, a block's "}", and else.                         *)
Compound ==
  { GIf(E(Var("y")), <<GLet("x", E(Var("y")))>>),
    GIf(E(Var("y")), <<>>),
    GIf(E(Var("y")), <<GIf(E(Var("x")), <<GReturn>>)>>),
    GIfElse(E(Var("y")), <<GDo(<<Id("g")>>, <<>>)>>, <<GIf(E(Var("x")), <<>>)>>),
    GWhile(E(Var("y")), <<GIf(E(Var("x")), <<GLet("x", E(Var("y")))>>)>>) }

Bodies ==
  {<<s1, s2, GReturn>> : s1, s2 \in Simple \cup Compound} \cup {<<c>> : c \in Compound}

Params == <<Kw("int"), Id("p"), Symbol(","), Id("C"), Id("q")>>

ClassVar == Node("classVarDec", <<Kw("field"), Kw("int"), Id("n"), Symbol(","), Id("m"),
                                  Symbol(";")>>)

LocalVar == Node("varDec", <<Kw("var"), Id("Array"), Id("a"), Symbol(";")>>)

Classes ==
  {GClass(<<>>, <<GSub("function", Kw("void"), <<>>, <<>>, b)>>) : b \in Bodies}
  \cup {GClass(<<ClassVar>>, <<GSub("method", Id("C"), Params, <<LocalVar>>, <<c, GReturn>>),
                               GSub("constructor", Id("Main"), <<>>, <<>>, <<GReturn>>)>>)
          : c \in Compound}

(* Every proper prefix of the tokens of these classes. *)
Truncated ==
  {GClass(<<ClassVar>>, <<GSub("method", Id("C"), Params, <<LocalVar>>, <<c, GReturn>>)>>)
     : c \in Compound}

QueueOf(T) == [file |-> <<>>, queue |-> Leaves(T)]

MCInputs ==
  {[it |-> QueueOf(T), expect |-> "tree", tree |-> T] : T \in Classes}
  \cup UNION {{[it |-> [file |-> <<>>, queue |-> SubSeq(Leaves(T), 1, k)],
                expect |-> "stop", tree |-> T] : k \in 0..Len(Leaves(T)) - 1}
              : T \in Truncated}

(* A file with an invalid word on the line after an if statement's "}". *)
LexErrorAfterIf ==
  {[it |-> [file |-> <<"class Main {", "function void f() {", "if (x) {", "return;", "}",
                       "9z;", "let y = 2;", "return;", "}", "}">>,
            queue |-> <<>>],
    expect |-> "none", tree |-> Node("none", <<>>)]}
=============================================================================

--------------------------- MODULE MC_JackVMWriter ---------------------------
(***************************************************************************)
(* Instance of JackVMWriter for TLC: class Main, three possible lists of  *)
(* class variables, and subroutines f and g of each kind over a set of     *)
(* bodies that between them use every kind of term and statement.          *)
(***************************************************************************)
EXTENDS JackVMWriter

(* Syntax-tree builders for the records JackVMWriter reads. *)
Int(v)         == [term |-> "int", val |-> v]
Str(cs)        == [term |-> "str", chars |-> cs]
Kw(k)          == [term |-> "kw", kw |-> k]
Unary(o, t)    == [term |-> "unary", op |-> o, arg |-> t]
V(n)           == [term |-> "var", name |-> n]
E(t)           == [terms |-> <<t>>, ops |-> <<>>]
E2(t1, o, t2)  == [terms |-> <<t1, t2>>, ops |-> <<o>>]
ArrT(n, e)     == [term |-> "arr", name |-> n, index |-> e]
Paren(e)       == [term |-> "paren", expr |-> e]
CallT(q, f, a) == [term |-> "call", q |-> q, f |-> f, args |-> a]

Let(n, e)        == [stmt |-> "let", name |-> n, index |-> <<>>, value |-> e]
LetA(n, i, e)    == [stmt |-> "let", name |-> n, index |-> <<i>>, value |-> e]
Do(q, f, a)      == [stmt |-> "do", q |-> q, f |-> f, args |-> a]
Ret(e)           == [stmt |-> "return", value |-> <<e>>]
RetVoid          == [stmt |-> "return", value |-> <<>>]
If(c, t)         == [stmt |-> "if", cond |-> c, then |-> t, else |-> <<>>]
IfElse(c, t, el) == [stmt |-> "if", cond |-> c, then |-> t, else |-> <<el>>]
While(c, b)      == [stmt |-> "while", cond |-> c, body |-> b]

(* static int s; field Array a; field int n;  -- and a class with no   *)
(* members (the constructor allocates one word), and one declaring s   *)
(* twice.                                                              *)
MCClassVarDecChoices ==
  { << [kind |-> "static", type |-> "int", names |-> <<"s">>],
       [kind |-> "field", type |-> "Array", names |-> <<"a">>],
       [kind |-> "field", type |-> "int", names |-> <<"n">>] >>,
    <<>>,
    << [kind |-> "static", type |-> "int", names |-> <<"s">>],
       [kind |-> "field", type |-> "int", names |-> <<"s">>] >> }

(* var int x; while (x < p) { let x = x + 1; do Foo.h(x); } return x; *)
Loop == << While(E2(V("x"), "<", V("p")),
                 << Let("x", E2(V("x"), "+", Int(1))), Do("Foo", "h", <<E(V("x"))>>) >>),
           Ret(E(V("x"))) >>

(* if (p = 0) { let s = -p; } else { let n = (p - 1) * 2; }
   if (~(p > 1)) { let x = p; } return x;                             *)
Branch == << IfElse(E2(V("p"), "=", Int(0)),
                    << Let("s", E(Unary("-", V("p")))) >>,
                    << Let("n", E2(Paren(E2(V("p"), "-", Int(1))), "*", Int(2))) >>),
             If(E(Unary("~", Paren(E2(V("p"), ">", Int(1))))), << Let("x", E(V("p"))) >>),
             Ret(E(V("x"))) >>

(* let a[p] = Foo.h(p); let x = a[p] + o.m(x, "H"); return x / 2; *)
Arrays == << LetA("a", E(V("p")), E(CallT("Foo", "h", <<E(V("p"))>>))),
             Let("x", E2(ArrT("a", E(V("p"))), "+",
                         CallT("o", "m", <<E(V("x")), E(Str(<<72>>))>>))),
             Ret(E2(V("x"), "/", Int(2))) >>

(* let a[Foo.h(p)] = Foo.g(p); return; *)
Order == << LetA("a", E(CallT("Foo", "h", <<E(V("p"))>>)), E(CallT("Foo", "g", <<E(V("p"))>>))),
            RetVoid >>

(* let x = g(p); return x;  -- an unqualified call term *)
Unqualified == << Let("x", E(CallT("", "g", <<E(V("p"))>>))), Ret(E(V("x"))) >>

(* let n = p | true; return this; *)
Self == << Let("n", E2(V("p"), "|", Kw("true"))), Ret(E(Kw("this"))) >>

(* do g(p); return null; *)
DoThis == << Do("", "g", <<E(V("p"))>>), Ret(E(Kw("null"))) >>

(* while (x < p) {
     if (x = 1) { if (p > 1) { let s = x; } } else { let n = x; }
     let x = x + 1;
   }
   return x;  -- control flow nested two deep, whose labels the outer
   statements take only after the inner ones                          *)
NestedFlow == << While(E2(V("x"), "<", V("p")),
                   << IfElse(E2(V("x"), "=", Int(1)),
                             << If(E2(V("p"), ">", Int(1)), << Let("s", E(V("x"))) >>) >>,
                             << Let("n", E(V("x"))) >>),
                      Let("x", E2(V("x"), "+", Int(1))) >>),
             Ret(E(V("x"))) >>

Bodies == {Loop, Branch, Arrays, Order, Unqualified, Self, DoThis, NestedFlow}

(* int p, with var int x and var Foo o. *)
MCSubroutineDecs ==
  [kind: {"constructor", "function", "method"}, name: {"f", "g"},
   params: {<< [type |-> "int", name |-> "p"] >>},
   vars: {<< [type |-> "int", name |-> "x"], [type |-> "Foo", name |-> "o"] >>},
   body: Bodies]

MCFunList ==
  << <<"Foo", "h">>, <<"Foo", "g">>, <<"Foo", "m">>, <<"Main", "g">>,
     <<"Math", "multiply">>, <<"Math", "divide">>, <<"String", "new">>,
     <<"String", "appendChar">>, <<"Memory", "alloc">> >>
=============================================================================

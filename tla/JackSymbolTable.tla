--------------------------- MODULE JackSymbolTable ---------------------------
(***************************************************************************)
(* The two-scope symbol table of the Jack compiler                         *)
(* (project11/jack_symbol_table.py, class JackSymbolTable).                *)
(*                                                                         *)
(* A table value is a record with the class scope (static and field        *)
(* symbols), the method scope (argument and var symbols) and the name of   *)
(* the current subroutine.  A scope is a function from the names declared  *)
(* in it to Symbol records.  The operators on table values are used by     *)
(* the code generator (JackVMWriter); the variables and actions below      *)
(* drive the table directly through its public methods in any order, as   *)
(* a caller other than the code generator could.                           *)
(***************************************************************************)
EXTENDS Naturals, Sequences, FiniteSets, Functions, TLC

CONSTANTS
  Names,        \* identifiers that may be declared
  Types,        \* declared types ("int", "Array", class names)
  SubNames,     \* subroutine names passed to startSubroutine
  MaxArgBumps   \* bound on inc_arg_index calls per subroutine scope

ASSUME MaxArgBumps \in Nat

(* SymbolKind and the two kinds that live in the class scope. *)
Kinds      == {"static", "field", "argument", "var"}
ClassKinds == {"static", "field"}

(* Symbol records; None is what symbol() returns for an unknown name. *)
Symbol == [name: Names, type: Types, kind: Kinds, index: Nat]
None   == [name |-> "None", type |-> "None", kind |-> "None", index |-> 0]

(* The scope a kind is stored in (define, varCount). *)
ScopeOf(kind) == IF kind \in ClassKinds THEN "class" ELSE "method"

EmptyScope == [n \in {} |-> None]

(* JackSymbolTable.__init__ *)
NewTable == [class |-> EmptyScope, method |-> EmptyScope, methodName |-> ""]

(* Seeded fault for mutation analysis: the method scope is not cleared. *)
startSubroutine_keepScope(t, m) == [t EXCEPT !.methodName = m]

(* startSubroutine: clear the method scope and remember the name. *)
startSubroutine(t, m) == [t EXCEPT !.method = EmptyScope, !.methodName = m]

(* varCount / _classVarCound / _methodVarCound: symbols of this kind in   *)
(* the kind's scope.                                                      *)
varCount(t, kind) ==
  LET scope == t[ScopeOf(kind)]
  IN  Cardinality({n \in DOMAIN scope : scope[n].kind = kind})

(* The assertion in define: the name is not yet in the kind's scope. *)
CanDefine(t, name, kind) == name \notin DOMAIN t[ScopeOf(kind)]

(* Seeded fault for mutation analysis: indices counted from -1. *)
define_offByOne(t, name, type, kind) ==
  LET s == ScopeOf(kind)
  IN  [t EXCEPT ![s] = (name :> [name |-> name, type |-> type, kind |-> kind,
                                 index |-> varCount(t, kind) - 1]) @@ @]

(* define (after its assertion held): index is the current count. *)
define(t, name, type, kind) ==
  LET s == ScopeOf(kind)
  IN  [t EXCEPT ![s] = (name :> [name |-> name, type |-> type, kind |-> kind,
                                 index |-> varCount(t, kind)]) @@ @]

(* symbol: method scope first, then class scope, else None. *)
symbol(t, name) ==
  IF name \in DOMAIN t.method THEN t.method[name]
  ELSE IF name \in DOMAIN t.class THEN t.class[name]
  ELSE None

(* inc_arg_index: every argument symbol's index moves up by one. *)
inc_arg_index(t) ==
  LET bump(sym) == IF sym.kind = "argument"
                   THEN [sym EXCEPT !.index = @ + 1] ELSE sym
  IN  [t EXCEPT !.method = [n \in DOMAIN t.method |-> bump(t.method[n])]]

(* kind2Str: the VM segment a symbol kind is addressed through. *)
kind2Str(kind) ==
  CASE kind = "static"   -> "static"
    [] kind = "field"    -> "this"
    [] kind = "argument" -> "argument"
    [] OTHER             -> "local"

-----------------------------------------------------------------------------
(***************************************************************************)
(* The table driven through its public methods.  status becomes           *)
(* "DuplicateSymbol" when define's assertion fails, which aborts the       *)
(* compiler.  history and bumps are ghost variables: the declarations      *)
(* made since each scope was last cleared, in call order, each with the    *)
(* number of inc_arg_index calls made before it, and that number now.      *)
(***************************************************************************)
VARIABLES table, status, history, bumps

vars == <<table, status, history, bumps>>

Decl == [name: Names, type: Types, kind: Kinds, bumpsBefore: Nat]

TypeOK ==
  /\ \A s \in {"class", "method"} :
       /\ DOMAIN table[s] \subseteq Names
       /\ \A n \in DOMAIN table[s] : table[s][n] \in Symbol
  /\ table.methodName \in SubNames \cup {""}
  /\ status \in {"ok", "DuplicateSymbol"}
  /\ history \in [{"class", "method"} -> Seq(Decl)]
  /\ bumps \in 0..MaxArgBumps

Init ==
  /\ table = NewTable
  /\ status = "ok"
  /\ history = [s \in {"class", "method"} |-> <<>>]
  /\ bumps = 0

StartSubroutine(m) ==
  /\ status = "ok"
  /\ table' = startSubroutine(table, m)
  /\ history' = [history EXCEPT !.method = <<>>]
  /\ bumps' = 0
  /\ UNCHANGED status

Define(name, type, kind) ==
  /\ status = "ok"
  /\ \/ /\ CanDefine(table, name, kind)
        /\ table' = define(table, name, type, kind)
        /\ history' = [history EXCEPT ![ScopeOf(kind)] =
                         Append(@, [name |-> name, type |-> type, kind |-> kind,
                                    bumpsBefore |-> bumps])]
        /\ UNCHANGED <<status, bumps>>
     \/ /\ ~CanDefine(table, name, kind)
        /\ status' = "DuplicateSymbol"
        /\ UNCHANGED <<table, history, bumps>>

IncArgIndex ==
  /\ status = "ok"
  /\ bumps < MaxArgBumps
  /\ table' = inc_arg_index(table)
  /\ bumps' = bumps + 1
  /\ UNCHANGED <<status, history>>

Next ==
  \/ \E m \in SubNames : StartSubroutine(m)
  \/ \E n \in Names, ty \in Types, k \in Kinds : Define(n, ty, k)
  \/ IncArgIndex

Spec == Init /\ [][Next]_vars

-----------------------------------------------------------------------------
(* The declaration of name recorded in a scope's history, if any. *)
DeclIn(s, name) ==
  {i \in 1..Len(history[s]) : history[s][i].name = name}

(***************************************************************************)
(* SymbolMatchesHistory: what symbol(name) returns is exactly what the     *)
(* sequence of calls since the scopes were cleared implies (spec 8): a    *)
(* name declared in the current subroutine shadows a class member, names   *)
(* declared before the last startSubroutine are gone, and the index is     *)
(* the number of earlier declarations of the same kind in that scope plus, *)
(* for an argument, the inc_arg_index calls made after it was declared.    *)
(***************************************************************************)
SymbolMatchesHistory ==
  \A name \in Names :
    LET s     == IF DeclIn("method", name) # {} THEN "method" ELSE "class"
        found == DeclIn(s, name)
        i     == CHOOSE j \in found : TRUE
        d     == history[s][i]
        earlier == {j \in 1..(i - 1) : history[s][j].kind = d.kind}
        shift == IF d.kind = "argument" THEN bumps - d.bumpsBefore ELSE 0
    IN  IF found = {}
        THEN symbol(table, name) = None
        ELSE symbol(table, name) = [name |-> name, type |-> d.type,
                                    kind |-> d.kind,
                                    index |-> Cardinality(earlier) + shift]
=============================================================================

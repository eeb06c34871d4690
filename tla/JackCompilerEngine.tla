------------------------- MODULE JackCompilerEngine -------------------------
(***************************************************************************)
(* The recursive-descent parser of the Jack compiler                       *)
(* (project10/jack_compiler_engine.py, class JackCompilerEngine).  Every   *)
(* _compile* method is an operator of the same name over the token it is   *)
(* given and the state it of the token iterator; next(self._token_iter)   *)
(* is the tokenizer's __next__ (JackTokenizer!NextToken), so the iterator  *)
(* may be a queue of tokens or the tokenizer reading a file.  A method's   *)
(* result is a record: the element it built, the iterator's state after   *)
(* it, the token it hands back to its caller (None when it consumed all   *)
(* it read), and the exception it raised ("none", "stop" for               *)
(* StopIteration, "error" for a failed assertion or a lexer error).       *)
(*                                                                         *)
(* An XML element is a record [tag, text, kids]: a token's element has    *)
(* the token's type name as tag and its text; a production's element has  *)
(* the production's name and its children in order.                        *)
(***************************************************************************)
EXTENDS Naturals, Sequences, SequencesExt

CONSTANTS
  Letters,    \* as in JackTokenizer
  Inputs      \* the initial iterator states and what parsing them should give

TK == INSTANCE JackTokenizer WITH Files <- {}, source <- <<>>, file <- <<>>,
        queue <- <<>>, returned <- <<>>, status <- "open"

None == TK!NoToken

Nx(it) == TK!NextToken(it)

Elem(tag, text, kids) == [tag |-> tag, text |-> text, kids |-> kids]

(* ET.Element(token_type) with .text = token_value, for a token. *)
Leaf(t) == Elem(t.type, t.value, <<>>)

Symbol(v) == Elem("symbol", v, <<>>)

Node(tag, kids) == Elem(tag, "", kids)

IsKw(t, ks) == t.type = "keyword" /\ t.value \in ks

IsSym(t, v) == t.type = "symbol" /\ t.value = v

Ok(el, it, tok) == [el |-> el, it |-> it, tok |-> tok, err |-> "none"]

Fail(it, e) == [el |-> Node("none", <<>>), it |-> it, tok |-> None, err |-> e]

(* The exception raised by next(). *)
Raised(n) == Fail(n.it, n.exc)

(* "if token == None: token = next(self._token_iter)" after a call. *)
Resume(r) ==
  IF r.tok = None THEN Nx(r.it) ELSE [it |-> r.it, tok |-> r.tok, exc |-> "none"]

statements_route == {"let", "if", "while", "do", "return"}

_isOp(t) == t.type = "symbol" /\ t.value \in {"+", "-", "*", "/", "&", "|", "<", ">", "="}

_isUnaryOP(t) == t.type = "symbol" /\ t.value \in {"-", "~"}

_isKeywordConstant(t) == IsKw(t, {"false", "true", "null", "this"})

RECURSIVE _compileExpression(_, _), ExpressionOn(_, _), ExpressionOp(_, _),
          _compileTerm(_, _), _compileSubroutineCall(_, _, _, _), CallName(_, _, _),
          _compileExpressionList(_, _), ExpressionListOn(_, _), ExpressionListNext(_, _),
          StatementsOn(_, _, _), StatementsAfter(_, _), StatementsOfNextWith(_, _),
          Statement(_, _), _compileLet(_, _), LetLoop(_, _, _), LetNext(_, _),
          LetPart(_, _, _), LetClose(_, _, _), _compileIf(_, _), _compileWhile(_, _),
          CondLoop(_, _, _, _), CondNext(_, _, _), CondPart(_, _, _, _),
          CondClose(_, _, _, _), IfElse(_, _),
          _compileDo(_, _), _compileReturn(_, _), ReturnExpr(_, _)

(* An operator applied to the token next() returns, or its exception. *)
TermOfNext(n) == IF n.exc # "none" THEN Raised(n) ELSE _compileTerm(n.tok, n.it)
ExpressionOfNext(n) == IF n.exc # "none" THEN Raised(n) ELSE _compileExpression(n.tok, n.it)
ExpressionListOfNext(n) ==
  IF n.exc # "none" THEN Raised(n) ELSE _compileExpressionList(n.tok, n.it)
StatementsOfNext(n) == IF n.exc # "none" THEN Raised(n) ELSE StatementsOn(n.tok, n.it, <<>>)

-----------------------------------------------------------------------------
(* _compileExpression: term (op term)*, the op's token read after a term *)
(* that handed none back.                                                 *)
_compileExpression(t, it) == ExpressionOn(_compileTerm(t, it), <<>>)

ExpressionOn(r, kids) ==
  IF r.err # "none" THEN r ELSE ExpressionOp(Resume(r), Append(kids, r.el))

ExpressionOp(n, kids) ==
  IF n.exc # "none" THEN Raised(n)
  ELSE IF ~_isOp(n.tok) THEN Ok(Node("expression", kids), n.it, n.tok)
  ELSE ExpressionOn(TermOfNext(Nx(n.it)), Append(kids, Symbol(n.tok.value)))

(* _compileTerm: its tests in the code's order.  A bare variable hands   *)
(* back the token it looked ahead at; a unary term hands back whatever   *)
(* its operand handed back.                                               *)
(* Seeded fault for mutation analysis: the unary operator's element gets *)
(* a tag of its own instead of "symbol".                                 *)
UnaryTerm_opTag(op, r) ==
  IF r.err # "none" THEN r
  ELSE Ok(Node("term", <<Elem("unaryOp", op, <<>>), r.el>>), r.it, r.tok)

UnaryTerm(op, r) ==
  IF r.err # "none" THEN r ELSE Ok(Node("term", <<Symbol(op), r.el>>), r.it, r.tok)

ParenTerm(r) ==
  IF r.err # "none" THEN r
  ELSE IF r.tok.value # ")" THEN Fail(r.it, "error")
  ELSE Ok(Node("term", <<Symbol("("), r.el, Symbol(")")>>), r.it, None)

ArrayTerm(t, r) ==
  IF r.err # "none" THEN r
  ELSE IF r.tok.value # "]" THEN Fail(r.it, "error")
  ELSE Ok(Node("term", <<Leaf(t), Symbol("["), r.el, Symbol("]")>>), r.it, None)

CallTerm(r) == IF r.err # "none" THEN r ELSE Ok(Node("term", r.el.kids), r.it, None)

NameTerm(t, n) ==
  IF n.exc # "none" THEN Raised(n)
  ELSE CASE IsSym(n.tok, "[") -> ArrayTerm(t, ExpressionOfNext(Nx(n.it)))
         [] IsSym(n.tok, ".") \/ IsSym(n.tok, "(") ->
              CallTerm(_compileSubroutineCall(t, n.tok, n.it, <<>>))
         [] OTHER -> Ok(Node("term", <<Leaf(t)>>), n.it, n.tok)

_compileTerm(t, it) ==
  IF t.type \in {"integerConstant", "stringConstant"} \/ _isKeywordConstant(t)
  THEN Ok(Node("term", <<Leaf(t)>>), it, None)
  ELSE IF _isUnaryOP(t) THEN UnaryTerm(t.value, TermOfNext(Nx(it)))
  ELSE IF t.value = "(" THEN ParenTerm(ExpressionOfNext(Nx(it)))
  ELSE IF t.type = "identifier" THEN NameTerm(t, Nx(it))
  ELSE Fail(it, "error")

(* _compileSubroutineCall appends to the element it is given: the name,   *)
(* then every token up to "(", the expression list and ")".  kids are    *)
(* the children so far; the result's element carries them.               *)
CallArgs(r, kids) ==
  IF r.err # "none" THEN r
  ELSE IF r.tok.value # ")" THEN Fail(r.it, "error")
  ELSE Ok(Node("call", kids \o <<r.el, Symbol(")")>>), r.it, None)

CallNameNext(n, kids) == IF n.exc # "none" THEN Raised(n) ELSE CallName(n.tok, n.it, kids)

CallName(t, it, kids) ==
  IF t.value = "("
  THEN CallArgs(ExpressionListOfNext(Nx(it)), Append(kids, Leaf(t)))
  ELSE CallNameNext(Nx(it), Append(kids, Leaf(t)))

_compileSubroutineCall(t, nt, it, kids) ==
  IF t.type # "identifier" THEN Fail(it, "error")
  ELSE IF nt = None THEN CallNameNext(Nx(it), Append(kids, Leaf(t)))
  ELSE CallName(nt, it, Append(kids, Leaf(t)))

(* _compileExpressionList: hands back the token after the last            *)
(* expression, ")" when the list is empty.                                *)
_compileExpressionList(t, it) ==
  IF IsSym(t, ")") THEN Ok(Node("expressionList", <<>>), it, t)
  ELSE ExpressionListOn(_compileExpression(t, it), <<>>)

ExpressionListOn(r, kids) ==
  IF r.err # "none" THEN r
  ELSE IF ~IsSym(r.tok, ",") THEN Ok(Node("expressionList", Append(kids, r.el)), r.it, r.tok)
  ELSE ExpressionListNext(Nx(r.it), kids \o <<r.el, Symbol(",")>>)

ExpressionListNext(n, kids) ==
  IF n.exc # "none" THEN Raised(n) ELSE ExpressionListOn(_compileExpression(n.tok, n.it), kids)

-----------------------------------------------------------------------------
(* _compileStatements: statement methods by statements_route while the   *)
(* token is one of its keywords.  Only _compileIf hands a token back (its *)
(* lookahead for else); after any other statement the loop reads the     *)
(* next token itself.  The statements element and the token after them   *)
(* are returned.                                                          *)
StatementsOn(t, it, kids) ==
  IF ~IsKw(t, statements_route) THEN Ok(Node("statements", kids), it, t)
  ELSE StatementsAfter(Statement(t, it), kids)

(* Seeded fault for mutation analysis: the end of the tokens after a     *)
(* statement is taken for the end of the statements.                     *)
StatementsAfter_endAtStop(r, kids) ==
  IF r.err # "none" THEN r
  ELSE IF r.tok = None /\ Nx(r.it).exc = "stop"
       THEN Ok(Node("statements", Append(kids, r.el)), Nx(r.it).it, None)
  ELSE IF r.tok = None THEN StatementsOfNextWith(Nx(r.it), Append(kids, r.el))
  ELSE StatementsOn(r.tok, r.it, Append(kids, r.el))

StatementsAfter(r, kids) ==
  IF r.err # "none" THEN r
  ELSE IF r.tok = None THEN StatementsOfNextWith(Nx(r.it), Append(kids, r.el))
  ELSE StatementsOn(r.tok, r.it, Append(kids, r.el))

StatementsOfNextWith(n, kids) ==
  IF n.exc # "none" THEN Raised(n) ELSE StatementsOn(n.tok, n.it, kids)

Statement(t, it) ==
  CASE t.value = "let"    -> _compileLet(t, it)
    [] t.value = "if"     -> _compileIf(t, it)
    [] t.value = "while"  -> _compileWhile(t, it)
    [] t.value = "do"     -> _compileDo(t, it)
    [] t.value = "return" -> _compileReturn(t, it)

(* _compileLet: every token is appended; "[" and "=" are each followed by *)
(* an expression that must end at "]" and ";"; ";" ends the statement.    *)
_compileLet(t, it) == IF ~IsKw(t, {"let"}) THEN Fail(it, "error") ELSE LetLoop(t, it, <<>>)

LetLoop(t, it, kids) ==
  CASE t.value = "[" -> LetPart(ExpressionOfNext(Nx(it)), Append(kids, Leaf(t)), "]")
    [] t.value = "=" -> LetPart(ExpressionOfNext(Nx(it)), Append(kids, Leaf(t)), ";")
    [] t.value = ";" -> Ok(Node("letStatement", Append(kids, Leaf(t))), it, None)
    [] OTHER         -> LetNext(Nx(it), Append(kids, Leaf(t)))

LetNext(n, kids) == IF n.exc # "none" THEN Raised(n) ELSE LetLoop(n.tok, n.it, kids)

LetPart(r, kids, close) ==
  IF r.err # "none" THEN r ELSE LetClose(Resume(r), Append(kids, r.el), close)

LetClose(n, kids, close) ==
  IF n.exc # "none" THEN Raised(n)
  ELSE IF ~IsSym(n.tok, close) THEN Fail(n.it, "error")
  ELSE LetLoop(n.tok, n.it, kids)

(* _compileIf and _compileWhile share their loop: "(" expression ")" and *)
(* "{" statements "}".  At "}" a while statement ends; an if statement   *)
(* reads one more token inside a bare try: if it is else the loop goes   *)
(* on, otherwise it is handed back, and any exception of next() ends the *)
(* statement with None handed back.                                       *)
_compileIf(t, it) ==
  IF ~IsKw(t, {"if"}) THEN Fail(it, "error") ELSE CondLoop("ifStatement", t, it, <<>>)

_compileWhile(t, it) ==
  IF ~IsKw(t, {"while"}) THEN Fail(it, "error") ELSE CondLoop("whileStatement", t, it, <<>>)

CondLoop(tag, t, it, kids) ==
  CASE t.value = "(" -> CondPart(tag, ExpressionOfNext(Nx(it)), Append(kids, Leaf(t)), ")")
    [] t.value = "{" -> CondPart(tag, StatementsOfNext(Nx(it)), Append(kids, Leaf(t)), "}")
    [] t.value = "}" /\ tag = "whileStatement" ->
         Ok(Node(tag, Append(kids, Leaf(t))), it, None)
    [] t.value = "}" /\ tag = "ifStatement" -> IfElse(Nx(it), Append(kids, Leaf(t)))
    [] OTHER -> CondNext(tag, Nx(it), Append(kids, Leaf(t)))

CondNext(tag, n, kids) == IF n.exc # "none" THEN Raised(n) ELSE CondLoop(tag, n.tok, n.it, kids)

CondPart(tag, r, kids, close) ==
  IF r.err # "none" THEN r ELSE CondClose(tag, Resume(r), Append(kids, r.el), close)

CondClose(tag, n, kids, close) ==
  IF n.exc # "none" THEN Raised(n)
  ELSE IF ~IsSym(n.tok, close) THEN Fail(n.it, "error")
  ELSE CondLoop(tag, n.tok, n.it, kids)

(* Seeded fault for mutation analysis: the token read after "}" is not  *)
(* handed back when it is not else.                                      *)
IfElse_dropLookahead(n, kids) ==
  IF n.exc # "none" THEN Ok(Node("ifStatement", kids), n.it, None)
  ELSE IF ~IsKw(n.tok, {"else"}) THEN Ok(Node("ifStatement", kids), n.it, None)
  ELSE CondLoop("ifStatement", n.tok, n.it, kids)

IfElse(n, kids) ==
  IF n.exc # "none" THEN Ok(Node("ifStatement", kids), n.it, None)
  ELSE IF ~IsKw(n.tok, {"else"}) THEN Ok(Node("ifStatement", kids), n.it, n.tok)
  ELSE CondLoop("ifStatement", n.tok, n.it, kids)

(* _compileDo and _compileReturn end at a ";" they read themselves. *)
Closing(tag, n, kids) ==
  IF n.exc # "none" THEN Raised(n)
  ELSE IF ~IsSym(n.tok, ";") THEN Fail(n.it, "error")
  ELSE Ok(Node(tag, Append(kids, Leaf(n.tok))), n.it, None)

DoEnd(r) == IF r.err # "none" THEN r ELSE Closing("doStatement", Nx(r.it), r.el.kids)

DoCall(n, kids) ==
  IF n.exc # "none" THEN Raised(n) ELSE DoEnd(_compileSubroutineCall(n.tok, None, n.it, kids))

_compileDo(t, it) == IF ~IsKw(t, {"do"}) THEN Fail(it, "error") ELSE DoCall(Nx(it), <<Leaf(t)>>)

ReturnExpr(r, kids) ==
  IF r.err # "none" THEN r ELSE Closing("returnStatement", Resume(r), Append(kids, r.el))

ReturnValue(n, kids) ==
  IF n.exc # "none" THEN Raised(n)
  ELSE IF IsSym(n.tok, ";") THEN Closing("returnStatement", n, kids)
  ELSE ReturnExpr(_compileExpression(n.tok, n.it), kids)

_compileReturn(t, it) ==
  IF ~IsKw(t, {"return"}) THEN Fail(it, "error") ELSE ReturnValue(Nx(it), <<Leaf(t)>>)

-----------------------------------------------------------------------------
(* _compileClassVarDec and _compileVarDec: every token up to ";". *)
RECURSIVE DeclLoop(_, _, _, _)

DeclNext(tag, n, kids) == IF n.exc # "none" THEN Raised(n) ELSE DeclLoop(tag, n.tok, n.it, kids)

DeclLoop(tag, t, it, kids) ==
  IF t.value = ";" THEN Ok(Node(tag, Append(kids, Leaf(t))), it, None)
  ELSE DeclNext(tag, Nx(it), Append(kids, Leaf(t)))

_compileClassVarDec(t, it) ==
  IF ~IsKw(t, {"static", "field"}) THEN Fail(it, "error")
  ELSE DeclLoop("classVarDec", t, it, <<>>)

_compileVarDec(t, it) ==
  IF ~IsKw(t, {"var"}) THEN Fail(it, "error") ELSE DeclLoop("varDec", t, it, <<>>)

(* _compileParameterList: every token up to ")", which is handed back. *)
RECURSIVE ParamLoop(_, _, _)

ParamNext(n, kids) == IF n.exc # "none" THEN Raised(n) ELSE ParamLoop(n.tok, n.it, kids)

ParamLoop(t, it, kids) ==
  IF IsSym(t, ")") THEN Ok(Node("parameterList", kids), it, t)
  ELSE ParamNext(Nx(it), Append(kids, Leaf(t)))

_compileParameterList(t, it) == ParamLoop(t, it, <<>>)

(* _compileSubroutineBody: "{", then var declarations; a keyword that is *)
(* not var starts the statements, which must end at "}"; anything else  *)
(* must be "}", which ends the body.  A body with no statement has no    *)
(* statements element.                                                   *)
RECURSIVE BodyLoop(_, _, _)

BodyNext(n, kids) == IF n.exc # "none" THEN Raised(n) ELSE BodyLoop(n.tok, n.it, kids)

BodyVar(r, kids) == IF r.err # "none" THEN r ELSE BodyNext(Nx(r.it), Append(kids, r.el))

BodyStatements(r, kids) ==
  IF r.err # "none" THEN r
  ELSE IF ~IsSym(r.tok, "}") THEN Fail(r.it, "error")
  ELSE BodyLoop(r.tok, r.it, Append(kids, r.el))

BodyLoop(t, it, kids) ==
  CASE IsKw(t, {"var"}) -> BodyVar(_compileVarDec(t, it), kids)
    [] t.type = "keyword" /\ t.value # "var" ->
         BodyStatements(StatementsOn(t, it, <<>>), kids)
    [] t.type # "keyword" /\ t.value = "}" ->
         Ok(Node("subroutineBody", Append(kids, Leaf(t))), it, None)
    [] OTHER -> Fail(it, "error")

_compileSubroutineBody(t, it) ==
  IF ~IsSym(t, "{") THEN Fail(it, "error") ELSE BodyNext(Nx(it), <<Leaf(t)>>)

(* _compileSubroutineDec: tokens up to "(", the parameter list, which must *)
(* end at ")", tokens up to "{", and the body.                            *)
RECURSIVE SubroutineDecLoop(_, _, _)

SubroutineDecNext(n, kids) ==
  IF n.exc # "none" THEN Raised(n) ELSE SubroutineDecLoop(n.tok, n.it, kids)

SubroutineDecParams(r, kids) ==
  IF r.err # "none" THEN r
  ELSE IF ~IsSym(r.tok, ")") THEN Fail(r.it, "error")
  ELSE SubroutineDecLoop(r.tok, r.it, Append(kids, r.el))

SubroutineDecBody(r, kids) ==
  IF r.err # "none" THEN r ELSE Ok(Node("subroutineDec", Append(kids, r.el)), r.it, None)

ParamsOfNext(n) == IF n.exc # "none" THEN Raised(n) ELSE _compileParameterList(n.tok, n.it)

SubroutineDecLoop(t, it, kids) ==
  CASE t.value = "(" -> SubroutineDecParams(ParamsOfNext(Nx(it)), Append(kids, Leaf(t)))
    [] t.value = "{" -> SubroutineDecBody(_compileSubroutineBody(t, it), kids)
    [] OTHER         -> SubroutineDecNext(Nx(it), Append(kids, Leaf(t)))

_compileSubroutineDec(t, it) ==
  IF ~IsKw(t, {"constructor", "function", "method"}) THEN Fail(it, "error")
  ELSE SubroutineDecLoop(t, it, <<>>)

(* _compileClass: declarations and subroutines by their first keyword,    *)
(* any other token appended, up to the "}" that ends the class; nothing    *)
(* is read after it.                                                      *)
RECURSIVE ClassLoop(_, _, _)

ClassNext(n, kids) == IF n.exc # "none" THEN Raised(n) ELSE ClassLoop(n.tok, n.it, kids)

ClassPart(r, kids) == IF r.err # "none" THEN r ELSE ClassNext(Nx(r.it), Append(kids, r.el))

ClassLoop(t, it, kids) ==
  CASE t.value \in {"static", "field"} -> ClassPart(_compileClassVarDec(t, it), kids)
    [] IsKw(t, {"constructor", "function", "method"}) ->
         ClassPart(_compileSubroutineDec(t, it), kids)
    [] t.value = "}" -> Ok(Node("class", Append(kids, Leaf(t))), it, None)
    [] OTHER -> ClassNext(Nx(it), Append(kids, Leaf(t)))

_compileClass(t, it) ==
  IF ~IsKw(t, {"class"}) THEN Fail(it, "error") ELSE ClassLoop(t, it, <<>>)

ClassOfNext(n) == IF n.exc # "none" THEN Raised(n) ELSE _compileClass(n.tok, n.it)

(* parse: _compileClass of the first token. *)
parse(it) == ClassOfNext(Nx(it))

-----------------------------------------------------------------------------
(***************************************************************************)
(* One compilation's parse: input is an element of Inputs, a record with  *)
(* the iterator's initial state it (a queue of tokens, or a file for the  *)
(* tokenizer to read) and, where the input was built from a tree of the   *)
(* grammar, what parsing it must give: expect "tree" (that tree) or       *)
(* "stop" (the input is a proper prefix of the tree's tokens).  result is *)
(* parse's result, its err "pending" before the call.                     *)
(***************************************************************************)
VARIABLES input, result

vars == <<input, result>>

Init ==
  /\ input \in Inputs
  /\ result = Fail(input.it, "pending")

Parse ==
  /\ result.err = "pending"
  /\ result' = parse(input.it)
  /\ UNCHANGED input

Spec == Init /\ [][Parse]_vars

-----------------------------------------------------------------------------
Productions == {"class", "classVarDec", "subroutineDec", "parameterList",
                "subroutineBody", "varDec", "statements", "letStatement",
                "ifStatement", "whileStatement", "doStatement", "returnStatement",
                "expression", "term", "expressionList"}

(* The tokens of an element, left to right: re-serializing it. *)
RECURSIVE Leaves(_)
Leaves(e) ==
  IF e.tag \in TK!TokenTypes THEN <<[type |-> e.tag, value |-> e.text]>>
  ELSE FlattenSeq([i \in DOMAIN e.kids |-> Leaves(e.kids[i])])

RECURSIVE WellTagged(_)
WellTagged(e) ==
  \/ e.tag \in TK!TokenTypes /\ e.kids = <<>>
  \/ e.tag \in Productions /\ \A i \in DOMAIN e.kids : WellTagged(e.kids[i])

TypeOK ==
  /\ result.err \in {"pending", "none", "stop", "error"}
  /\ result.err = "none" => WellTagged(result.el)

(***************************************************************************)
(* GrammarRoundTrip (spec 8): the tokens of a tree of the grammar parse   *)
(* back to exactly that tree, and parsing consumes them all.  It is about *)
(* the hand-back protocol between the _compile* methods: a bare variable  *)
(* returns the token it looked ahead at, _compileIf the token after its   *)
(* last "}", and every caller must use that token rather than read a new *)
(* one, or read a new one when None came back.                            *)
(***************************************************************************)
GrammarRoundTrip ==
  result.err # "pending" /\ input.expect = "tree" =>
    /\ result.err = "none"
    /\ result.el = input.tree
    /\ result.it = [file |-> <<>>, queue |-> <<>>]

(***************************************************************************)
(* EndOfInputFails (spec 4.2, UnexpectedEndOfInput): a token sequence that *)
(* stops before its class is complete makes parse raise StopIteration,    *)
(* never return a tree and never fail an assertion; this covers the bare *)
(* except of _compileIf, which swallows the StopIteration of the token   *)
(* after an if statement's "}".                                          *)
(***************************************************************************)
EndOfInputFails ==
  result.err # "pending" /\ input.expect = "stop" => result.err = "stop"

(***************************************************************************)
(* SourceTokensInTree (spec 7, spec 8): parse returns a tree only for a   *)
(* source that lexes, and the tree's tokens are the source's first        *)
(* tokens in order.  It is about the tokenizer and the parser together:   *)
(* the exceptions __next__ raises for a malformed item must reach the     *)
(* parser's caller.                                                       *)
(***************************************************************************)
SourceTokens(it) ==
  IF it.file = <<>> THEN [tokens |-> it.queue, ok |-> TRUE] ELSE TK!SpecLex(it.file)

SourceTokensInTree ==
  result.err = "none" =>
    /\ SourceTokens(input.it).ok
    /\ IsPrefix(Leaves(result.el), SourceTokens(input.it).tokens)
=============================================================================

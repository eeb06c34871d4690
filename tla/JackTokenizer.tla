---------------------------- MODULE JackTokenizer ----------------------------
(***************************************************************************)
(* The lexer of the Jack compiler (project10/jack_tokenizer.py, class      *)
(* JackTokenizer).  The file is a sequence of lines, each a TLA+ string;   *)
(* SubSeq(l, i, i) is its i-th character.  A token is what the parser      *)
(* reads of it through tokenToString: its type name and its text (the     *)
(* keyword's spelling, str(int(item)) for an integer constant, the string  *)
(* without its quotes).                                                    *)
(*                                                                         *)
(* The tokenizer is an iterator: every call of __next__ either returns the *)
(* head of the pending queue, or reads lines until one of them yields      *)
(* tokens, or raises StopIteration at the end of the file, or raises the   *)
(* AssertionError / TypeError of a malformed item.                         *)
(***************************************************************************)
EXTENDS Naturals, Sequences, SequencesExt, FiniteSetsExt

CONSTANTS
  Letters,    \* the characters for which str.isalpha holds, in the inputs
  Files       \* the possible contents of the source file

Char(l, i) == SubSeq(l, i, i)

(* keyword_map: the spellings that are keywords. *)
keyword_map ==
  {"class", "constructor", "function", "method", "field", "static", "var",
   "int", "char", "boolean", "void", "true", "false", "null", "this", "let",
   "do", "if", "else", "while", "return"}

Digits == {"0", "1", "2", "3", "4", "5", "6", "7", "8", "9"}
Quote  == "\""

symbol_list == {"{", "}", "(", ")", "[", "]", ".", ",", ";", "+", "-", "*",
                "/", "&", "|", "<", ">", "=", "~"}

(* str.strip, with the blank the only white space of the inputs. *)
Strip(l) ==
  LET keep == {i \in 1..Len(l) : Char(l, i) # " "}
  IN  IF keep = {} THEN "" ELSE SubSeq(l, Min(keep), Max(keep))

(* str.index as a 1-based position, 0 where it raises ValueError. *)
IndexOf(l, pat) ==
  LET at == {i \in 1..Len(l) - Len(pat) + 1 : SubSeq(l, i, i + Len(pat) - 1) = pat}
  IN  IF at = {} THEN 0 ELSE Min(at)

AllDigits(item) == Len(item) > 0 /\ \A i \in 1..Len(item) : Char(item, i) \in Digits

(* str(int(item)): the digits without their leading zeros. *)
IntText(item) ==
  LET nz == {i \in 1..Len(item) : Char(item, i) # "0"}
  IN  IF nz = {} THEN "0" ELSE SubSeq(item, Min(nz), Len(item))

_validateIdentifier(item) ==
  /\ Char(item, 1) \notin Digits
  /\ \A i \in 1..Len(item) : Char(item, i) \in Letters \cup Digits \cup {"_"}

-----------------------------------------------------------------------------
(***************************************************************************)
(* _split: one pass over the characters with start and quote.  A quote     *)
(* closes a string item, or opens one; a quote that follows a pending word *)
(* evaluates content[start, i], a TypeError.  Blanks and symbols outside a *)
(* string end the pending word; a symbol is an item of its own.  Whatever  *)
(* is pending when the line ends is not appended.                          *)
(***************************************************************************)
SplitStep(content, i, st) ==
  LET c    == Char(content, i)
      word == IF i - st.start > 0 THEN <<SubSeq(content, st.start, i - 1)>> ELSE <<>>
  IN  CASE c = Quote /\ st.quote ->
             [st EXCEPT !.items = Append(@, SubSeq(content, st.start, i)),
                        !.start = i + 1, !.quote = FALSE]
        [] c = Quote /\ i - st.start > 0 -> [st EXCEPT !.ok = FALSE]
        [] c = Quote -> [st EXCEPT !.quote = TRUE]
        [] c = " " /\ ~st.quote ->
             [st EXCEPT !.items = @ \o word, !.start = i + 1]
        [] c \in symbol_list /\ ~st.quote ->
             [st EXCEPT !.items = @ \o word \o <<c>>, !.start = i + 1]
        [] OTHER -> st

_split(content) ==
  LET RECURSIVE Scan(_, _)
      Scan(i, st) == IF i > Len(content) \/ ~st.ok THEN st
                     ELSE Scan(i + 1, SplitStep(content, i, st))
  IN  Scan(1, [items |-> <<>>, start |-> 1, quote |-> FALSE, ok |-> TRUE])

(* Seeded fault for mutation analysis: an integer constant tagged with  *)
(* a type name token_type_map does not have.                             *)
Classify_intTag(item) ==
  CASE item \in keyword_map      -> [type |-> "keyword", value |-> item]
    [] AllDigits(item)        -> [type |-> "intConst", value |-> IntText(item)]
    [] item \in symbol_list   -> [type |-> "symbol", value |-> item]
    [] Char(item, 1) = Quote  -> [type |-> "stringConstant",
                                  value |-> SubSeq(item, 2, Len(item) - 1)]
    [] OTHER                  -> [type |-> "identifier", value |-> item]

(* The token of an item, in the order of _generateToken's tests. *)
Classify(item) ==
  CASE item \in keyword_map      -> [type |-> "keyword", value |-> item]
    [] AllDigits(item)        -> [type |-> "integerConstant", value |-> IntText(item)]
    [] item \in symbol_list   -> [type |-> "symbol", value |-> item]
    [] Char(item, 1) = Quote  -> [type |-> "stringConstant",
                                  value |-> SubSeq(item, 2, Len(item) - 1)]
    [] OTHER                  -> [type |-> "identifier", value |-> item]

(* _generateToken: the tokens it appended to the queue, those of the     *)
(* items before the first that fails the identifier assertion (none when *)
(* _split itself raised), and whether no exception was raised.           *)
TokensOf(sp) ==
  LET bad == {i \in 1..Len(sp.items) :
                Classify(sp.items[i]).type = "identifier"
                /\ ~_validateIdentifier(sp.items[i])}
      n   == CASE ~sp.ok    -> 0
                [] bad = {} -> Len(sp.items)
                [] OTHER    -> Min(bad) - 1
  IN  [tokens |-> [i \in 1..n |-> Classify(sp.items[i])], ok |-> sp.ok /\ bad = {}]

_generateToken(content) == TokensOf(_split(content))

-----------------------------------------------------------------------------
(***************************************************************************)
(* The comment handling of __next__ for one stripped line, given the      *)
(* call's opening_comment flag: the text left and the new flag.  Inside a *)
(* comment a line without */ is skipped; the text after */ is kept as it  *)
(* is.  Otherwise the first /* is cut up to the first */ of the line (or  *)
(* to the end, opening a comment), and then everything from //.           *)
(***************************************************************************)
(* Seeded fault for mutation analysis: the text after a closing */ is   *)
(* taken from one character too early.                                 *)
StripComments_keepSlash(l, opening) ==
  IF opening
  THEN LET j == IndexOf(l, "*/")
       IN  IF j = 0 THEN [line |-> "", opening |-> TRUE]
           ELSE [line |-> SubSeq(l, j + 1, Len(l)), opening |-> FALSE]
  ELSE LET i1 == IndexOf(l, "/*")
           i2 == IndexOf(l, "*/")
           l1 == CASE i1 = 0  -> l
                   [] i2 # 0  -> SubSeq(l, 1, i1 - 1) \o SubSeq(l, i2 + 1, Len(l))
                   [] OTHER   -> SubSeq(l, 1, i1 - 1)
           c  == IndexOf(l1, "//")
       IN  [line |-> IF c = 0 THEN l1 ELSE SubSeq(l1, 1, c - 1),
            opening |-> i1 # 0 /\ i2 = 0]

StripComments(l, opening) ==
  IF opening
  THEN LET j == IndexOf(l, "*/")
       IN  IF j = 0 THEN [line |-> "", opening |-> TRUE]
           ELSE [line |-> SubSeq(l, j + 2, Len(l)), opening |-> FALSE]
  ELSE LET i1 == IndexOf(l, "/*")
           i2 == IndexOf(l, "*/")
           l1 == CASE i1 = 0  -> l
                   [] i2 # 0  -> SubSeq(l, 1, i1 - 1) \o SubSeq(l, i2 + 2, Len(l))
                   [] OTHER   -> SubSeq(l, 1, i1 - 1)
           c  == IndexOf(l1, "//")
       IN  [line |-> IF c = 0 THEN l1 ELSE SubSeq(l1, 1, c - 1),
            opening |-> i1 # 0 /\ i2 = 0]

RECURSIVE ReadLines(_, _)

(* A line that yielded tokens ends the call; one that yielded none      *)
(* (every word of it dropped) lets the loop go on.                      *)
LineTokens(g, rest, opening) ==
  CASE ~g.ok -> [rest |-> rest, tokens |-> g.tokens, ok |-> FALSE]
    [] g.tokens = <<>> -> ReadLines(rest, opening)
    [] OTHER -> [rest |-> rest, tokens |-> g.tokens, ok |-> TRUE]

(* The for loop of __next__ over the file's remaining lines, with the   *)
(* call's own opening_comment; no tokens and ok is StopIteration.       *)
ReadLinesFrom(c, rest) ==
  IF c.line = "" THEN ReadLines(rest, c.opening)
  ELSE LineTokens(_generateToken(c.line), rest, c.opening)

ReadLines(lines, opening) ==
  IF lines = <<>> THEN [rest |-> <<>>, tokens |-> <<>>, ok |-> TRUE]
  ELSE ReadLinesFrom(StripComments(Strip(Head(lines)), opening), Tail(lines))

-----------------------------------------------------------------------------
(***************************************************************************)
(* __next__ as a function of the iterator's state it = [file, queue]: the  *)
(* lines not yet read and the _token_queue.  The result is the new state,  *)
(* the token returned, and the exception raised ("none", "stop" for        *)
(* StopIteration, "error" for the AssertionError or TypeError of a bad     *)
(* item).  An exception leaves behind the lines read so far consumed and   *)
(* the tokens _generateToken had queued before it raised; the iterator     *)
(* stays usable.                                                           *)
(***************************************************************************)
NoToken == [type |-> "none", value |-> "none"]

Delivered(r) ==
  CASE ~r.ok ->
         [it |-> [file |-> r.rest, queue |-> r.tokens], tok |-> NoToken, exc |-> "error"]
    [] r.tokens = <<>> ->
         [it |-> [file |-> r.rest, queue |-> <<>>], tok |-> NoToken, exc |-> "stop"]
    [] OTHER ->
         [it |-> [file |-> r.rest, queue |-> Tail(r.tokens)],
          tok |-> Head(r.tokens), exc |-> "none"]

NextToken(it) ==
  IF it.queue # <<>>
  THEN [it |-> [it EXCEPT !.queue = Tail(@)], tok |-> Head(it.queue), exc |-> "none"]
  ELSE Delivered(ReadLines(it.file, FALSE))

-----------------------------------------------------------------------------
(***************************************************************************)
(* The iterator driven by its caller until the first exception, as the     *)
(* driver's loop does: file and queue are its state, status "open",        *)
(* "stopped" after StopIteration or "failed" after an exception.  source   *)
(* (the whole file) and returned (the tokens handed out so far) are ghost  *)
(* variables.                                                              *)
(***************************************************************************)
VARIABLES source, file, queue, returned, status

vars == <<source, file, queue, returned, status>>

Init ==
  /\ source \in Files
  /\ file = source
  /\ queue = <<>>
  /\ returned = <<>>
  /\ status = "open"

(* One call of __next__ and what the caller sees of it. *)
Returned(n) ==
  /\ file' = n.it.file
  /\ queue' = n.it.queue
  /\ status' = CASE n.exc = "error" -> "failed"
                  [] n.exc = "stop"  -> "stopped"
                  [] OTHER           -> "open"
  /\ returned' = IF n.exc = "none" THEN Append(returned, n.tok) ELSE returned
  /\ UNCHANGED source

(* __next__ with tokens pending: the head of the queue. *)
NextFromQueue ==
  /\ status = "open"
  /\ queue # <<>>
  /\ Returned(NextToken([file |-> file, queue |-> queue]))

(* __next__ with the queue empty: the lines read, and the first token   *)
(* of the line that ended the loop, StopIteration or the exception.     *)
NextFromFile ==
  /\ status = "open"
  /\ queue = <<>>
  /\ Returned(NextToken([file |-> file, queue |-> queue]))

Next == NextFromQueue \/ NextFromFile

Spec == Init /\ [][Next]_vars
-----------------------------------------------------------------------------
(***************************************************************************)
(* The lexer spec 4.1 describes, over the whole text (the lines joined by  *)
(* newlines): // skips to the end of the line, /* ... */ may span lines,  *)
(* a double-quoted run is one string constant, blanks, newlines and the   *)
(* symbols end a word and each symbol is a token; a word is an integer     *)
(* constant if all digits, a keyword if it spells one, an identifier if   *)
(* it starts with a letter or underscore and has only alphanumerics and   *)
(* underscores, and otherwise lexing fails (InvalidIdentifier).  A string  *)
(* still open at the end of the text also fails.                         *)
(***************************************************************************)
IsIdentifier(w) ==
  /\ Char(w, 1) \in Letters \cup {"_"}
  /\ \A i \in 1..Len(w) : Char(w, i) \in Letters \cup Digits \cup {"_"}

Emit(st, tok) == [st EXCEPT !.tokens = Append(@, tok)]

(* The pending word ends. *)
EndWord(st) ==
  LET w == st.word
      s == [st EXCEPT !.word = ""]
  IN  CASE w = ""          -> st
        [] AllDigits(w)    -> Emit(s, [type |-> "integerConstant", value |-> IntText(w)])
        [] w \in keyword_map  -> Emit(s, [type |-> "keyword", value |-> w])
        [] IsIdentifier(w) -> Emit(s, [type |-> "identifier", value |-> w])
        [] OTHER           -> [s EXCEPT !.ok = FALSE]

(* One step at position i of text: the new state and how many characters *)
(* it took.                                                                *)
LexStep(text, i, st) ==
  LET c  == Char(text, i)
      n  == Char(text, i + 1)
      go(m) == [st |-> [EndWord(st) EXCEPT !.mode = m], adv |-> 2]
  IN  CASE st.mode = "code" /\ c = "/" /\ n = "/" -> go("line")
        [] st.mode = "code" /\ c = "/" /\ n = "*" -> go("block")
        [] st.mode = "code" /\ c = Quote ->
             [st |-> [EndWord(st) EXCEPT !.mode = "string"], adv |-> 1]
        [] st.mode = "code" /\ c \in {" ", "\n"} -> [st |-> EndWord(st), adv |-> 1]
        [] st.mode = "code" /\ c \in symbol_list ->
             [st |-> Emit(EndWord(st), [type |-> "symbol", value |-> c]), adv |-> 1]
        [] st.mode \in {"code", "string"} /\ ~(st.mode = "string" /\ c = Quote) ->
             [st |-> [st EXCEPT !.word = @ \o c], adv |-> 1]
        [] st.mode = "string" ->
             [st |-> [Emit(st, [type |-> "stringConstant", value |-> st.word])
                        EXCEPT !.word = "", !.mode = "code"], adv |-> 1]
        [] st.mode = "line" /\ c = "\n" -> [st |-> [st EXCEPT !.mode = "code"], adv |-> 1]
        [] st.mode = "block" /\ c = "*" /\ n = "/" ->
             [st |-> [st EXCEPT !.mode = "code"], adv |-> 2]
        [] OTHER -> [st |-> st, adv |-> 1]

RECURSIVE Lex(_, _, _)
LexOn(text, i, r) == Lex(text, i + r.adv, r.st)
Lex(text, i, st) ==
  IF i > Len(text) \/ ~st.ok THEN st ELSE LexOn(text, i, LexStep(text, i, st))

LexEnd(st) ==
  LET e == IF st.ok /\ st.mode = "code" THEN EndWord(st) ELSE st
  IN  [tokens |-> e.tokens, ok |-> e.ok /\ e.mode # "string"]

SpecLex(lines) ==
  LexEnd(Lex(FlattenSeq([i \in 1..Len(lines) |-> lines[i] \o "\n"]), 1,
             [mode |-> "code", word |-> "", tokens |-> <<>>, ok |-> TRUE]))

-----------------------------------------------------------------------------
TokenTypes == {"keyword", "symbol", "integerConstant", "stringConstant", "identifier"}

TypeOK ==
  /\ status \in {"open", "stopped", "failed"}
  /\ IsSuffix(file, source)
  /\ \A i \in 1..Len(returned) : returned[i].type \in TokenTypes
  /\ \A i \in 1..Len(queue) : queue[i].type \in TokenTypes

(***************************************************************************)
(* TokensMatchSpec (spec 4.1): the tokens __next__ has handed out are a    *)
(* prefix of those the spec's lexer finds in the file; when the iterator   *)
(* raises StopIteration it has handed out all of them, and it raises an   *)
(* exception only if the spec's lexer fails too.  It ties together the     *)
(* line loop with its per-call opening_comment, the comment cutting, the  *)
(* split into items, their classification and the pending queue.         *)
(***************************************************************************)
MatchesSpec(lexed) ==
  /\ IsPrefix(returned, lexed.tokens)
  /\ status = "stopped" => lexed.ok /\ returned = lexed.tokens
  /\ status = "failed" => ~lexed.ok

TokensMatchSpec == MatchesSpec(SpecLex(source))
=============================================================================

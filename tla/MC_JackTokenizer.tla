--------------------------- MODULE MC_JackTokenizer ---------------------------
(***************************************************************************)
(* Instances of JackTokenizer for TLC: all keyword spellings, the letters, *)
(* and the files the runs read.                                            *)
(***************************************************************************)
EXTENDS JackTokenizer

MCLetters ==
  LET az == "abcdefghijklmnopqrstuvwxyzABCDEFGHIJKLMNOPQRSTUVWXYZ"
  IN  {Char(az, i) : i \in 1..Len(az)}

(* Lines that each end in a symbol or are comment lines: keywords,      *)
(* identifiers, integer constants with leading zeros, a string with a    *)
(* blank, a line comment, a one-line block comment, the opening and the *)
(* closing line of a block comment, a blank line and an invalid word.    *)
Lines ==
  {"if(x);", "x=007;", "\"a b\";", "x; // c", "x /* c */ ;", "/*", "*/ x;",
   "", "1x;"}

(* Every file of up to three such lines. *)
MCFiles == UNION {[1..n -> Lines] : n \in 0..3}

(* A block comment opened after code on a line and closed two lines on. *)
CommentAcrossCalls == {<<"let x = 1; /* note", "let y = 2;", "*/">>}
=============================================================================

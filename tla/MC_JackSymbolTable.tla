------------------------- MODULE MC_JackSymbolTable -------------------------
(* Model-checking instance of JackSymbolTable: two names, both scopes. *)
EXTENDS JackSymbolTable

MCNames    == {"x", "y"}
MCTypes    == {"int", "Array"}
MCSubNames == {"f"}
=============================================================================

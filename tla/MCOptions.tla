------------------------------ MODULE MCOptions ------------------------------
(***************************************************************************)
(* Two goroutines build evaluators from shared options: two functions, a   *)
(* second one of the same name, one without a callback, one whose return   *)
(* type is not of the language, one with the name of a variable, and nil.  *)
(* The caller may write a type, or something else, into a slice.           *)
(***************************************************************************)
EXTENDS Options

MCOption ==
    [f       |-> [name |-> <<"f">>, args |-> <<"string">>,
                  ret |-> "string", eval |-> TRUE],
     f2      |-> [name |-> <<"f">>, args |-> <<>>, ret |-> "number",
                  eval |-> TRUE],
     g       |-> [name |-> <<"g", ".", "f">>, args |-> <<>>,
                  ret |-> "boolean", eval |-> TRUE],
     noEval  |-> [name |-> <<"g">>, args |-> <<>>, ret |-> "null",
                  eval |-> FALSE],
     noType  |-> [name |-> <<"g">>, args |-> <<>>, ret |-> "object",
                  eval |-> TRUE],
     root    |-> [name |-> <<"e", ".", "f">>, args |-> <<>>, ret |-> "null",
                  eval |-> TRUE]]

MCLists == {<<"f", "g">>, <<"f", "f2">>}
              \cup {<<"f2", o>> : o \in {"nil", "noEval", "noType", "root"}}

MCLetters == {"e", "f", "g"}
MCRoots   == {<<"e">>}
=============================================================================

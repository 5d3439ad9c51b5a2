------------------------------ MODULE MCParser ------------------------------
(***************************************************************************)
(* One goroutine that parses every text of at most five tokens: a name, a  *)
(* literal, a literal the parser refuses, an operator of each precedence   *)
(* and all delimiters; or texts of nine tokens with nested ternaries and   *)
(* an operator that binds tighter.  Or two goroutines that parse calls.    *)
(***************************************************************************)
EXTENDS Grammar, TLC

CONSTANTS g1, g2

MCGoroutines == {g1, g2}

Name      == [type |-> "IDENT", lit |-> "f"]
Malformed == [type |-> "IDENT", lit |-> "f..f"]

MCRefused == {Malformed}

Texts(tokens, max) == [tokens |-> tokens \cup {EOF}, max |-> max]

All == {Name, Malformed, [type |-> "INT", lit |-> "1"]}
           \cup {Symbol(x) : x \in {"!", "==", "&&", "||", "?", ":", "(", ")",
                                    "[", "]", ",", "."}}

Ternaries == {Name} \cup {Symbol(x) : x \in {"?", ":", "||"}}

Calls == {Name, Symbol("("), Symbol(")")}

MCScenarios == {g1 :> Texts(All, 5), g1 :> Texts(Ternaries, 9),
                [g \in MCGoroutines |-> Texts(Calls, 3)]}
=============================================================================

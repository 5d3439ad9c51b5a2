------------------------------- MODULE MCRegex -------------------------------
(***************************************************************************)
(* Patterns of at most four pieces.  An atom is what a quantifier may      *)
(* follow; a piece that is refused stands next to one that looks like it.  *)
(* Left out are a bracket right after [^, which ends the class here and is *)
(* a member of it for the engine, and [: without its end.                  *)
(***************************************************************************)
EXTENDS Regex

Allowed(S) == {[s |-> x, refused |-> FALSE] : x \in S}
Refused(S) == {[s |-> x, refused |-> TRUE] : x \in S}

Literals == Allowed({<<"a">>, <<"}">>, <<"{", "}">>, <<"1", "}">>})

Escapes == Allowed({<<"\\", "(">>, <<"\\", "[">>, <<"\\", "{">>,
                    <<"\\", "\\">>, <<"\\", "*">>})

Classes == Allowed({<<"[", "a", "]">>, <<"[", "]", "(", "?", ">", "]">>,
                    <<"[", "\\", "]", "+", "+", "]">>,
                    <<"[", "[", ":", "]", "*", ":", "]", "]">>,
                    <<"[", "{", "1", "]">>})

AllowedGroups == Allowed({<<"(", "?", ":", "a", ")">>, <<"(", "?", "=", "a", ")">>})

Comments == Allowed({<<"(", "?", "#", "(", "?", ">", ")">>,
                     <<"(", "?", "#", "[", ")">>, <<"(", "?", "#", "\\", ")">>})

RefusedGroups ==
    Refused({<<"(", "?", "<", "=", "a", ")">>, <<"(", "?", "<", "!", "a", ")">>,
             <<"(", "?", ">", "a", ")">>, <<"(", "?", "<", "n", ">", "a", ")">>,
             <<"(", "?", "P", "<", "n", ">", "a", ")">>,
             <<"(", "?", "'", "n", "'", "a", ")">>,
             <<"(", "?", "(", "1", ")", "a", ")">>})

Quantifiers == Allowed({<<"*">>, <<"+">>, <<"?">>, <<"+", "?">>,
                        <<"{", "1", "}">>, <<"{", "1", ",", "}">>})
               \cup Refused({<<"*", "+">>, <<"+", "+">>, <<"?", "+">>,
                             <<"{", "1", "}", "+">>,
                             <<"{", "1", ",", "2", "}", "+">>})

Atoms == Literals \cup Escapes \cup Classes \cup AllowedGroups
         \cup RefusedGroups

\* A quantifier follows an atom.
Sensible(p) == \A k \in 1..Len(p) :
                   p[k] \in Quantifiers => k > 1 /\ p[k - 1] \in Atoms

\* An atom and its quantifier, twice, and what may hide the second.
MCPatterns ==
    {p \in UNION {[1..n -> Atoms \cup Comments \cup Quantifiers] : n \in 0..2} :
        Sensible(p)}
    \cup {<<a, b, q>> : a \in Literals \cup Escapes \cup Classes \cup Comments,
                        b \in Atoms, q \in Quantifiers}
    \cup {<<a, b, c, q>> : a \in Escapes \cup Classes, b, c \in Literals \cup Escapes,
                           q \in Quantifiers}
=============================================================================

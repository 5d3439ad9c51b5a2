-------------------------------- MODULE Names --------------------------------
(***************************************************************************)
(* Names, letter by letter: which of them a caller may give a function.    *)
(* A text is a sequence of characters, each a string of length one.        *)
(***************************************************************************)
EXTENDS Integers, Sequences

CONSTANTS Letters,   \* the letters in use, and the underscore
          Digits,
          Keywords,  \* true, false, null, includes
          Roots      \* build, env, organization, pipeline, step

IsStart(ch) == ch \in Letters

IsPart(ch) == ch \in Letters \cup Digits \cup {"."}

\* It begins or ends with a dot, or two dots follow each other.
BadlyDotted(name) ==
    /\ name # <<>>
    /\ \/ name[1] = "." \/ name[Len(name)] = "."
       \/ \E i \in 1..(Len(name) - 1) : name[i] = "." /\ name[i + 1] = "."

\* MUTANT of ValidFunctionName: words of the language are allowed.
ValidFunctionNameOrKeyword(name) ==
    /\ name # <<>>
    /\ ~BadlyDotted(name)
    /\ IsStart(name[1])
    /\ \A i \in 1..Len(name) : IsPart(name[i])

ValidFunctionName(name) ==
    /\ name # <<>>
    /\ ~BadlyDotted(name)
    /\ name \notin Keywords
    /\ IsStart(name[1])
    /\ \A i \in 1..Len(name) : IsPart(name[i])

\* The first part of a dotted name is that of a variable.
ReservedFunctionName(name) ==
    \E r \in Roots : /\ Len(r) <= Len(name)
                     /\ SubSeq(name, 1, Len(r)) = r
                     /\ Len(r) < Len(name) => name[Len(r) + 1] = "."
=============================================================================

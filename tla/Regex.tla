-------------------------------- MODULE Regex --------------------------------
(***************************************************************************)
(* The validator of regular expressions, internal/regex: one pass over a   *)
(* pattern, a step for each turn of its loop, that refuses the features    *)
(* the server does not have.  The pattern is put together from pieces, and *)
(* the validator sees only its characters.                                 *)
(*                                                                         *)
(*   pieces      what the author of the pattern meant, in order            *)
(*   i           the position the next turn looks at                       *)
(*   escaped     the character before it was a backslash                   *)
(*   inClass     it is in a bracketed class                                *)
(*   classFirst  it is the first of its class                              *)
(*   verdict     "pending", "accepted" or "refused"                        *)
(***************************************************************************)
EXTENDS Integers, SequencesExt

CONSTANTS Patterns  \* sequences of pieces [s : text, refused : BOOLEAN]

VARIABLES pieces, i, escaped, inClass, classFirst, verdict

rvars == <<pieces, i, escaped, inClass, classFirst, verdict>>

Pattern == FlattenSeq([k \in 1..Len(pieces) |-> pieces[k].s])

Digit == {"0", "1", "2", "3", "4", "5", "6", "7", "8", "9"}

-----------------------------------------------------------------------------
(* What is at a position of a text                                         *)

HasPrefix(text, at, prefix) ==
    /\ Len(text) - at + 1 >= Len(prefix)
    /\ SubSeq(text, at, at + Len(prefix) - 1) = prefix

\* The first of these positions, 0 if there is none.
FirstOf(S) == IF S = {} THEN 0 ELSE Min(S)

\* The bracket that ends [:name:] or its like.
ClassSetEnd(text, at) ==
    FirstOf({k \in (at + 3)..Len(text) :
                 text[k - 1] = text[at + 1] /\ text[k] = "]"})

CommentEnd(text, at) == FirstOf({k \in at..Len(text) : text[k] = ")"})

\* An odd number of backslashes before a position.
IsEscapedByte(text, at) ==
    LET before == {k \in 1..(at - 1) : text[k] # "\\"}
        last   == IF before = {} THEN 0
                  ELSE CHOOSE k \in before : \A j \in before : j <= k
    IN  (at - 1 - last) % 2 = 1

\* n or n, or n,m
IsQuantifierBounds(bounds) ==
    /\ bounds # <<>> /\ bounds[1] \in Digit
    /\ \A k \in 1..Len(bounds) : bounds[k] \in Digit \cup {","}
    /\ \A j, k \in 1..Len(bounds) :
           bounds[j] = "," /\ bounds[k] = "," => j = k

\* MUTANT of IsBoundedQuantifierEnd: an escaped brace opens a quantifier.
IsBoundedQuantifierEndOfEscaped(text, close) ==
    \E open \in 1..(close - 1) :
        /\ text[open] = "{"
        /\ \A k \in (open + 1)..(close - 1) : text[k] # "{"
        /\ IsQuantifierBounds(SubSeq(text, open + 1, close - 1))

\* The nearest brace to the left of this one opens a quantifier.
IsBoundedQuantifierEnd(text, close) ==
    \E open \in 1..(close - 1) :
        /\ text[open] = "{"
        /\ \A k \in (open + 1)..(close - 1) : text[k] # "{"
        /\ ~IsEscapedByte(text, open)
        /\ IsQuantifierBounds(SubSeq(text, open + 1, close - 1))

\* Lookbehinds, atomic groups, named groups and conditionals.
UnsupportedGroups == {<<"(", "?", "<">>, <<"(", "?", ">">>,
                      <<"(", "?", "P", "<">>, <<"(", "?", "'">>,
                      <<"(", "?", "(">>}

IsUnsupportedGroup(text, at) ==
    \E prefix \in UnsupportedGroups : HasPrefix(text, at, prefix)

IsPossessive(text, at) ==
    /\ at < Len(text) /\ text[at + 1] = "+"
    /\ \/ text[at] \in {"?", "*", "+"}
       \/ text[at] = "}" /\ IsBoundedQuantifierEnd(text, at)

Comment == <<"(", "?", "#">>

-----------------------------------------------------------------------------
(* The turns of the loop                                                   *)

Init == /\ pieces \in Patterns
        /\ i = 1
        /\ escaped = FALSE /\ inClass = FALSE /\ classFirst = FALSE
        /\ verdict = "pending"

Scanning(S) == /\ verdict = "pending" /\ i <= Len(Pattern)
               /\ S

\* The position goes to k and the flags to their new values.
Move(k, e, c, f) == /\ i' = k /\ escaped' = e
                    /\ inClass' = c /\ classFirst' = f
                    /\ UNCHANGED <<pieces, verdict>>

Decide(v) == verdict' = v /\ UNCHANGED <<pieces, i, escaped, inClass, classFirst>>

EscapedCharacter ==
    Scanning(escaped) /\ Move(i + 1, FALSE, inClass, classFirst /\ ~inClass)

Backslash ==
    /\ Scanning(~escaped /\ Pattern[i] = "\\")
    /\ Move(i + 1, TRUE, inClass, classFirst)

Plain == ~escaped /\ Pattern[i] # "\\"

ClassSet ==
    /\ Scanning(Plain /\ inClass /\ Pattern[i] = "[")
    /\ i < Len(Pattern) /\ Pattern[i + 1] \in {":", ".", "="}
    /\ LET end == ClassSetEnd(Pattern, i)
       IN  IF end # 0 THEN Move(end + 1, FALSE, TRUE, FALSE)
           ELSE Move(i + 1, FALSE, TRUE, classFirst)

\* MUTANT of EndsClass: a bracket ends the class wherever it stands.
EndsClassAlways == TRUE

\* The first character of a class does not end it.
EndsClass == ~classFirst

ClassBracket ==
    /\ Scanning(Plain /\ inClass /\ Pattern[i] = "]")
    /\ Move(i + 1, FALSE, ~EndsClass, FALSE)

ClassCharacter ==
    /\ Scanning(Plain /\ inClass /\ Pattern[i] # "]")
    /\ ~(/\ Pattern[i] = "["
         /\ i < Len(Pattern) /\ Pattern[i + 1] \in {":", ".", "="})
    /\ Move(i + 1, FALSE, TRUE, FALSE)

OpenClass ==
    /\ Scanning(Plain /\ ~inClass /\ Pattern[i] = "[")
    /\ Move(i + 1, FALSE, TRUE, TRUE)

\* A comment without an end is left to the compiler.
SkipComment ==
    /\ Scanning(Plain /\ ~inClass /\ HasPrefix(Pattern, i, Comment))
    /\ LET end == CommentEnd(Pattern, i + 3)
       IN  IF end = 0 THEN Decide("accepted")
           ELSE Move(end + 1, FALSE, FALSE, classFirst)

Refuse ==
    /\ Scanning(Plain /\ ~inClass)
    /\ IsUnsupportedGroup(Pattern, i) \/ IsPossessive(Pattern, i)
    /\ Decide("refused")

Character ==
    /\ Scanning(Plain /\ ~inClass /\ Pattern[i] # "[")
    /\ ~HasPrefix(Pattern, i, Comment)
    /\ ~IsUnsupportedGroup(Pattern, i) /\ ~IsPossessive(Pattern, i)
    /\ Move(i + 1, FALSE, FALSE, classFirst)

Accept == /\ verdict = "pending" /\ i > Len(Pattern)
          /\ Decide("accepted")

Next == \/ EscapedCharacter \/ Backslash \/ ClassSet \/ ClassBracket
        \/ ClassCharacter \/ OpenClass \/ SkipComment \/ Refuse \/ Character
        \/ Accept

Spec == Init /\ [][Next]_rvars

-----------------------------------------------------------------------------
(* Properties                                                              *)

\* A pattern is refused just when one of its pieces is a feature the server
\* does not have, whichever pieces of the instance stand around it: what an
\* escape, a class or a comment hides is no feature, what follows one is not
\* hidden.
RefusesTheUnsupported ==
    /\ verdict = "refused"  => \E k \in 1..Len(pieces) : pieces[k].refused
    /\ verdict = "accepted" => \A k \in 1..Len(pieces) : ~pieces[k].refused
=============================================================================

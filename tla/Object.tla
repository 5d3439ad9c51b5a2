------------------------------- MODULE Object -------------------------------
(***************************************************************************)
(* The runtime values of internal/object and the operators that            *)
(* internal/evaluator applies to them.                                     *)
(*                                                                         *)
(* Every value has the same shape, so that any two of them can be          *)
(* compared: a kind, a payload, and the elements of an ARRAY.  The payload *)
(* of an ERROR is its class instead of its message: "type" (an operator    *)
(* refuses its operands), "scope" (an unbound name), "callee" (a value     *)
(* that is not a function is called), "regexp" (the engine gives up),      *)
(* "shell", "env" and "function" (a caller's function fails).              *)
(*                                                                         *)
(* An operator that depends on the regular expression engine returns the   *)
(* SET of its possible results, because a match can also time out.         *)
(***************************************************************************)
EXTENDS Integers, Sequences

CONSTANT Matching   \* the pairs <<string, regexp>> that the engine matches

Kinds == {"NULL", "ERROR", "STRING", "INTEGER", "BOOLEAN", "REGEXP", "ARRAY",
          "FUNCTION"}

\* Value.Type: the runtime kind of each type of the language.
RuntimeKind == [string |-> "STRING", number |-> "INTEGER", array |-> "ARRAY",
                boolean |-> "BOOLEAN", null |-> "NULL", regexp |-> "REGEXP"]

Atom(kind, v) == [kind |-> kind, v |-> v, elems |-> <<>>]

Null        == Atom("NULL", "null")
True        == Atom("BOOLEAN", "true")
False       == Atom("BOOLEAN", "false")
Str(s)      == Atom("STRING", s)
Error(c)    == Atom("ERROR", c)
Function(f) == Atom("FUNCTION", f)
Array(es)   == [kind |-> "ARRAY", v |-> "", elems |-> es]

\* Not values: the evaluation of a node has not begun, or has not returned.
None == Atom("NONE", "")
Open == Atom("OPEN", "")
IsValue(o) == o.kind \in Kinds

Bool(b) == IF b THEN True ELSE False

IsError(o) == o.kind = "ERROR"

\* A false and a null are falsy, everything else is truthy, an error included.
IsTruthy(o) == o.kind # "NULL" /\ o # False

\* Type() and Equals() together.  No function equals any value, not even
\* itself, and neither does an array that holds one.  (The code looks into
\* arrays of arrays too; no function is in one here.)
HoldsFunction(o) ==
    \/ o.kind = "FUNCTION"
    \/ \E i \in DOMAIN o.elems : o.elems[i].kind = "FUNCTION"

Equals(l, r) == l = r /\ ~HoldsFunction(l)

EvalBangOperatorExpression(r) ==
    IF r.kind \in {"BOOLEAN", "NULL"} THEN Bool(~IsTruthy(r)) ELSE False

EvalPrefixExpression(op, r) ==
    IF op = "!" THEN EvalBangOperatorExpression(r) ELSE Error("type")

\* == and != are total on values; no other operator is.
Comparison(op, l, r) ==
    CASE op = "==" -> Bool(Equals(l, r))
      [] op = "!=" -> Bool(~Equals(l, r))
      [] OTHER     -> Error("type")

Matches(s, re) == <<s.v, re.v>> \in Matching

\* The engine is consulted before the operator is looked at.
EvalStringRegexp(op, l, r) ==
    {Error("regexp"),
     IF op \in {"=~", "!~"} THEN Bool(Matches(l, r) = (op = "=~"))
                            ELSE Error("type")}

EvalNullRegexp(op) ==
    CASE op = "=~" -> False
      [] op = "!~" -> True
      [] OTHER     -> Error("type")

Comparable(e, r) == e.kind = IF r.kind = "REGEXP" THEN "STRING" ELSE r.kind

Hit(e, r) == IF r.kind = "REGEXP" THEN Matches(e, r) ELSE Equals(e, r)

\* The scan of arrayContains stops at the first element that hits, or at the
\* first that cannot be compared, whichever comes first; every element it
\* hands to the engine can also time out.
ArrayContains(es, r) ==
    IF r.kind = "NULL" THEN {False}
    ELSE {IF \E i \in DOMAIN es : /\ \A j \in 1..i : Comparable(es[j], r)
                                  /\ Hit(es[i], r)
          THEN True
          ELSE IF \A i \in DOMAIN es : Comparable(es[i], r)
               THEN False ELSE Error("type")}
         \cup {e \in {Error("regexp")} : /\ r.kind = "REGEXP"
                                         /\ es # <<>>
                                         /\ es[1].kind = "STRING"}

\* The cases of evalInfixExpression, in its order: a null or string against a
\* regexp comes before the rule for a null on the left of includes.
EvalInfixExpression(op, l, r) ==
    CASE l.kind = "STRING" /\ r.kind = "REGEXP" -> EvalStringRegexp(op, l, r)
      [] l.kind = "NULL" /\ r.kind = "REGEXP"   -> {EvalNullRegexp(op)}
      [] l.kind = "ARRAY" /\ op = "includes"    -> ArrayContains(l.elems, r)
      [] l.kind = "NULL" /\ r.kind # "REGEXP" /\ op = "includes" -> {False}
      [] OTHER -> {Comparison(op, l, r)}
=============================================================================

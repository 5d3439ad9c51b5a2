------------------------------ MODULE TypeCheck ------------------------------
(***************************************************************************)
(* The static checks of typecheck.go and conditional.go: which expressions *)
(* are refused before they are evaluated, and the type of the others.      *)
(*                                                                         *)
(* The checker is given here node by node: CheckNode is the type of a node *)
(* from the types ty of its operands, Unknown when the node is refused.    *)
(* Every refusal is an error of the same kind, so the order in which the   *)
(* code meets two of them does not show.                                   *)
(***************************************************************************)
EXTENDS Ast, Assignments

LiteralType ==
    [Boolean |-> "boolean", Null |-> "null", Integer |-> "number",
     String |-> "string", Dollar |-> "string", Template |-> "string",
     Shell |-> "string", Regexp |-> "regexp"]

\* expectAny: one of the kinds, and no enumeration.
Is(t, kinds) == t.enum = {} /\ t.kind \in kinds

\* staticStringLiteral
IsStatic(node) == node.op \in {"String", "Dollar"}

\* checkCompatibleTypes, for the sides of == and != and for the branches of a
\* ternary.  An enumeration on the left allows any string that is not a
\* literal outside it; an enumeration on the right is always refused.
Compatible(l, r, right) ==
    \/ l.kind = "null"
    \/ r.kind = "null"
    \/ l.enum # {} /\ Is(r, {"string"})
                   /\ (IsStatic(right) => right.tok \in l.enum)
    \/ l.enum = {} /\ Is(r, {l.kind})

CompatibleType(l, r, right) ==
    IF ~Compatible(l, r, right) THEN Unknown
    ELSE IF l.kind = "null" THEN r ELSE l

\* MUTANT of InfixAccepts: includes takes a string on its left.
InfixAcceptsText(op, l, r, right) ==
    CASE op \in {"=~", "!~"} -> /\ Is(l, {"string", "null"})
                                /\ Is(r, {"regexp"})
      [] op = "includes" -> /\ Is(l, {"array", "string", "null"})
                            /\ Is(r, {"string", "regexp", "null"})
      [] op \in LogicalOperators -> Is(l, {"boolean"}) /\ Is(r, {"boolean"})
      [] op \in {"==", "!="} -> Compatible(l, r, right)
      [] OTHER -> FALSE

InfixAccepts(op, l, r, right) ==
    CASE op \in {"=~", "!~"} -> /\ Is(l, {"string", "null"})
                                /\ Is(r, {"regexp"})
      [] op = "includes" -> /\ Is(l, {"array", "null"})
                            /\ Is(r, {"string", "regexp", "null"})
      [] op \in LogicalOperators -> Is(l, {"boolean"}) /\ Is(r, {"boolean"})
      [] op \in {"==", "!="} -> Compatible(l, r, right)
      [] OTHER -> FALSE

BuiltinSignature == [args |-> <<"string">>, ret |-> "string"]

\* functionTypes: what may be called, and with what.
Callable(functions) == {"env", "build.env"} \cup DOMAIN functions

Signature(functions, f) == IF f \in DOMAIN functions
                           THEN functions[f] ELSE BuiltinSignature

\* expectCallArgument: a string parameter takes an enumeration too.
Fits(t, kind) == t.kind = kind /\ (kind = "string" \/ t.enum = {})

\* MUTANT of CallAccepts: a function that is not registered may be called.
CallAcceptsUnknown(functions, f, args) ==
    LET params == Signature(functions, f).args
    IN  /\ Len(args) = Len(params)
        /\ \A i \in DOMAIN params : Fits(args[i], params[i])

CallAccepts(functions, f, args) ==
    /\ f \in Callable(functions)
    /\ LET params == Signature(functions, f).args
       IN  /\ Len(args) = Len(params)
           /\ \A i \in DOMAIN params : Fits(args[i], params[i])

\* typeChecker.check for one node, from the types of its operands and the last
\* of them, right; names are the variables in scope.
CheckedType(node, arg, right, names, functions) ==
    LET Accept(ok, type) == IF ok THEN type ELSE Unknown
    IN  CASE node.op \in DOMAIN LiteralType -> Type(LiteralType[node.op])
          [] node.op = "Identifier" ->
                 Accept(node.tok \in names, VariableType(node.tok))
          [] node.op = "Prefix" ->
                 Accept(node.tok = "!" /\ Is(arg[1], {"boolean"}),
                        Type("boolean"))
          [] node.op = "Infix" ->
                 Accept(InfixAccepts(node.tok, arg[1], arg[2], right),
                        Type("boolean"))
          [] node.op = "Ternary" ->
                 Accept(Is(arg[1], {"boolean"}),
                        CompatibleType(arg[2], arg[3], right))
          [] node.op = "Call" ->
                 Accept(CallAccepts(functions, node.tok, arg),
                        Type(Signature(functions, node.tok).ret))
          [] OTHER -> Accept(\A k \in DOMAIN arg : Is(arg[k], {"string"}),
                             Type("array"))

\* ... and for node n of t, from the types ty of the nodes before it.
CheckNode(t, n, ty, names, functions) ==
    CheckedType(t[n], [k \in DOMAIN t[n].kids |-> ty[t[n].kids[k]]],
                t[t[n].kids[Len(t[n].kids)]], names, functions)

\* Unknown as soon as one node below is refused.
NodeType(t, n, types, names, functions) ==
    IF \E k \in DOMAIN t[n].kids : types[t[n].kids[k]] = Unknown
    THEN Unknown ELSE CheckNode(t, n, types, names, functions)

\* The types of all the nodes, and that of the root.
Types(t, names, functions) ==
    LET types[n \in DOMAIN t] == NodeType(t, n, types, names, functions)
    IN  types

TypeOf(t, names, functions) == Types(t, names, functions)[Len(t)]

\* validateEnvCalls: env and build.env take one argument, and a name that is
\* known before evaluation must be one that the server supports.
RefusedEnvName(node) ==
    IsStatic(node) /\ (\/ ~ValidEnvName(node.tok)
                       \/ UnsupportedBuildkiteEnv(node.tok))

ValidateEnvCalls(t) ==
    \A n \in DOMAIN t :
        (t[n].op = "Call" /\ t[n].tok \in {"env", "build.env"})
            => Len(t[n].kids) = 1 /\ ~RefusedEnvName(t[t[n].kids[1]])

CONSTANT StepNames  \* the identifiers of the instance that are step or step.*

ReferencesStep(t) ==
    \E n \in DOMAIN t : t[n].op \in {"Identifier", "Call"}
                        /\ t[n].tok \in StepNames
=============================================================================

-------------------------------- MODULE Shell --------------------------------
(***************************************************************************)
(* Shell-style substitution, internal/shell, over expansions that have     *)
(* been split into their parts: name, op, colon and word stand for         *)
(* ${name} (op ""), ${name-word}, ${name+word} and ${name?word}, or with a *)
(* colon ${name:-word} and so on.  The op "bad" stands for every text      *)
(* that EvalRaw refuses: an invalid operator, an unterminated quote, a     *)
(* substring whose bounds are not integers.  A word is a plain text.       *)
(***************************************************************************)
EXTENDS Object

Operators == {"", "?", "+", "-", "bad"}

\* A colon makes a variable that is set to the empty string count as unset.
EvalBraced(x, env) ==
    LET bound == x.name \in DOMAIN env
        set   == bound /\ (x.colon => env[x.name] # "")
    IN  CASE x.op = ""  -> IF bound THEN Str(env[x.name]) ELSE Null
          [] x.op = "?" -> IF set THEN Str(env[x.name]) ELSE Error("shell")
          [] x.op = "+" -> IF set THEN Str(x.word) ELSE Str("")
          [] x.op = "-" -> IF set THEN Str(env[x.name]) ELSE Str(x.word)
          [] OTHER      -> Error("shell")

\* A standalone operand: one that is unset evaluates to null.
EvalShellExpansion(x, env) == EvalBraced(x, env)

\* The same expansion inside a double-quoted string: unset adds nothing to it.
EvalString(x, env) ==
    LET r == EvalBraced(x, env) IN IF r = Null THEN Str("") ELSE r
=============================================================================

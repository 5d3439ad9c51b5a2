--------------------------- MODULE ConditionalAPI ---------------------------
(***************************************************************************)
(* What conditional.Validate and conditional.Evaluate promise: a reply in  *)
(* a single step, as a function of what an expression means.               *)
(*                                                                         *)
(* Verdict(c) is "" when the expression of call c is acceptable at its     *)
(* entry point, and otherwise the kind of the error; Meaning(c) is the set *)
(* of the values an acceptable expression may have in the context of c.    *)
(* True is the one of them that says yes.                                  *)
(***************************************************************************)
CONSTANTS Calls, Verdict(_), Meaning(_), True

VARIABLES request, answer

Nobody == [api |-> "none"]
Pending == [value |-> FALSE, err |-> "none"]
Says(value, err) == [value |-> value, err |-> err]

Notification(c) == c.entryPoint \in {"build_notification", "step_notification"}

Misused(c) == \/ ~c.options.ok
              \/ c.entryPoint \notin
                     {"", "build_condition", "build_condition_with_step",
                      "build_notification", "step_notification"}

\* Only the boolean true says yes; a null says no.
Outcome(v) == CASE v.kind = "BOOLEAN" -> Says(v = True, "")
                [] v.kind = "NULL"    -> Says(FALSE, "")
                [] OTHER              -> Says(FALSE, "evaluation")

Outcomes(c) == IF Verdict(c) # "" THEN {Says(FALSE, Verdict(c))}
               ELSE {Outcome(v) : v \in Meaning(c)}

Answers(c) ==
    CASE Misused(c) -> {Says(FALSE, "validation")}
      [] ~Misused(c) /\ c.api = "Validate" ->
             {Says(FALSE, IF c.expr.form = "blank" THEN "" ELSE Verdict(c))}
      [] ~Misused(c) /\ c.api = "Evaluate" /\ Notification(c) ->
             IF c.expr.form = "blank" THEN {Says(TRUE, "")}
             ELSE {Says(o.value, "") : o \in Outcomes(c)}
      [] OTHER -> Outcomes(c)

Init == request = Nobody /\ answer = Pending

Ask == /\ request = Nobody
       /\ request' \in Calls
       /\ UNCHANGED answer

Tell == /\ request # Nobody /\ answer = Pending
        /\ answer' \in Answers(request)
        /\ UNCHANGED request

Leave == /\ answer # Pending
         /\ request' = Nobody /\ answer' = Pending

Next == Ask \/ Tell \/ Leave

Spec == /\ Init /\ [][Next]_<<request, answer>>
        /\ WF_<<request, answer>>(Tell)
=============================================================================

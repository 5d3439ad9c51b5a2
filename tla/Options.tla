------------------------------- MODULE Options -------------------------------
(***************************************************************************)
(* WithFunction and NewEvaluator.  An Option is a closure over the name    *)
(* and the Function its caller gave; applying it checks them and then      *)
(* replaces the argument list it captured by a copy, so applications of    *)
(* one Option share that variable, on whatever goroutine they run.  The    *)
(* caller keeps the slice it passed and may write to it later.             *)
(*                                                                         *)
(*   slice[o]     the caller's slice of argument types                     *)
(*   captured[o]  the Args that o's closure holds: the caller's slice, or  *)
(*                a copy, which nobody writes to                           *)
(*   build[g]     the NewEvaluator that goroutine g runs, or ran last      *)
(***************************************************************************)
EXTENDS Names

CONSTANTS Goroutines,
          Option,      \* the options, by the name of each
          Lists,       \* what NewEvaluator is called with
          Types,       \* what the caller may write into its slices
          NilOption

ValueTypes == {"string", "number", "boolean", "null", "regular expression",
               "string array"}

\* MUTANT of IsValueType: types that are not of the language pass.
IsValueTypeOrOther(type) == type # ""

\* ValueType.internal succeeds.
IsValueType(type) == type \in ValueTypes

ASSUME OptionsAssumption ==
    /\ \A o \in DOMAIN Option :
           Option[o] \in [name : Seq(STRING), args : Seq(STRING),
                          ret : STRING, eval : BOOLEAN]
    /\ Lists \subseteq Seq(DOMAIN Option \cup {NilOption})
    /\ Types \subseteq STRING

VARIABLES slice, captured, build

ovars == <<slice, captured, build>>

\* The Args field of a Function: what it points to.
CallersSlice  == [shared |-> TRUE, args |-> <<>>]
PrivateCopy(args) == [shared |-> FALSE, args |-> args]

Contents(o, ref) == IF ref.shared THEN slice[o] ELSE ref.args

Opt(b)  == b.list[b.at]
At(g, pc) == build[g].pc = pc

OInit == /\ slice = [o \in DOMAIN Option |-> Option[o].args]
         /\ captured = [o \in DOMAIN Option |-> CallersSlice]
         /\ build = [g \in Goroutines |->
                       [pc |-> "idle", list |-> <<>>, at |-> 0, arg |-> 0,
                        ref |-> CallersSlice, read |-> <<>>,
                        functions |-> <<>>, err |-> FALSE]]

-----------------------------------------------------------------------------
(* A registered function is kept with the option it comes from.            *)

Function(o, ref) == [option |-> o, args |-> ref]

Names(functions) == {Option[functions[i].option].name :
                         i \in 1..Len(functions)}

Goto(g, pc) == build' = [build EXCEPT ![g].pc = pc]

\* What an application has read ends with it.
Forget(b) == [b EXCEPT !.arg = 0, !.ref = CallersSlice, !.read = <<>>]

\* MUTANT of Abort: the option that failed is tried again.
AbortAndRetry(g) == Goto(g, "next")

\* MUTANT of Abort: the functions registered before the error stay.
AbortInPlace(g) ==
    build' = [build EXCEPT ![g] = [Forget(@) EXCEPT !.pc = "built", !.err = TRUE]]

\* The first error ends the list; the evaluator has no functions.
Abort(g) ==
    build' = [build EXCEPT ![g] = [Forget(@) EXCEPT !.pc = "built", !.err = TRUE,
                                                    !.functions = <<>>]]

NewEvaluator(g, list) ==
    /\ build[g].pc \in {"idle", "built"}
    /\ build' = [build EXCEPT ![g].pc = "next", ![g].list = list,
                              ![g].at = 1, ![g].functions = <<>>,
                              ![g].err = FALSE]
    /\ UNCHANGED <<slice, captured>>

NextOption(g) ==
    /\ At(g, "next")
    /\ Goto(g, IF build[g].at > Len(build[g].list) THEN "built" ELSE "check")
    /\ UNCHANGED <<slice, captured>>

\* The checks of what no application changes.
CheckOption(g) ==
    /\ At(g, "check")
    /\ IF \/ Opt(build[g]) = NilOption
          \/ ~ValidFunctionName(Option[Opt(build[g])].name)
          \/ ReservedFunctionName(Option[Opt(build[g])].name)
          \/ ~Option[Opt(build[g])].eval
       THEN Abort(g) ELSE Goto(g, "signature")
    /\ UNCHANGED <<slice, captured>>

\* MUTANT of ArgsHeader: every application goes back to the caller's slice.
ArgsHeaderOfCaller(o) == CallersSlice

\* Where the closure's Args point when an application loads them.
ArgsHeader(o) == captured[o]

\* Function.signature works on a copy of the Function, whose Args still
\* point where the closure's do, and reads the types one after another.
LoadArgs(g, pc, next) ==
    /\ At(g, pc)
    /\ build' = [build EXCEPT ![g].pc = next, ![g].arg = 1, ![g].read = <<>>,
                              ![g].ref = ArgsHeader(Opt(build[g]))]
    /\ UNCHANGED <<slice, captured>>

LoadForSignature(g) == LoadArgs(g, "signature", "validate")

LoadForCopy(g) == LoadArgs(g, "copy", "copying")

ArgsRead(b) == b.arg > Len(Contents(Opt(b), b.ref))
Arg(b)      == Contents(Opt(b), b.ref)[b.arg]

ValidateArg(g) ==
    LET b == build[g]
    IN  /\ At(g, "validate")
        /\ CASE ~ArgsRead(b) /\ IsValueType(Arg(b)) ->
                    build' = [build EXCEPT ![g].arg = @ + 1]
             [] ArgsRead(b) /\ IsValueType(Option[Opt(b)].ret) ->
                    Goto(g, "copy")
             [] OTHER -> Abort(g)
        /\ UNCHANGED <<slice, captured>>

CopyArg(g) ==
    LET b == build[g]
    IN  /\ At(g, "copying")
        /\ ~ArgsRead(b)
        /\ build' = [build EXCEPT ![g].arg = @ + 1,
                                  ![g].read = Append(@, Arg(b))]
        /\ UNCHANGED <<slice, captured>>

\* MUTANT of Capture: no copy is made.
CaptureNothing(g) == UNCHANGED captured

\* function.Args = the copy
Capture(g) ==
    captured' = [captured EXCEPT ![Opt(build[g])] = PrivateCopy(build[g].read)]

StoreCopy(g) ==
    /\ At(g, "copying")
    /\ ArgsRead(build[g])
    /\ Capture(g)
    /\ Goto(g, "register")
    /\ UNCHANGED slice

\* The closure's variable is read once more.
Registered(b) == Function(Opt(b), captured[Opt(b)])

Register(g) ==
    LET b == build[g]
    IN  /\ At(g, "register")
        /\ IF Option[Opt(b)].name \in Names(b.functions) THEN Abort(g)
           ELSE build' = [build EXCEPT ![g] = [Forget(b) EXCEPT
                              !.pc = "next", !.at = @ + 1,
                              !.functions = Append(@, Registered(b))]]
        /\ UNCHANGED <<slice, captured>>

\* The caller may write to its slice while no application runs: a write
\* beside one is a race the library cannot see.
Quiet == \A g \in Goroutines : build[g].pc \in {"idle", "built"}

WriteSlice(o) ==
    /\ Quiet
    /\ \E i \in 1..Len(slice[o]), type \in Types :
           slice' = [slice EXCEPT ![o][i] = type]
    /\ UNCHANGED <<captured, build>>

-----------------------------------------------------------------------------
Step(g) ==
    \/ NextOption(g) \/ CheckOption(g) \/ LoadForSignature(g)
    \/ ValidateArg(g) \/ LoadForCopy(g) \/ CopyArg(g) \/ StoreCopy(g)
    \/ Register(g)

ONext == \/ \E g \in Goroutines : \/ \E list \in Lists : NewEvaluator(g, list)
                                 \/ Step(g)
         \/ \E o \in DOMAIN Option : WriteSlice(o)

\* A goroutine that is inside NewEvaluator goes on running.
OSpec == OInit /\ [][ONext]_ovars /\ \A g \in Goroutines : WF_ovars(Step(g))

-----------------------------------------------------------------------------
(* Properties                                                              *)

Built(g) == At(g, "built") /\ ~build[g].err

Signature(f) == Contents(f.option, f.args)

\* NewEvaluator returns all the functions of its options, each under a name
\* of its own, or an error and none of them.
AllOrNothing ==
    \A g \in Goroutines :
        LET fs == build[g].functions
        IN  At(g, "built") =>
                /\ build[g].err => fs = <<>>
                /\ ~build[g].err =>
                       /\ Len(fs) = Len(build[g].list)
                       /\ \A i \in 1..Len(fs) : fs[i].option = build[g].list[i]
                       /\ \A i, j \in 1..Len(fs) :
                              Option[fs[i].option].name = Option[fs[j].option].name
                                  => i = j

\* A registered function has a signature: functionTypes (typecheck.go:307)
\* skips the ones that have none, and their calls would be of unknown names.
RegisteredIsValid ==
    \A g \in Goroutines :
        At(g, "built") =>
            \A i \in 1..Len(build[g].functions) :
                LET types == Signature(build[g].functions[i])
                IN  \A k \in 1..Len(types) : types[k] \in ValueTypes

\* Evaluators made from one Option have one signature for it, whenever and
\* on whatever goroutine they were made, and whatever the caller has done to
\* its slice in between.
OneSignaturePerOption ==
    \A g, h \in Goroutines :
        Built(g) /\ Built(h) =>
            \A i \in 1..Len(build[g].functions),
               j \in 1..Len(build[h].functions) :
                LET f == build[g].functions[i]
                    k == build[h].functions[j]
                IN  f.option = k.option => Signature(f) = Signature(k)

Signatures(g) == [i \in 1..Len(build[g].functions) |->
                     Signature(build[g].functions[i])]

\* An evaluator keeps its signatures: what Validate accepted with it does not
\* become a type error because the caller reuses its slice.
SignaturesAreStable ==
    [][\A g \in Goroutines :
          Built(g) /\ build'[g] = build[g] => Signatures(g)' = Signatures(g)]_ovars

\* Every NewEvaluator returns.
EveryBuildReturns ==
    \A g \in Goroutines : (build[g].pc = "next") ~> At(g, "built")
=============================================================================

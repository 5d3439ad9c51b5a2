---------------------------- MODULE OptionsProofs ----------------------------
(***************************************************************************)
(* Proofs about the registration of functions, for any number of           *)
(* goroutines, options and calls of NewEvaluator.                          *)
(*                                                                         *)
(* The heart of the invariant is that the variable an option captures      *)
(* changes once: every copy made after the first is a copy of a copy, or   *)
(* one of a slice that nobody has written to since the first was made.     *)
(***************************************************************************)
EXTENDS Options, TLAPS

Pcs == {"idle", "next", "check", "signature", "validate", "copy", "copying",
        "register", "built"}

\* Where an argument list may be.
Ref == [shared : BOOLEAN, args : Seq(STRING)]

Registration == [option : DOMAIN Option, args : Ref]

Build == [pc : Pcs, list : Seq(DOMAIN Option \cup {NilOption}), at : Nat,
          arg : Nat, ref : Ref, read : Seq(STRING),
          functions : Seq(Registration), err : BOOLEAN]

OTypeOK == /\ slice \in [DOMAIN Option -> Seq(STRING)]
           /\ captured \in [DOMAIN Option -> Ref]
           /\ build \in [Goroutines -> Build]

Active == {"signature", "validate", "copy", "copying", "register"}

\* A goroutine that applies an option applies one of its list.
Applying(b) == /\ b.pc \in Active \cup {"check"} => b.at \in 1..Len(b.list)
               /\ b.pc \in Active => Opt(b) \in DOMAIN Option

Valid(args) == \A k \in 1..Len(args) : IsValueType(args[k])

\* A copy is not the caller's, so it stays as it is.
CopyOf(o, ref) == ~ref.shared /\ captured[o] = ref

\* The functions that are registered have copies, those of their options.
FunctionsKept(b) ==
    \A i \in 1..Len(b.functions) :
        CopyOf(b.functions[i].option, b.functions[i].args)

CopiesAreValid ==
    \A o \in DOMAIN Option : ~captured[o].shared => Valid(captured[o].args)

\* What an application has loaded is the caller's list or the copy.
Loaded(b) ==
    b.pc \in {"validate", "copying"} =>
        /\ b.ref.shared \/ CopyOf(Opt(b), b.ref)
        /\ b.arg \in 1..(Len(Contents(Opt(b), b.ref)) + 1)

\* The types before the current one have been looked at.
Validated(b) ==
    b.pc = "validate" =>
        \A k \in 1..(b.arg - 1) : IsValueType(Contents(Opt(b), b.ref)[k])

\* The caller does not write while it is applied, so what was valid stays so.
Checked(b) ==
    b.pc = "copy" /\ captured[Opt(b)].shared => Valid(slice[Opt(b)])

\* A copy that is being made is one of what the captured copy, if there is
\* one by now, is a copy of.
Copying(b) ==
    b.pc = "copying" =>
        /\ b.ref.shared => /\ Valid(slice[Opt(b)])
                           /\ ~captured[Opt(b)].shared =>
                                  captured[Opt(b)].args = slice[Opt(b)]
        /\ b.read = SubSeq(Contents(Opt(b), b.ref), 1, b.arg - 1)

Copied(b) == b.pc = "register" => ~captured[Opt(b)].shared

\* One function for each option so far, and none of them after an error.
Progress(b) ==
    /\ b.pc \in Active \cup {"next", "check"} =>
           Len(b.functions) = b.at - 1 /\ b.at <= Len(b.list) + 1 /\ ~b.err
    /\ b.pc = "built" => IF b.err THEN b.functions = <<>>
                         ELSE Len(b.functions) = Len(b.list)

OwnNames(b) ==
    /\ \A i \in 1..Len(b.functions) : b.functions[i].option = b.list[i]
    /\ \A i, j \in 1..Len(b.functions) :
           Option[b.functions[i].option].name
               = Option[b.functions[j].option].name => i = j

BInv(b) == /\ Applying(b) /\ FunctionsKept(b) /\ Loaded(b) /\ Validated(b)
           /\ Checked(b) /\ Copying(b) /\ Copied(b)
           /\ Progress(b) /\ OwnNames(b)

OInv == OTypeOK /\ CopiesAreValid /\ \A g \in Goroutines : BInv(build[g])

-----------------------------------------------------------------------------
(* A step that only moves one goroutine.                                   *)

\* A step of g that leaves the slices and the captured variables alone keeps
\* the invariant when it keeps g's part of it.
LEMMA OwnStep ==
    ASSUME OInv, NEW g \in Goroutines, NEW b \in Build, BInv(b),
           build' = [build EXCEPT ![g] = b], UNCHANGED <<slice, captured>>
    PROVE  OInv'
<1>1. OTypeOK'
  BY DEF OInv, OTypeOK
<1>2. CopiesAreValid'
  BY DEF OInv, CopiesAreValid
<1>3. ASSUME NEW h \in Goroutines
      PROVE  BInv(build[h])'
  <2>1. build'[h] = IF h = g THEN b ELSE build[h]
    BY DEF OInv, OTypeOK
  <2>2. BInv(build'[h])
    BY <2>1 DEF OInv
  <2>3. Applying(build[h])' /\ Progress(build[h])' /\ OwnNames(build[h])'
    BY <2>2 DEF BInv, Applying, Progress, OwnNames, Opt
  <2>4. FunctionsKept(build[h])' /\ Copied(build[h])'
    BY <2>2 DEF BInv, FunctionsKept, Copied, CopyOf, Opt
  <2>5. Loaded(build[h])' /\ Validated(build[h])'
    BY <2>2 DEF BInv, Loaded, Validated, CopyOf, Opt, Contents
  <2>6. Checked(build[h])'
    BY <2>2 DEF BInv, Checked, Valid, Opt
  <2>7. Copying(build[h])'
    <3>1. Copying(build'[h])
      BY <2>2 DEF BInv
    <3>2. Opt(build[h])' = Opt(build'[h])
      BY DEF Opt
    <3>3. Contents(Opt(build[h]), build[h].ref)'
            = Contents(Opt(build'[h]), build'[h].ref)
      BY DEF Opt, Contents
    <3>4. Valid(slice[Opt(build[h])])' <=> Valid(slice[Opt(build'[h])])
      BY DEF Opt, Valid
    <3> QED
      BY <3>1, <3>2, <3>3, <3>4 DEF Copying
  <2> QED
    BY <2>3, <2>4, <2>5, <2>6, <2>7 DEF BInv
<1> QED
  BY <1>1, <1>2, <1>3 DEF OInv

\* The argument list an application has loaded is a list of types.
LEMMA ContentsType ==
    ASSUME OTypeOK, NEW o \in DOMAIN Option, NEW ref \in Ref
    PROVE  Contents(o, ref) \in Seq(STRING)
  BY DEF OTypeOK, Contents, Ref

LEMMA InitInv == OInit => OInv
<1> SUFFICES ASSUME OInit PROVE OInv
  OBVIOUS
<1>1. OTypeOK
  BY OptionsAssumption
     DEF OInit, OTypeOK, Ref, Build, Pcs, CallersSlice
<1>2. CopiesAreValid
  BY DEF OInit, CopiesAreValid, CallersSlice
<1>3. ASSUME NEW g \in Goroutines
      PROVE  BInv(build[g])
  BY DEF OInit, BInv, Applying, FunctionsKept, Loaded, Validated, Checked,
         Copying, Copied, Progress, OwnNames, Active
<1> QED
  BY <1>1, <1>2, <1>3 DEF OInv

LEMMA NewEvaluatorInv ==
    ASSUME OInv, NEW g \in Goroutines, NEW list \in Lists,
           NewEvaluator(g, list)
    PROVE  OInv'
<1> DEFINE b == [build[g] EXCEPT !.pc = "next", !.list = list, !.at = 1,
                                 !.functions = <<>>, !.err = FALSE]
<1>1. build[g] \in Build
  BY DEF OInv, OTypeOK
<1>2. list \in Seq(DOMAIN Option \cup {NilOption})
  BY OptionsAssumption
<1>3. b \in Build
  <2>1. <<>> \in Seq(Registration)
    OBVIOUS
  <2> QED
    BY <1>1, <1>2, <2>1 DEF Build, Pcs
<1>4. build' = [build EXCEPT ![g] = b]
  BY <1>1 DEF NewEvaluator, OInv, OTypeOK, Build
<1>5. BInv(b)
  BY <1>1, <1>2 DEF BInv, Applying, FunctionsKept, Loaded, Validated, Checked,
         Copying, Copied, Progress, OwnNames, Active, Build
<1> QED
  BY <1>3, <1>4, <1>5, OwnStep DEF NewEvaluator

LEMMA GotoStep ==
    ASSUME OInv, NEW g \in Goroutines, NEW pc \in Pcs, Goto(g, pc)
    PROVE  LET b == [build[g] EXCEPT !.pc = pc]
           IN  b \in Build /\ build' = [build EXCEPT ![g] = b]
  BY DEF Goto, OInv, OTypeOK, Build

LEMMA AbortInv ==
    ASSUME OInv, NEW g \in Goroutines, Abort(g), UNCHANGED <<slice, captured>>
    PROVE  OInv'
<1> DEFINE b == [Forget(build[g]) EXCEPT !.pc = "built", !.err = TRUE,
                                         !.functions = <<>>]
<1>1. build[g] \in Build
  BY DEF OInv, OTypeOK
<1>2. b \in Build
  <2>1. <<>> \in Seq(Registration) /\ <<>> \in Seq(STRING)
    OBVIOUS
  <2>2. Forget(build[g]) \in Build
    BY <1>1, <2>1 DEF Build, Forget, Ref, CallersSlice
  <2> QED
    BY <2>1, <2>2 DEF Build, Pcs
<1>3. build' = [build EXCEPT ![g] = b]
  BY DEF Abort
<1>4. BInv(b)
  BY <1>1 DEF BInv, Applying, FunctionsKept, Loaded, Validated, Checked,
         Copying, Copied, Progress, OwnNames, Active, Build, Forget
<1> QED
  BY <1>2, <1>3, <1>4, OwnStep

LEMMA NextOptionInv ==
    ASSUME OInv, NEW g \in Goroutines, NextOption(g)
    PROVE  OInv'
<1> DEFINE pc == IF build[g].at > Len(build[g].list) THEN "built" ELSE "check"
           b  == [build[g] EXCEPT !.pc = pc]
<1>1. build[g] \in Build /\ build[g].pc = "next" /\ BInv(build[g])
  BY DEF OInv, OTypeOK, NextOption, At
<1>2. b \in Build /\ build' = [build EXCEPT ![g] = b]
  BY GotoStep DEF NextOption, Pcs
<1>3. Applying(b) /\ Progress(b)
  BY <1>1 DEF Applying, BInv, Progress, Active, Build
<1>4. BInv(b)
  BY <1>1, <1>3 DEF BInv, FunctionsKept, Loaded, Validated, Checked,
         Copying, Copied, OwnNames, Build
<1> QED
  BY <1>2, <1>4, OwnStep DEF NextOption

LEMMA CheckOptionInv ==
    ASSUME OInv, NEW g \in Goroutines, CheckOption(g)
    PROVE  OInv'
<1> DEFINE b == [build[g] EXCEPT !.pc = "signature"]
<1>1. build[g] \in Build /\ build[g].pc = "check" /\ BInv(build[g])
  BY DEF OInv, OTypeOK, CheckOption, At
<1>2. CASE Abort(g)
  BY <1>2, AbortInv DEF CheckOption
<1>3. CASE Opt(build[g]) # NilOption /\ Goto(g, "signature")
  <2>1. b \in Build /\ build' = [build EXCEPT ![g] = b]
    BY <1>3, GotoStep DEF Pcs
  <2>2. Opt(build[g]) \in DOMAIN Option
    BY <1>1, <1>3 DEF Opt, Build, BInv, Applying
  <2>3. BInv(b)
    BY <1>1, <2>2 DEF BInv, Applying, FunctionsKept, Loaded, Validated,
           Checked, Copying, Copied, Progress, OwnNames, Active, Build, Opt
  <2> QED
    BY <2>1, <2>3, OwnStep DEF CheckOption
<1> QED
  BY <1>2, <1>3 DEF CheckOption

LEMMA LoadForSignatureInv ==
    ASSUME OInv, NEW g \in Goroutines, LoadForSignature(g)
    PROVE  OInv'
<1> DEFINE o == Opt(build[g])
           b == [build[g] EXCEPT !.pc = "validate", !.arg = 1, !.read = <<>>,
                                 !.ref = captured[o]]
<1>1. build[g] \in Build /\ build[g].pc = "signature" /\ BInv(build[g])
  BY DEF OInv, OTypeOK, LoadForSignature, LoadArgs, At
<1>2. o \in DOMAIN Option /\ captured[o] \in Ref
  BY <1>1 DEF BInv, Applying, Active, OInv, OTypeOK
<1>3. b \in Build
  <2>1. <<>> \in Seq(STRING)
    OBVIOUS
  <2> QED
    BY <1>1, <1>2, <2>1 DEF Build, Pcs
<1>4. build' = [build EXCEPT ![g] = b]
  BY <1>1 DEF LoadForSignature, LoadArgs, ArgsHeader, OInv, OTypeOK, Build
<1>5. Opt(b) = o
  BY <1>1 DEF Opt, Build
<1>6. Loaded(b) /\ Validated(b)
  <2>1. Contents(o, captured[o]) \in Seq(STRING)
    BY <1>2, ContentsType DEF OInv
  <2> QED
    BY <1>1, <1>2, <1>5, <2>1 DEF Loaded, Validated, CopyOf, Build
<1>7. BInv(b)
  BY <1>1, <1>5, <1>6
     DEF BInv, Applying, FunctionsKept, Checked, Copying, Copied, Progress,
         OwnNames, Active, Build
<1> QED
  BY <1>3, <1>4, <1>7, OwnStep DEF LoadForSignature, LoadArgs

LEMMA LoadForCopyInv ==
    ASSUME OInv, NEW g \in Goroutines, LoadForCopy(g)
    PROVE  OInv'
<1> DEFINE o == Opt(build[g])
           b == [build[g] EXCEPT !.pc = "copying", !.arg = 1, !.read = <<>>,
                                 !.ref = captured[o]]
<1>1. build[g] \in Build /\ build[g].pc = "copy" /\ BInv(build[g])
  BY DEF OInv, OTypeOK, LoadForCopy, LoadArgs, At
<1>2. o \in DOMAIN Option /\ captured[o] \in Ref
  BY <1>1 DEF BInv, Applying, Active, OInv, OTypeOK
<1>3. b \in Build
  <2>1. <<>> \in Seq(STRING)
    OBVIOUS
  <2> QED
    BY <1>1, <1>2, <2>1 DEF Build, Pcs
<1>4. build' = [build EXCEPT ![g] = b]
  BY <1>1 DEF LoadForCopy, LoadArgs, ArgsHeader, OInv, OTypeOK, Build
<1>5. Opt(b) = o /\ b.ref = captured[o] /\ b.arg = 1 /\ b.read = <<>>
  BY <1>1 DEF Opt, Build
<1>6. Contents(o, captured[o]) \in Seq(STRING)
  BY <1>2, ContentsType DEF OInv
<1>7. Loaded(b)
  BY <1>1, <1>2, <1>5, <1>6 DEF Loaded, CopyOf, Build
<1>8. Copying(b)
  <2>1. captured[o].shared => Valid(slice[o])
    BY <1>1 DEF BInv, Checked
  <2>2. SubSeq(Contents(o, captured[o]), 1, 0) = <<>>
    BY <1>6
  <2> QED
    BY <1>5, <2>1, <2>2 DEF Copying
<1>9. BInv(b)
  BY <1>1, <1>5, <1>7, <1>8
     DEF BInv, Applying, FunctionsKept, Validated, Checked, Copied, Progress,
         OwnNames, Active, Build
<1> QED
  BY <1>3, <1>4, <1>9, OwnStep DEF LoadForCopy, LoadArgs

LEMMA ValidateArgInv ==
    ASSUME OInv, NEW g \in Goroutines, ValidateArg(g)
    PROVE  OInv'
<1> DEFINE o == Opt(build[g])
           types == Contents(o, build[g].ref)
<1>1. build[g] \in Build /\ build[g].pc = "validate" /\ BInv(build[g])
  BY DEF OInv, OTypeOK, ValidateArg, At
<1>2. o \in DOMAIN Option
  BY <1>1 DEF BInv, Applying, Active
<1>3. types \in Seq(STRING)
  BY <1>1, <1>2, ContentsType DEF OInv, Build
<1>4. /\ build[g].ref.shared \/ CopyOf(o, build[g].ref)
      /\ build[g].arg \in 1..(Len(types) + 1)
      /\ \A k \in 1..(build[g].arg - 1) : IsValueType(types[k])
  BY <1>1 DEF BInv, Loaded, Validated
<1>5. CASE /\ ~ArgsRead(build[g]) /\ IsValueType(Arg(build[g]))
           /\ build' = [build EXCEPT ![g].arg = @ + 1]
  <2> DEFINE b == [build[g] EXCEPT !.arg = @ + 1]
  <2>1. b \in Build
    <3>1. build[g].arg + 1 \in Nat
      BY <1>4
    <3> QED
      BY <1>1, <3>1 DEF Build
  <2>6. build' = [build EXCEPT ![g] = b]
    BY <1>1, <1>5 DEF Build, OInv, OTypeOK
  <2>2. /\ Opt(b) = o /\ b.ref = build[g].ref /\ b.arg = build[g].arg + 1
        /\ b.pc = "validate"
    BY <1>1 DEF Opt, Build
  <2>3. build[g].arg <= Len(types) /\ IsValueType(types[build[g].arg])
    BY <1>3, <1>4, <1>5 DEF ArgsRead, Arg
  <2>4. Loaded(b) /\ Validated(b)
    <3>1. Len(types) \in Nat /\ build[g].arg \in Nat
      BY <1>1, <1>3 DEF Build
    <3>2. \A k \in 1..build[g].arg : IsValueType(types[k])
      BY <1>4, <2>3, <3>1
    <3> QED
      BY <1>4, <2>2, <2>3, <3>1, <3>2 DEF Loaded, Validated
  <2>5. BInv(b)
    BY <1>1, <2>2, <2>4
       DEF BInv, Applying, FunctionsKept, Checked, Copying, Copied, Progress,
           OwnNames, Active, Build
  <2> QED
    BY <2>1, <2>5, <2>6, OwnStep DEF ValidateArg
<1>6. CASE ArgsRead(build[g]) /\ Goto(g, "copy")
  <2> DEFINE b == [build[g] EXCEPT !.pc = "copy"]
  <2>1. b \in Build /\ build' = [build EXCEPT ![g] = b]
    BY <1>6, GotoStep DEF Pcs
  <2>2. Opt(b) = o /\ b.pc = "copy"
    BY <1>1 DEF Opt, Build
  <2>3. Checked(b)
    <3>1. SUFFICES ASSUME captured[o].shared PROVE Valid(slice[o])
      BY <2>2 DEF Checked
    <3>2. build[g].ref.shared
      BY <1>4, <3>1 DEF CopyOf
    <3>3. types = slice[o]
      BY <3>2 DEF Contents
    <3>4. build[g].arg = Len(types) + 1
      BY <1>3, <1>4, <1>6 DEF ArgsRead
    <3> QED
      BY <1>3, <1>4, <3>3, <3>4 DEF Valid
  <2>4. BInv(b)
    BY <1>1, <2>2, <2>3
       DEF BInv, Applying, FunctionsKept, Loaded, Validated, Copying, Copied,
           Progress, OwnNames, Active, Build
  <2> QED
    BY <2>1, <2>4, OwnStep DEF ValidateArg
<1>7. CASE Abort(g)
  BY <1>7, AbortInv DEF ValidateArg
<1> QED
  BY <1>5, <1>6, <1>7 DEF ValidateArg

LEMMA CopyArgInv ==
    ASSUME OInv, NEW g \in Goroutines, CopyArg(g)
    PROVE  OInv'
<1> DEFINE o == Opt(build[g])
           types == Contents(o, build[g].ref)
           n == build[g].arg
           b == [build[g] EXCEPT !.arg = n + 1,
                                 !.read = Append(build[g].read, types[n])]
<1>1. build[g] \in Build /\ build[g].pc = "copying" /\ BInv(build[g])
  BY DEF OInv, OTypeOK, CopyArg, At
<1>2. o \in DOMAIN Option
  BY <1>1 DEF BInv, Applying, Active
<1>3. types \in Seq(STRING)
  BY <1>1, <1>2, ContentsType DEF OInv, Build
<1>4. n \in 1..Len(types)
  BY <1>1, <1>3 DEF CopyArg, ArgsRead, BInv, Loaded, Build
<1>5. b \in Build
  <2>1. Append(build[g].read, types[n]) \in Seq(STRING)
    BY <1>1, <1>3, <1>4 DEF Build
  <2>2. n + 1 \in Nat
    BY <1>4
  <2> QED
    BY <1>1, <2>1, <2>2 DEF Build
<1>6. build' = [build EXCEPT ![g] = b]
  BY <1>1 DEF CopyArg, Arg, OInv, OTypeOK, Build
<1>7. /\ Opt(b) = o /\ b.ref = build[g].ref /\ b.arg = n + 1
      /\ b.read = Append(build[g].read, types[n]) /\ b.pc = "copying"
  BY <1>1 DEF Opt, Build
<1>8. Append(SubSeq(types, 1, n - 1), types[n]) = SubSeq(types, 1, n)
  BY <1>3, <1>4
<1>9. Loaded(b) /\ Copying(b)
  <2>1. Len(types) \in Nat
    BY <1>3
  <2>2. build[g].read = SubSeq(types, 1, n - 1)
    BY <1>1 DEF BInv, Copying
  <2>3. b.read = SubSeq(Contents(Opt(b), b.ref), 1, b.arg - 1)
    <3>1. Contents(Opt(b), b.ref) = types
      BY <1>7
    <3>2. b.arg - 1 = n
      BY <1>4, <1>7
    <3> QED
      BY <1>7, <1>8, <2>2, <3>1, <3>2
  <2>4. /\ build[g].ref.shared \/ CopyOf(o, build[g].ref)
        /\ build[g].ref.shared => /\ Valid(slice[o])
                                  /\ ~captured[o].shared =>
                                         captured[o].args = slice[o]
    BY <1>1 DEF BInv, Loaded, Copying
  <2> HIDE DEF b
  <2>5. Loaded(b)
    BY <1>4, <1>7, <2>1, <2>4 DEF Loaded
  <2> QED
    BY <1>7, <2>3, <2>4, <2>5 DEF Copying
<1>10. BInv(b)
  BY <1>1, <1>7, <1>9
     DEF BInv, Applying, FunctionsKept, Validated, Checked, Copied, Progress,
         OwnNames, Active, Build
<1> QED
  BY <1>5, <1>6, <1>10, OwnStep DEF CopyArg

LEMMA RegisterInv ==
    ASSUME OInv, NEW g \in Goroutines, Register(g)
    PROVE  OInv'
<1> DEFINE o == Opt(build[g])
           f == Registered(build[g])
           old == build[g].functions
           b == [Forget(build[g]) EXCEPT !.pc = "next",
                                         !.at = build[g].at + 1,
                                         !.functions = Append(old, f)]
<1>1. build[g] \in Build /\ build[g].pc = "register" /\ BInv(build[g])
  BY DEF OInv, OTypeOK, Register, At
<1>2. CASE Abort(g)
  BY <1>2, AbortInv DEF Register
<1>3. CASE Option[o].name \notin Names(old)
  <2>1. /\ o \in DOMAIN Option /\ captured[o] \in Ref
        /\ o = build[g].list[build[g].at]
    BY <1>1 DEF BInv, Applying, Active, OInv, OTypeOK, Opt
  <2>2. f \in Registration /\ f.option = o /\ f.args = captured[o]
    BY <2>1 DEF Registered, Function, Registration
  <2>3. /\ old \in Seq(Registration) /\ Append(old, f) \in Seq(Registration)
        /\ build[g].at + 1 \in Nat /\ <<>> \in Seq(STRING)
    BY <1>1, <2>2 DEF Build
  <2>4. Forget(build[g]) \in Build
    BY <1>1, <2>3 DEF Build, Forget, Ref, CallersSlice
  <2>5. b \in Build
    BY <2>3, <2>4 DEF Build, Pcs
  <2>6. build' = [build EXCEPT ![g] = b]
    BY <1>1, <1>3 DEF Register, Forget, Build
  <2>7. /\ b.list = build[g].list /\ b.at = build[g].at + 1 /\ b.pc = "next"
        /\ b.functions = Append(old, f) /\ b.err = build[g].err
    BY <1>1 DEF Forget, Build
  <2> HIDE DEF b, f
  <2>8. /\ Len(Append(old, f)) = Len(old) + 1 /\ Len(old) \in Nat
        /\ \A i \in 1..Len(old) : Append(old, f)[i] = old[i]
        /\ Append(old, f)[Len(old) + 1] = f
    BY <2>3, <2>2
  <2>9. Len(old) = build[g].at - 1 /\ build[g].at \in 1..Len(build[g].list)
    BY <1>1 DEF BInv, Applying, Active, Progress
  <2>10. FunctionsKept(b)
    <3>1. CopyOf(o, captured[o])
      BY <1>1 DEF BInv, Copied, CopyOf
    <3>2. \A i \in 1..Len(old) : CopyOf(old[i].option, old[i].args)
      BY <1>1 DEF BInv, FunctionsKept
    <3> QED
      BY <2>2, <2>7, <2>8, <3>1, <3>2 DEF FunctionsKept
  <2>11. Progress(b)
    BY <1>1, <2>7, <2>8, <2>9 DEF BInv, Progress, Active, Build
  <2>12. OwnNames(b)
    <3>1. \A i \in 1..Len(old) : Option[old[i].option].name # Option[o].name
      BY <1>3 DEF Names
    <3>2. /\ \A i \in 1..Len(old) : old[i].option = build[g].list[i]
          /\ \A i, j \in 1..Len(old) :
                 Option[old[i].option].name = Option[old[j].option].name => i = j
      BY <1>1 DEF BInv, OwnNames
    <3>3. \A i \in 1..Len(b.functions) : b.functions[i].option = b.list[i]
      BY <2>1, <2>2, <2>7, <2>8, <2>9, <3>2, SMTT(20)
    <3>4. ASSUME NEW i \in 1..Len(b.functions), NEW j \in 1..Len(b.functions),
                 Option[b.functions[i].option].name
                     = Option[b.functions[j].option].name
          PROVE  i = j
      <4>1. /\ i \in 1..Len(old) \/ i = Len(old) + 1
            /\ j \in 1..Len(old) \/ j = Len(old) + 1
        BY <2>7, <2>8
      <4>2. CASE i \in 1..Len(old) /\ j \in 1..Len(old)
        BY <2>7, <2>8, <3>2, <3>4, <4>2, SMTT(20)
      <4>3. CASE i = Len(old) + 1 /\ j \in 1..Len(old)
        BY <2>2, <2>7, <2>8, <3>1, <3>4, <4>3
      <4>4. CASE i \in 1..Len(old) /\ j = Len(old) + 1
        BY <2>2, <2>7, <2>8, <3>1, <3>4, <4>4
      <4> QED
        BY <4>1, <4>2, <4>3, <4>4
    <3> QED
      BY <3>3, <3>4 DEF OwnNames
  <2>13. Applying(b) /\ Loaded(b) /\ Validated(b) /\ Checked(b)
            /\ Copying(b) /\ Copied(b)
    BY <2>7 DEF Applying, Active, Loaded, Validated, Checked, Copying, Copied
  <2>14. BInv(b)
    BY <2>10, <2>11, <2>12, <2>13 DEF BInv
  <2> QED
    BY <2>5, <2>6, <2>14, OwnStep DEF Register
<1> QED
  BY <1>2, <1>3 DEF Register

-----------------------------------------------------------------------------
(* The step that several goroutines may make of one option.                *)

\* A variable that holds a copy is not changed by storing a second one.
LEMMA CopyIsStored ==
    ASSUME OInv, NEW g \in Goroutines, StoreCopy(g)
    PROVE  LET o == Opt(build[g])
               types == build[g].read
           IN  /\ o \in DOMAIN Option
               /\ types \in Seq(STRING) /\ Valid(types)
               /\ captured' = [captured EXCEPT ![o] = PrivateCopy(types)]
               /\ ~captured[o].shared => captured' = captured
               /\ captured[o].shared => types = slice[o]
<1> DEFINE o == Opt(build[g])
           ref == build[g].ref
           types == Contents(o, ref)
<1>1. build[g] \in Build /\ build[g].pc = "copying" /\ BInv(build[g])
  BY DEF OInv, OTypeOK, StoreCopy, At
<1>2. o \in DOMAIN Option /\ captured[o] \in Ref /\ ref \in Ref
  BY <1>1 DEF BInv, Applying, Active, OInv, OTypeOK, Build
<1>3. types \in Seq(STRING)
  BY <1>2, ContentsType DEF OInv
<1>4. build[g].arg = Len(types) + 1
  BY <1>1, <1>3 DEF StoreCopy, ArgsRead, BInv, Loaded, Build
<1>5. build[g].read = types
  <2>1. build[g].read = SubSeq(types, 1, build[g].arg - 1)
    BY <1>1 DEF BInv, Copying
  <2>2. build[g].arg - 1 = Len(types)
    BY <1>3, <1>4
  <2> QED
    BY <1>3, <2>1, <2>2
<1>6. captured' = [captured EXCEPT ![o] = PrivateCopy(build[g].read)]
  BY DEF StoreCopy, Capture
<1>7. CASE ref.shared
  <2>1. /\ types = slice[o] /\ Valid(slice[o])
        /\ ~captured[o].shared => captured[o].args = slice[o]
    BY <1>1, <1>7 DEF BInv, Copying, Contents
  <2>2. ~captured[o].shared => captured[o] = PrivateCopy(types)
    BY <1>2, <2>1 DEF Ref, PrivateCopy
  <2>3. ~captured[o].shared => captured' = captured
    BY <1>2, <1>5, <1>6, <2>2 DEF OInv, OTypeOK
  <2> QED
    BY <1>2, <1>3, <1>5, <1>6, <2>1, <2>3
<1>8. CASE ~ref.shared
  <2>1. captured[o] = ref /\ types = ref.args
    BY <1>1, <1>8 DEF BInv, Loaded, CopyOf, Contents
  <2>2. Valid(types)
    BY <1>2, <1>8, <2>1 DEF OInv, CopiesAreValid
  <2>3. captured[o] = PrivateCopy(types)
    BY <1>2, <1>8, <2>1 DEF Ref, PrivateCopy
  <2>4. captured' = captured
    BY <1>2, <1>5, <1>6, <2>3 DEF OInv, OTypeOK
  <2> QED
    BY <1>2, <1>3, <1>5, <1>6, <1>8, <2>1, <2>2, <2>4
<1> QED
  BY <1>7, <1>8

LEMMA StoreCopyInv ==
    ASSUME OInv, NEW g \in Goroutines, StoreCopy(g)
    PROVE  OInv'
<1> DEFINE o == Opt(build[g])
           types == build[g].read
           b == [build[g] EXCEPT !.pc = "register"]
<1>1. build[g] \in Build /\ build[g].pc = "copying" /\ BInv(build[g])
  BY DEF OInv, OTypeOK, StoreCopy, At
<1>2. /\ o \in DOMAIN Option /\ types \in Seq(STRING) /\ Valid(types)
      /\ captured' = [captured EXCEPT ![o] = PrivateCopy(types)]
      /\ ~captured[o].shared => captured' = captured
      /\ captured[o].shared => types = slice[o]
  BY CopyIsStored
<1>3. captured \in [DOMAIN Option -> Ref] /\ slice' = slice
  BY DEF OInv, OTypeOK, StoreCopy
<1>4. captured' \in [DOMAIN Option -> Ref]
  <2>1. PrivateCopy(types) \in Ref
    BY <1>2 DEF PrivateCopy, Ref
  <2> QED
    BY <1>2, <1>3, <2>1
<1>5. b \in Build /\ build' = [build EXCEPT ![g] = b]
  BY GotoStep DEF StoreCopy, Pcs
<1>6. OTypeOK'
  BY <1>3, <1>4, <1>5 DEF OInv, OTypeOK
<1>7. ~captured'[o].shared /\ captured'[o].args = types
  BY <1>2, <1>3 DEF PrivateCopy
<1>8. ASSUME NEW x \in DOMAIN Option
      PROVE  /\ ~captured[x].shared => captured'[x] = captured[x]
             /\ ~captured'[x].shared =>
                    \/ ~captured[x].shared
                    \/ Valid(captured'[x].args) /\ captured'[x].args = slice[x]
  BY <1>2, <1>3, <1>7
<1>9. CopiesAreValid'
  BY <1>8 DEF OInv, CopiesAreValid
<1>10. ASSUME NEW h \in Goroutines
       PROVE  BInv(build[h])'
  <2>1. build'[h] = IF h = g THEN b ELSE build[h]
    BY <1>5 DEF OInv, OTypeOK
  <2>2. build[h] \in Build /\ BInv(build[h])
    BY DEF OInv, OTypeOK
  <2>3. /\ build'[h].list = build[h].list /\ build'[h].at = build[h].at
        /\ build'[h].functions = build[h].functions
        /\ build'[h].ref = build[h].ref /\ build'[h].arg = build[h].arg
        /\ build'[h].read = build[h].read /\ build'[h].err = build[h].err
        /\ build'[h].pc = IF h = g THEN "register" ELSE build[h].pc
    BY <1>1, <2>1, <2>2 DEF Build
  <2>4. /\ Opt(build[h])' = Opt(build[h])
        /\ h = g => Opt(build[h]) = o
    BY <2>3 DEF Opt
  <2>5. Applying(build[h])' /\ Progress(build[h])' /\ OwnNames(build[h])'
    BY <1>1, <2>2, <2>3, <2>4, SMTT(20)
       DEF BInv, Applying, Progress, OwnNames, Active
  <2>6. FunctionsKept(build[h])'
    <3>1. ASSUME NEW i \in 1..Len(build[h].functions)
          PROVE  /\ build[h].functions[i].option \in DOMAIN Option
                 /\ CopyOf(build[h].functions[i].option,
                           build[h].functions[i].args)
      <4>1. build[h].functions[i] \in Registration
        BY <2>2 DEF Build
      <4> QED
        BY <2>2, <4>1 DEF BInv, FunctionsKept, Registration
    <3> QED
      BY <1>8, <2>3, <3>1 DEF FunctionsKept, CopyOf
  <2>7. build[h].pc \in Active => Opt(build[h]) \in DOMAIN Option
    BY <2>2 DEF BInv, Applying
  <2>8. Loaded(build[h])'
    <3>1. SUFFICES ASSUME build'[h].pc \in {"validate", "copying"}
                   PROVE  Loaded(build[h])'
      BY DEF Loaded
    <3>2. build'[h].pc = build[h].pc /\ Opt(build[h]) \in DOMAIN Option
      BY <2>3, <2>7, <3>1 DEF Active
    <3> QED
      BY <1>3, <1>8, <2>2, <2>3, <2>4, <3>2
         DEF BInv, Loaded, CopyOf, Contents
  <2>9. Validated(build[h])' /\ Checked(build[h])'
    <3>1. Validated(build[h])'
      BY <1>3, <2>2, <2>3, <2>4 DEF BInv, Validated, Contents
    <3>2. Checked(build[h])'
      <4>1. SUFFICES ASSUME build'[h].pc = "copy",
                            captured'[Opt(build[h])].shared
                     PROVE  Valid(slice[Opt(build[h])])
        BY <1>3, <2>3, <2>4 DEF Checked, Valid
      <4>2. build[h].pc = "copy" /\ Opt(build[h]) \in DOMAIN Option
        BY <2>3, <2>7, <4>1 DEF Active
      <4>3. captured[Opt(build[h])].shared
        BY <1>8, <4>1, <4>2
      <4> QED
        BY <2>2, <4>2, <4>3 DEF BInv, Checked
    <3> QED
      BY <3>1, <3>2
  <2>10. Copying(build[h])'
    <3>1. SUFFICES ASSUME build'[h].pc = "copying"
                   PROVE  Copying(build[h])'
      BY DEF Copying
    <3>2. build[h].pc = "copying" /\ Opt(build[h]) \in DOMAIN Option
      BY <2>3, <2>7, <3>1 DEF Active
    <3>3. Contents(Opt(build[h]), build[h].ref)'
            = Contents(Opt(build[h]), build[h].ref)
      BY <1>3, <2>3, <2>4 DEF Contents
    <3>4. build[h].ref.shared =>
              /\ Valid(slice[Opt(build[h])])
              /\ ~captured'[Opt(build[h])].shared =>
                     captured'[Opt(build[h])].args = slice[Opt(build[h])]
      BY <1>8, <2>2, <3>2 DEF BInv, Copying
    <3>5. build[h].read = SubSeq(Contents(Opt(build[h]), build[h].ref), 1,
                                 build[h].arg - 1)
      BY <2>2, <3>2 DEF BInv, Copying
    <3>6. Valid(slice[Opt(build[h])])' <=> Valid(slice[Opt(build[h])])
      BY <1>3, <2>4 DEF Valid
    <3> QED
      BY <1>3, <2>3, <2>4, <3>3, <3>4, <3>5, <3>6 DEF Copying
  <2>11. Copied(build[h])'
    <3>1. SUFFICES ASSUME build'[h].pc = "register"
                   PROVE  ~captured'[Opt(build[h])].shared
      BY <2>4 DEF Copied
    <3>2. CASE h = g
      BY <1>7, <2>4, <3>2
    <3>3. CASE h # g
      BY <1>8, <2>2, <2>3, <2>7, <3>1, <3>3 DEF BInv, Copied, Active
    <3> QED
      BY <3>2, <3>3
  <2> QED
    BY <2>5, <2>6, <2>8, <2>9, <2>10, <2>11 DEF BInv
<1> QED
  BY <1>6, <1>9, <1>10 DEF OInv

\* The caller writes when no application depends on what it writes to.
LEMMA WriteSliceInv ==
    ASSUME OInv, NEW o \in DOMAIN Option, WriteSlice(o)
    PROVE  OInv'
<1>1. captured' = captured /\ build' = build
  BY DEF WriteSlice
<1>2. slice' \in [DOMAIN Option -> Seq(STRING)]
  BY OptionsAssumption DEF WriteSlice, OInv, OTypeOK
<1>3. OTypeOK' /\ CopiesAreValid'
  BY <1>1, <1>2 DEF OInv, OTypeOK, CopiesAreValid
<1>4. ASSUME NEW g \in Goroutines
      PROVE  BInv(build[g])'
  <2>1. build[g].pc \in {"idle", "built"} /\ BInv(build[g])
    BY DEF WriteSlice, Quiet, OInv
  <2>2. Applying(build[g])' /\ Progress(build[g])' /\ OwnNames(build[g])'
    BY <1>1, <2>1 DEF BInv, Applying, Progress, OwnNames, Opt
  <2>3. FunctionsKept(build[g])'
    BY <1>1, <2>1 DEF BInv, FunctionsKept, CopyOf
  <2>4. /\ Loaded(build[g])' /\ Validated(build[g])' /\ Checked(build[g])'
        /\ Copying(build[g])' /\ Copied(build[g])'
    BY <1>1, <2>1 DEF Loaded, Validated, Checked, Copying, Copied
  <2> QED
    BY <2>2, <2>3, <2>4 DEF BInv
<1> QED
  BY <1>3, <1>4 DEF OInv

LEMMA NextInv == OInv /\ [ONext]_ovars => OInv'
<1> SUFFICES ASSUME OInv, [ONext]_ovars PROVE OInv'
  OBVIOUS
<1>1. ASSUME NEW g \in Goroutines, NEW list \in Lists, NewEvaluator(g, list)
      PROVE  OInv'
  BY <1>1, NewEvaluatorInv
<1>2. ASSUME NEW g \in Goroutines, Step(g)
      PROVE  OInv'
  BY <1>2, NextOptionInv, CheckOptionInv, LoadForSignatureInv, ValidateArgInv,
     LoadForCopyInv, CopyArgInv, StoreCopyInv, RegisterInv DEF Step
<1>3. ASSUME NEW o \in DOMAIN Option, WriteSlice(o)
      PROVE  OInv'
  BY <1>3, WriteSliceInv
<1>4. CASE UNCHANGED ovars
  <2>1. slice' = slice /\ captured' = captured /\ build' = build
    BY <1>4 DEF ovars
  <2>2. OTypeOK' /\ CopiesAreValid'
    BY <2>1 DEF OInv, OTypeOK, CopiesAreValid
  <2>3. ASSUME NEW g \in Goroutines PROVE BInv(build[g])'
    <3>1. build[g] \in Build /\ BInv(build[g])
      BY DEF OInv, OTypeOK
    <3>2. build' = [build EXCEPT ![g] = build[g]]
      BY <2>1 DEF OInv, OTypeOK
    <3> QED
      BY <2>1, <3>1, <3>2, OwnStep DEF OInv
  <2> QED
    BY <2>2, <2>3 DEF OInv
<1> QED
  BY <1>1, <1>2, <1>3, <1>4 DEF ONext

\* The invariant holds throughout.
THEOREM OptionsInvariant == OSpec => []OInv
<1> QED
  BY InitInv, NextInv, PTL DEF OSpec

-----------------------------------------------------------------------------
(* The properties.                                                         *)

\* The signature of a registered function is what its option has captured.
LEMMA SignatureIsCaptured ==
    ASSUME OInv, NEW g \in Goroutines, NEW i \in 1..Len(build[g].functions)
    PROVE  LET f == build[g].functions[i]
           IN  /\ f.option \in DOMAIN Option
               /\ ~f.args.shared
               /\ ~captured[f.option].shared
               /\ Signature(f) = captured[f.option].args
<1>1. build[g] \in Build /\ BInv(build[g])
  BY DEF OInv, OTypeOK
<1>2. build[g].functions[i] \in Registration
  BY <1>1 DEF Build
<1> QED
  BY <1>1, <1>2
     DEF BInv, FunctionsKept, CopyOf, Registration, Signature, Contents

\* NewEvaluator (conditional.go:59) keeps a function for every option, each
\* under a name of its own, or returns an error and keeps none, however many
\* evaluators are being made of the same options.
THEOREM NewEvaluatorIsAllOrNothing == OSpec => []AllOrNothing
<1>1. OInv => AllOrNothing
  <2> SUFFICES ASSUME OInv, NEW g \in Goroutines, At(g, "built")
               PROVE  LET fs == build[g].functions
                      IN  /\ build[g].err => fs = <<>>
                          /\ ~build[g].err =>
                               /\ Len(fs) = Len(build[g].list)
                               /\ \A i \in 1..Len(fs) :
                                      fs[i].option = build[g].list[i]
                               /\ \A i, j \in 1..Len(fs) :
                                      Option[fs[i].option].name
                                          = Option[fs[j].option].name => i = j
    BY DEF AllOrNothing
  <2>1. Progress(build[g]) /\ OwnNames(build[g])
    BY DEF OInv, BInv
  <2> QED
    BY <2>1 DEF Progress, OwnNames, At
<1> QED
  BY <1>1, OptionsInvariant, PTL

\* A function is registered with types of the language only, so
\* functionTypes (typecheck.go:307) skips none of them.
THEOREM RegisteredFunctionsAreValid == OSpec => []RegisteredIsValid
<1>1. OInv => RegisteredIsValid
  <2> SUFFICES ASSUME OInv, NEW g \in Goroutines,
                      NEW i \in 1..Len(build[g].functions)
               PROVE  LET types == Signature(build[g].functions[i])
                      IN  \A k \in 1..Len(types) : types[k] \in ValueTypes
    BY DEF RegisteredIsValid
  <2> DEFINE o == build[g].functions[i].option
  <2>1. /\ o \in DOMAIN Option /\ ~captured[o].shared
        /\ Signature(build[g].functions[i]) = captured[o].args
    BY SignatureIsCaptured
  <2> QED
    BY <2>1 DEF OInv, CopiesAreValid, Valid, IsValueType
<1> QED
  BY <1>1, OptionsInvariant, PTL

\* However many evaluators goroutines make of one Option, and whatever its
\* caller writes to the slice in between, they agree on its signature.
THEOREM EvaluatorsAgreeOnSignatures == OSpec => []OneSignaturePerOption
<1>1. OInv => OneSignaturePerOption
  <2> SUFFICES ASSUME OInv, NEW g \in Goroutines, NEW h \in Goroutines,
                      NEW i \in 1..Len(build[g].functions),
                      NEW j \in 1..Len(build[h].functions),
                      build[g].functions[i].option = build[h].functions[j].option
               PROVE  Signature(build[g].functions[i])
                          = Signature(build[h].functions[j])
    BY DEF OneSignaturePerOption
  <2>1. Signature(build[g].functions[i])
            = captured[build[g].functions[i].option].args
    BY SignatureIsCaptured
  <2>2. Signature(build[h].functions[j])
            = captured[build[h].functions[j].option].args
    BY SignatureIsCaptured
  <2> QED
    BY <2>1, <2>2
<1> QED
  BY <1>1, OptionsInvariant, PTL

\* An evaluator that is made keeps its signatures, also when the caller of
\* WithFunction (options.go:267) writes to the slice it passed.
THEOREM EvaluatorsKeepSignatures == OSpec => SignaturesAreStable
<1>1. ASSUME OInv, OInv', [ONext]_ovars
      PROVE  [\A g \in Goroutines :
                Built(g) /\ build'[g] = build[g]
                    => Signatures(g)' = Signatures(g)]_ovars
  <2> SUFFICES ASSUME NEW g \in Goroutines, build'[g] = build[g]
               PROVE  Signatures(g)' = Signatures(g)
    OBVIOUS
  <2>1. ASSUME NEW i \in 1..Len(build[g].functions)
        PROVE  Signature(build[g].functions[i])'
                   = Signature(build[g].functions[i])
    <3>1. ~build[g].functions[i].args.shared
      BY <1>1, SignatureIsCaptured
    <3> QED
      BY <3>1 DEF Signature, Contents
  <2> QED
    BY <2>1 DEF Signatures
<1> QED
  BY <1>1, OptionsInvariant, PTL DEF OSpec, SignaturesAreStable
=============================================================================

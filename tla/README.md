# A TLA+ model of buildkite/conditional

The Go library `conditional` decides, for a build and an expression such as
`build.branch == "main" && build.creator.teams includes "ops"`, whether a step
runs or a notification is sent.  This directory holds TLA+ modules that model
it, TLC configurations that check small instances of them, and proofs that
TLAPS checks for every instance.  Source paths are relative to `src/`.

## The system

| part | source | state it keeps | operations |
|---|---|---|---|
| public API | `conditional.go`, `context.go`, `errors.go` | none between calls | `Validate`, `Evaluate`, the same two of an `Evaluator` |
| options | `options.go` | the registered functions | `WithFunction`, `NewEvaluator`, `applyOptions` |
| lexer, parser, AST | `internal/lexer`, `token`, `parser`, `ast` | the position in the text, two tokens, the errors; `traceLevel`, a package variable | `New`, `NextToken`, `Parse` |
| static checks | `typecheck.go`, `conditional.go:119-234` | none | `typeCheckExpression`, `validateEnvCalls`, `referencesRoot` |
| assignment table | `assignments.go` | none | a type and a value for each variable |
| environment | `env.go`, `conditional.go:263-436` | none | merge of three environments, `env()`, `build.env()` |
| evaluator | `internal/evaluator` | the Go call stack | `Eval` |
| values | `internal/object` | none | `Type`, `Equals` |
| shell expansions | `internal/shell` | none | `EvalRaw`, `EvalString` |
| regular expressions | `internal/regex` | none | validation, compilation with a match timeout |
| REPL | `internal/repl`, `cmd/conditional` | the variables set by the user | read, evaluate, print |

A call runs on one goroutine from its text to its reply:

    entry point -> options -> blank? -> parse -> checks -> scope -> Eval -> result

`Validate` stops after the checks.  The library starts no goroutines, writes
nothing to disk and talks to nobody.  What is hard about it is not interleaving
but agreement: six places that test for an error object, two lists of types,
two lists of functions and two sets of operator rules that must say the same,
three readings of a blank expression, and callers who store an expression today
because `Validate` accepted it and evaluate it later against data nobody has
seen.  Below that, one text is scanned by up to five scanners (the lexer, the
end of an expansion, its parts, its value, whether there is one at all), which
must agree on every quote, escape and brace.  Of concurrency there is what
callers bring: one `Option` or `Evaluator` used from several goroutines, and
several parses at once, which share `traceLevel`.

### What makes each part correct

- **Evaluator**: it stops; it never computes with an error object; it does not
  evaluate an operand it does not need; the value is the one the expression
  means.
- **Static checks**: what they accept evaluates to values of the types they
  gave, whatever the context holds, nulls included; what they do not rule out
  comes from a null.
- **API**: the reply is a function of the verdict and the meaning of the
  expression; a notification never fails on its expression; what `Validate`
  accepted `Evaluate` does not refuse.
- **Lexer**: at each place it returns the longest lexeme, skips nothing but
  space and comments, and comes to the end of every text.
- **Parser**: it accepts the phrases of the grammar and gives each the tree its
  precedences mean; a nil in a tree always comes with an error; it ends.
- **Shell expansion**: what a user writes means one thing wherever it stands,
  however its expansions, quotes and escapes nest.
- **Options**: all of them apply or none; evaluators made from one `Option` have
  one signature, whatever other goroutines and the caller's slice do.
- **Regular expressions**: what the server does not support is refused, and only
  that, whatever escapes, classes and comments are around it.
- **REPL**: in a job's environment it answers as the conditions of the build do
  (it does, but for one name of one kind of build: see the findings).
- **Environment**: a builtin value wins over the build's and the build's over
  the project's; unsupported `BUILDKITE_` names do not get in.

PROJECT.json lists the hazards, each at its line, with the properties aimed at
it.

## The modules

| module | models | extends |
|---|---|---|
| `Object` | runtime values and the operators on them | |
| `Shell` | expansions, split into name, operator and word | `Object` |
| `Environment` | allowlists, merge, `env()` and `build.env()` | `Object` |
| `Assignments` | the assignment table | `Environment` |
| `Ast` | expressions as tables of nodes | |
| `Names` | the names a function may have, letter by letter | |
| `ShellScan` | the scanners of expansions: escapes, quoted parts, ends | `Names` |
| `ShellText` | expansions from the text on: parts, substrings, values | `ShellScan` |
| `Lexer` | `NextToken`, one call a step | `ShellScan` |
| `Lexemes` | what the lexer is to return, declared without a scanner | `Lexer` |
| `Template` | what users write and mean by it; lexer, then evaluation | `Lexemes`, `ShellText` |
| `Parser` | the parse functions, one step per call, return and token read; `traceLevel` | `Ast` |
| `Grammar` | the grammar with the tree of every sentence | `Parser` |
| `Checker` | `typeChecker.check` as it recurs, with its order and repeated checks | `TypeCheck` |
| `Options` | `WithFunction`, `NewEvaluator`, `applyOptions` on several goroutines | `Names` |
| `Regex` | `Validate` of regular expressions, one turn of its loop a step | |
| `Repl` | the context read back from the process environment, and the lines | `Assignments` |
| `Evaluator` | `Eval`, one step per call and per return | `Ast`, `Shell`, `Environment` |
| `TypeCheck` | the static checks, node by node | `Ast`, `Assignments` |
| `Conditional` | `Validate` and `Evaluate`, phase by phase | `Evaluator`, `TypeCheck` |
| `ConditionalAPI` | what the two calls promise, in one step | |
| `Reference` | the meaning of an expression, node by node | `Evaluator`, `TypeCheck` |
| `ConditionalRefinement` | `Conditional` as the abstract API | `Conditional`, `Reference` |
| `AstTrees` | builders of expressions for the instances | `Ast` |
| `TypeCheckProofs` | lemmas about the typing rules | `TypeCheck` |
| `EvaluatorProofs` | theorems about `Evaluator`, agreement with the meaning | `Reference`, `TypeCheckProofs` |
| `ConditionalProofs` | soundness of the checks, and that `Validate` and `Evaluate` implement the abstract API | `ConditionalRefinement`, `EvaluatorProofs` |
| `CheckerProofs` | theorems about the recursive checker | `Checker`, `TypeCheckProofs` |
| `LexerProofs` | theorems about the lexer and its scanners, and that a token is the longest lexeme | `Lexemes` |
| `OptionsProofs` | theorems about `Options` | `Options` |
| `ParserProofs` | theorems about `Parser` | `Parser` |
| `ReplProofs` | that the command answers as the build | `Repl` |
| `MC*` | the instances TLC checks | |

**State and code.**  `Evaluator` holds the expression `ast`, the scope, the node
`cur` whose `Eval` is running, and `val`: for each node `None` before its call,
`Open` during it, its value afterwards.  The Go call stack is the path of
`Open` nodes.  `EvalOperand` is a recursive call; each other action is one
`return` of `Eval`, with the error check of the caller (`PropagateError`) as an
action of its own, because the code does it at six places.

`Conditional` adds the phase of the call, the call, the types found so far, the
reply, and `accepted`, a history variable with the last expression that
`Validate` accepted.  Every early return of the code is a branch of the action
of its phase; the wrapper that swallows a notification's errors is `Fail`, and
the errors that come before it go through `FailEarly`.

`Parser` keeps, for each goroutine, the tokens read so far, the precedence and
the `leftExp` of the running `parseExpression`, a frame for each parse function
that waits for an operand (`at` says which), the nodes made and the errors.  A
text is not chosen in advance: each `ReadToken` chooses the next token, so one
run covers every text up to a length.  `traceLevel` is loaded and stored in two
steps, because Go makes no promise about `traceLevel = traceLevel + 1`.

`Options` has one step for each read or write of memory that goroutines share:
the slice of the caller, and the variable `function.Args` that the closure of an
`Option` captured.  A slice header is read as one value, and the caller writes
to its slice only between builds (`Quiet`), so the races that remain are those
of `WithFunction` with itself.

`Lexer` has one variable for the text, one for the cursor and the last token;
`NextToken` is one step.  `Template` adds what its author meant: a sequence of
pieces with a text (`Written`) and a meaning, which knows nothing of scanners; a
text that nobody meant anything by is read to its end all the same.
`Checker` is the recursion of `check`: a stack of calls, and a count of the calls
on each node.  `Regex` has the three flags of the loop.  `Repl` has the job's
context and the one rebuilt from the environment.

**Abstractions.**  A value is a record of kind, payload and elements; a text is a
string that is compared but never taken apart, except where the code joins
labels.  An error is the class of its message.  A regular expression is its
source, and the engine is the constant relation `Matching` plus a match that
times out: an operator that consults it returns a set of values.  A caller's
function is the set of results of its callback.  In `Conditional` a
text begins as "blank", "malformed" or a well-formed tree: `Parser` shows that
these are the outcomes of a parse.  A Go map of options is a function.

- `Lexer`, `ShellText`, `Names`: texts are sequences of ASCII characters, and two
  letters stand for each keyword; `int` has four bits where it is computed with,
  so that every pair of offset and length can be tried.  `TrimSpace` knows the
  spaces of ASCII.  The literal of a string that is not terminated, which nobody
  reads, is what was decoded so far, where the code keeps the raw text.
- `Parser`: after the token EOF only EOF is read, as the lexer returns it at the
  end of a text.  After a NUL inside a text it would read on; a parse that asks for
  more has the EOF as its current token then, for which there is no parse function,
  and so has an error either way.  What tracing prints is left out, since
  `traceEnabled` is never set; the counting of its level is not.  A literal the
  parser refuses (a number out of range, a name with two dots, a bad regular
  expression) is one of the constant `Refused`.
- `Template`: pieces are put together so that the text can be read in only one
  way: a name is not followed by a letter, a string has no double quote in it,
  and an apostrophe stands at the top of a string only in the run `apostrophe`.
- `Regex`: the patterns of the run leave out `[:` without its end, whose reading is
  the engine's affair, and `]` right after `[^`: there the code ends the class and
  the engine does not (see the findings).
- `Object`, `Options`: `HoldsFunction` looks into an array but not into arrays of
  arrays, which no expression makes; a slice header, three words that Go may
  tear in a data race, is read and written as one value.
- `Repl`: a line asks for a variable or a name of the environment and prints its
  value, where a real line compares and prints a boolean; the number of a build
  fits an `int`.

## The runs

| run | question | instance |
|---|---|---|
| `evaluator` | does `Eval` compute what the expression means, stop, propagate errors, stay lazy? | every expression of one operator over literals, regular expressions, variables and functions, bound or not, and of two operators with the inner one failing, null or skipped; two scopes; not type-checked |
| `soundness` | do accepted expressions evaluate to the types they were given, and are accepted names of the environment readable? | every operator on every pair of operands of every type; contexts with all values, none, and blank ones; names on both allowlists, one of them and neither |
| `serve` | does the API keep the promises of `ConditionalAPI` over sequences of calls? | every entry point, the default and an unknown one, both calls, package and `Evaluator`, expressions of every fate |
| `null_includes` | does a null array include nothing? (no) | `includes` on an array variable in three contexts |
| `parser` | does the parser accept the grammar, build its trees, report every nil, end? does the trace level drift only in a race? | every text of five tokens with an operator of each precedence, of nine tokens with ternaries; two goroutines that parse calls |
| `checker` | does the recursive checker follow the typing rules, in bounded time? | expressions three operators deep, and comparisons and ternaries that nest on the right |
| `texts` | does the lexer return the longest lexemes, lose nothing, end? do expansions mean what their author meant, in an operand and in a string? | every text of four characters, texts with NUL and with octal escapes of up to six; expansions two deep with quotes, escapes and all operators; every substring of a four-bit `int` |
| `apostrophe` | is an apostrophe text in a double-quoted string? (not next to an expansion) | strings of three pieces |
| `options` | do builds on two goroutines agree, and register all or nothing? | six options and nil, lists of two, a caller that rewrites its slices |
| `regex` | is the unsupported refused, and nothing else? | sequences of up to four pieces that hide or look like each other, but `[^]` |
| `repl` | does the context survive the way through the environment? | each field missing, blank or given, in groups that interact, merge queues active or not; a name that the caller set too |
| `diff_base` | is the base of a diff blank outside merge queues? (not when the queue left its bases) | the builds of `repl` |

**Bounds.**  The evaluator's rules look at a node and its operands, so two levels
of operators show every way a node and its parent interact; the proofs
take over for deeper expressions.  Every value kind, every class of error and
every branch of the operator tables occurs in the instances.  One variable of
each type, one blank and one non-blank text, two texts and two patterns with
one match each are enough for operators that compare.  The instance of `serve`
lets any call follow any other, because only the last accepted contract is
kept.  A tree is finite and evaluated once, so no counter needs a cap.

Five tokens hold one operator of each precedence on either side of another,
and every way to leave a delimiter open; nine hold a ternary in each branch of
another with an operator that binds tighter.  The state of a parser that can
differ between longer texts is its stack, which the proofs take over.  Four
characters hold an opening and a closing delimiter with an escape between them,
or the three characters of the longest prefix the lexer tests and one more; an
octal escape above 255 in a string needs six, and has texts of its own, as have
strings and patterns cut off by a NUL.  Four bits of `int` hold
every overflow that sixty-four do, for texts of at most four characters.  In
`repl`, `MaxLines` bounds the lines; the context does not change between them.
In `parser` and the others the constants name the bounds (`max`, `MaxInt`,
`MCInputs`, `MCPatterns`, `MCLists`).

**Fairness.**  `Evaluator` assumes WF of `Eval`, `Conditional` WF of `Serve`: a Go
function that is running goes on running.  Nothing is assumed of `Invoke` and
`Finish`: a caller may never call, and `Conditional` has no deadlock.  That a
caller's callback returns is part of the model (a callback that blocks blocks
`Evaluate`).  `Options` and `Parser` assume WF of each goroutine's own steps, since
Go's scheduler is fair to goroutines that can run; nothing is assumed of the
caller's writes.  `Template` assumes WF of `NextToken`: the parser reads until the
end.  `CHECK_DEADLOCK FALSE` is said where a run of the code is one pass that stops
(`Checker`, `Regex`, `Repl` and the run `apostrophe`).

**Refinement.**  `serve` checks `ImplementsAPI`: under request = `call` and answer =
`reply`, every behaviour of `Conditional` is one of `ConditionalAPI`, liveness
included.  The abstract verdict and meaning are those of `ConditionalRefinement`
and `Reference`: functions defined by recursion over the nodes of a tree, which
know nothing of phases, call stacks or error checks.

Every property has a mutant, a plausible slip in one mapped definition that
makes TLC find it violated; they are the definitions marked MUTANT.

## Findings

`build.creator.teams includes /^ops/` is an evaluation error when the build has
no teams, where the same expression with a string is false.  The case of
`evalInfixExpression` for a null and a regular expression
(`internal/evaluator/evaluator.go:155`) precedes the one for a null on the left
of `includes` (line 159).  The parity plan counts "regex `includes`, null array
includes" among the cases that match upstream
(`docs/plans/buildkite-conditionals-parity.md:790`).  The run `null_includes`
shows it.

`"it's $branch"` is an evaluation error.  A double-quoted string that holds an
expansion is evaluated by the function that evaluates the words of expansions,
`EvalString` (`internal/shell/shell.go:195`), where an apostrophe opens a shell
quote: here it is never closed, and in `"'$branch'"` it is closed, dropped, and
the variable is not interpolated.  The parity plan says "Double-quoted strings
interpolate shell substitutions" without an exception
(`docs/plans/buildkite-conditionals-parity.md:797`).  The run `apostrophe` shows
it.

The command gives `build.env("BUILDKITE_GIT_DIFF_BASE")` the name of a branch in
the job of a build that has no active merge queue, where the build's own
conditions have "".  Such a build may have a base branch and a base commit all
the same: `conditional.go:389` writes them either way, and the field's comment
says that the state gates the diff base "independently of the base values"
(`context.go:103`).  The command has only the variables.  It takes the queue for
active since the diff base is there, though blank (`internal/repl/repl.go:141`),
and the branch for the base chosen since the blank text is not the base commit
(line 153).  The test "git diff base is blank outside merge queue builds"
(`context_test.go:787`) has such a build.  The run `diff_base` shows it;
`LosesTheDiffBase` says which builds it concerns, and `AnswersAsTheBuild` that no
other name and no other build is concerned.

Met while modelling and stated by no run:

- The lexer takes a NUL in a text for its end (`internal/lexer/lexer.go:132`), so
  what follows is not parsed, although the plan says that the parser rejects
  trailing tokens.  `NothingIsLost` says what holds: nothing before the first NUL
  is lost.
- `[^][](?>a)` is accepted, although it has an atomic group and `Validate` is to
  reject what the server does not support (`internal/regex/regex.go:46`).  At `^`
  the code forgets that it is at the first place of the class (line 83), so the
  `]` ends the class, for the code but not for the engine; the `[` after it opens
  another class, whose first member is the second `]`, and which hides the group.
- The end of a substring is a sum that can wrap around
  (`internal/shell/shell.go:166`); the substring is then empty.  No doc says what
  it should be, and the meaning in `Template` takes it over.

## The proofs

`EvaluatorProofs`, for every set of well-formed expressions, every scope that binds
values, every relation `Matching`:

- `TypeCorrect`, `CallsFormAPath`, `ErrorsAlwaysPropagate`, `EvaluationIsLazy`:
  the invariants of the run `evaluator`, as theorems of `Spec`.
- `ValuesAreMeant`, `EvaluationAgrees`: every value computed is one that its node
  means, and what `Eval` returns is what the expression means.

The inductive invariant of the first four is their conjunction, `IInv`; TLC
checks each part.  None is inductive alone.  That an error is returned unchanged
needs that the operand's value does not change under its parent, which needs
that the open nodes are a path; laziness needs that the operand that decides
already has a value; and that a logical operator returns a value at all needs
that no operand is open at its return.  `TreeShape` turns `WellFormed` into the
facts the steps use, `ReturnsValue` reduces the eleven returns to one, and
`EvalOperandStep` and `EvalReturnStep` are the two cases of the induction.

`MInv` adds that operands are evaluated in order and that a value is among those
its node means.  A node returns either with all its operands evaluated, and then
its value is what the operator makes of values that are meant
(`ResultsAreMeant`), or with some of them, and then the one that decides, or the
error, is the first that the meaning would come to (`ErrorsAreMeant`).

`ConditionalProofs`, for every set of calls and every table of variables that is
part of the real one:

- `ChecksAreSound`: in every evaluation every value has the type the checker
  gave its node.
- `AcceptedYieldsBoolean`: the last case of the switch in `evaluate` is dead.
- `NotificationsNeverFail`: whatever is wrong with an expression, a notification
  has no error.
- `OnlyNullsMeetTypeErrors`: an accepted expression meets a type error at run time
  only through a null, as an operand or in an array.
- `CallsAreTyped`: a call, its types and its reply have their shape in every phase.

The invariant `CInv` says what each phase relies on: a well-formed tree, types
that are the checker's for the nodes visited so far (`TypedBelow`), a boolean
root, the scope that `buildScope` makes, and `IInv` during an evaluation.  The
heart of it is `ReturnTyped`, one case for each return of `Eval`, which sets the
rule of the checker beside the rule of the evaluator.  `ScopeTyped`, `ValueTyped`
and `CallTyped` do the same for the two columns of the assignment table and
the two lists of functions.  That an array has the values of all its elements
needs a least missing one, so it rests on the well-founded order of the
naturals.  `OnlyNullsMeetTypeErrors` reads the same rules the other way round:
`KindTellsType` gives the kind of an operand that is not null, and
`InfixOfTyped` shows that no operator refuses operands of the kinds its rule
asks for.

Its second part, on the refinement:

- `ApiIsImplemented`: every behaviour of `Conditional` begins as `ConditionalAPI`
  begins and goes on by its steps or by steps that leave call and reply alone.
  This is the safety part of `ImplementsAPI`.
- `ValidateIsAPromise`: an expression that `Validate` accepted is not refused by
  a later `Evaluate` at the same entry point with the same options.

The abstract reply depends on the verdict and the meaning of the whole
expression, which the code comes to in six phases.  The invariant `RInv` says
in each phase what is known of the two: that the call is not misused, that the
types found so far are those of `Types` (the type of a node depends only on nodes
before it), that validation passed, that the values are meant (`MInv`).  That
`Evaluate` checks with the caller's entry point and `Validate` with the normalized
one makes no difference by `SameNames`.  The one step that writes a reply is then
the one step of the abstract specification; the others stutter.  The second
theorem follows from the same invariant: the verdict on a contract is a function
of the contract, so the two calls may be any number of calls apart.

`CheckerProofs`, for every set of expressions and signatures:

- `CheckerInvariant`, `CheckerFollowsTheRules`: the recursion of `check` accepts
  what the typing rules accept, with the same type.
- `CheckerVisitsAreBounded`: the checks of a node double with each pair of sides
  it is on the right of, and with nothing else.

The invariant `CkInv` says that the stack is a path from the root, that the
operands a frame has passed have the types of the rules, and, of each node, that
the visits made and the visits that frames on the stack may still cause are
within `Limits`.  The last part is what makes the bound inductive: a count of
visits alone says nothing about those to come.

`OptionsProofs`, for any goroutines, options and lists:

- `NewEvaluatorIsAllOrNothing`, `RegisteredFunctionsAreValid`,
  `EvaluatorsAgreeOnSignatures`, `EvaluatorsKeepSignatures`: the safety properties
  of the run `options`.

What is true of the shared variable is that it changes once.  The caller's slice
is quiet while any goroutine builds, so all that copy it before the first store
copy the same list; whoever comes later copies a copy, which nobody writes to.
The invariant `OInv` says so (`CopyOf`, and what each location has read), and that
a registered function holds that copy.  Without it, two goroutines could have
registered one `Option` with two signatures.

`ParserProofs`, for any texts and any number of goroutines:

- `ParserInvariant`, `ParserTypes`.
- `ParsedTextsAreTrees`: a parse without an error returns the last node of a tree
  in which every other node is an operand once: what `TreesAssumption` and
  `CallsAssumption` ask of the expressions that are checked and evaluated.
- `NoNilWithoutError`: only a parse with an error returns nil, or a tree with a nil
  in it.

The invariant is about the nodes made so far, which are a forest (`Forest`), and
says where the roots of the forest are: in the hands of the calls on the stack,
each held by one of them and once, and in `leftExp`.  A parse function that makes
a node takes its operands from its own frame and from `leftExp` (`BuildForest`),
so they were roots and have no other parent.  After an error the forest is given
up, because a nil is then an operand.

`LexerProofs`, for texts of every length:

- `LexerStaysOnTheText`: the cursor stays on the text, and each call moves it
  unless it is at the end.
- `TheLexerLosesNothing`: only whitespace and comments are skipped, and the end
  is reported only at the end or at a NUL.
- `EveryRegisteredNameIsCallable`: `WithFunction` accepts exactly the names that
  the lexer reads as one identifier.
- `ATokenIsTheLongestLexeme`: a token is the longest lexeme that begins where it
  begins, of the kind its declaration gives it, and it is illegal only where no
  lexeme begins.

The state invariant `LInv` only says that the token is the one found from `before`
on; the work is in the scanners, which are functions of a position that call
themselves at later ones.  That such a function exists, so that the definition
means something, is `ScansExist`: the value at a position must depend on later
positions only, which `ClosingCases`, `StringCases` and `SlashCases` show for the
three that are not plain (they say which later position decides, if any).  What
a scanner returns is then proved by `ScanInduction`, from the end of the text
back.  Both rest on the well-founded order of the naturals.

`Lexemes` declares the lexemes of texts that stand alone: a string is what its
quote closes for the first time after an even number of backslashes, without an
octal escape of a value no byte has, and so on.  The scanners read a text from a
place in it.  So each lemma compares the part `Cut(text, p, n)` with what the scanner
does at a position of the text: `ClosesString` and `ClosesRegex` say that the scan
from a position, at which no escape is open, stops at the first delimiter that is
not escaped (`StringClosed` and `RegexClosed`, by `ScanInduction`), and
`StringInText` and `RegexInText` that the declaration of the part says the same.
Strings need the value of an octal escape (`Overflows`) and that no escape hides
half of another (`EscapePassed`).  An expansion is declared by the scanner itself,
`ReadExpansion` on the part alone; the question there is whether what follows in
the text can move its end, and `ClosingInText` shows, for every position and depth,
that it cannot (`Local`).  The first character decides between the kinds
(`KindOfLexeme`), and that no token begins with the slashes of a comment comes
from `CommentsSkipped`.

`ReplProofs`, for every context of a build and every line:

- `TheCommandAnswersAsTheBuild`: every name of the job's merged environment is
  answered as the build's own conditions would answer it, the base of the diff
  excepted for a build that `LosesTheDiffBase`: an inactive merge queue with a base
  branch and a base commit.
- `TheCommandRecoversTheVariables`: a variable that the command reads back has the
  build's value, up to an empty text and a missing one.

Each direction of the way through the environment loses something by itself:
`builtinEnv` writes one text for several contexts (a null and an empty tag, two
ways to choose the base of a diff), and `contextFromEnv` reads several texts as one
value.  So the argument is about both together.  `BuiltinIs` and `MergedIs` say
which source each name of the merged environment comes from; `OptionalReadBack`,
`BlankableReadBack` and one lemma for each name that is worked out
(`PullRequestReadBack`, `LabelsReadBack`, `MergeRefspecReadBack`,
`DiffBaseReadBack`) say that the context read back writes the text it was read
from.  `JobReadBack` puts them together and adds the names that only the caller
has, which are not dropped a second time.  The base of the diff is the delicate
one: a build without an active merge queue comes back with one that is active,
and its base is blank only if the blank text equals a blank base commit, or the
base branch that is then chosen is blank too.  That is the condition of the
theorem, and the finding is that it is needed.  The
inductive invariant `LoopInv` says that the context is the one that was read first,
and that the last answer is the one to the last line.

The second theorem needs more about the fields (each is of its Go type) and less
about the names: `SetByTheCaller` leaves out a variable that the build does not have
and whose name the caller set, since the command takes the caller's text for it.

The assumptions are on the constants, and TLC evaluates them in the runs:
`TreesAssumption` and `CallsAssumption` (the parser builds trees, an `Evaluator`
is made only of options that apply), `ScopesAssumption` (scopes bind values),
`ContextsAssumption` (the Go type of a field of the context is the one of its
variable, and no field holds an error), `FunctionsAssumption` (`WithFunction` refuses the names of variables
and unknown types, and a `Value` is of a type of the language),
`VariablesAssumption`, `NamesAssumption`, `OptionsAssumption` (what is in the
caller's lists), `ScenariosAssumption` (a text is made of tokens, the end
included), `InputsAssumption` (a text is a sequence of characters),
`CharactersAssumption` (letters and digits are neither space, delimiters nor what
an operator begins with, and NUL is no character that the lexer knows),
`ProcessAssumption` (the names `builtinEnv` writes are valid ones, no name of an
environment is that of a variable, and `strings.Join` undoes `strings.Split`) and
`JobsAssumption` (a text field holds a text, and the number of a build is printed
as `strconv.Itoa` prints it, so that `Atoi` gives the same text again).

Only model-checked: termination and every other liveness property, the fairness
part of `ImplementsAPI` included (TLAPS has no ENABLED and no fairness here); that
an accepted name is readable (`AcceptedNamesAreReadable`); that the trace level
drifts only in a race (`TraceLevelDriftsOnlyInRaces`, which counts the frames of
all stacks); that the parser accepts the grammar (`ParsesTheGrammar`), where the sentences
themselves are built by recursion over a bound; the meaning of templates, whose definitions are
RECURSIVE operators, out of the provers' reach; and `RefusesTheUnsupported`, which
speaks of the pieces a pattern was written in: what a piece is, and which may
stand next to which, is what the instance says, not the module `Regex`.  That
`strings.Join` undoes `strings.Split` is an assumption that TLC evaluates on the
labels of the run: texts are atoms to the provers.
What is computed by recursion can be reasoned about when it is a function over
the nodes of a tree or the positions of a text, as above: the induction is then
over a set, and needs no theorem that takes an operator.

## Not modelled

- `suggestBuildkiteEnv` with its two distances (`env.go:94-246`), `String()` of the
  syntax tree and the texts of errors: they change only what an error says.
- The flags of a regular expression, a loop over one letter
  (`internal/regex/regex.go:34-45`), and its engine, which is external: `Matching`
  and a match that may time out stand for it.
- Characters beyond ASCII, and numbers of more digits than a 64-bit `int` has,
  except as a literal that the parser refuses.
- Terminal input and output of the command.

## Plan

1. `RefusesTheUnsupported`: the flags of the loop of `Regex` as a function of the
   pieces read.
2. `ParsesTheGrammar` for one level of precedence on the forest that `ParserProofs`
   keeps.

----------------------------- MODULE LexerProofs -----------------------------
(***************************************************************************)
(* Theorems about the lexer, for texts of every length: the cursor stays   *)
(* on the text and goes forward, nothing but space and comments is skipped *)
(* before a NUL, the names a function may be registered under are the      *)
(* names that the lexer reads as one identifier, and a token is the        *)
(* longest lexeme that begins where it begins.                             *)
(*                                                                         *)
(* The scanners are functions of the position that call themselves at      *)
(* later positions.  ScansExist says that such functions exist, and        *)
(* ScanInduction is the induction from the end of the text: both rest on   *)
(* the well-founded order of the naturals.                                 *)
(***************************************************************************)
EXTENDS Lexemes, TLAPS, WellFoundedInduction, SequenceTheorems

-----------------------------------------------------------------------------
(* Functions of positions                                                  *)

\* What holds at a position whenever it holds at all later ones holds at all.
LEMMA ScanInduction ==
    ASSUME NEW N \in Nat, NEW P,
           \A p \in 1..N : (\A q \in (p + 1)..N : q \in P) => p \in P
    PROVE  \A p \in 1..N : p \in P
<1> DEFINE T == {b \in 0..N : b < N /\ (N - b) \notin P}
<1>1. SUFFICES ASSUME T # {} PROVE FALSE
  <2> SUFFICES ASSUME NEW p \in 1..N, p \notin P PROVE FALSE
    OBVIOUS
  <2>1. N - p \in 0..N /\ N - p < N /\ N - (N - p) = p
    OBVIOUS
  <2>2. N - p \in T
    BY <2>1
  <2> QED
    BY <1>1, <2>2
<1>2. T \subseteq Nat
  OBVIOUS
<1>3. PICK b \in T : \A j \in T : ~(<<j, b>> \in OpToRel(<, Nat))
  <2> HIDE DEF T
  <2> QED
    BY <1>1, <1>2, NatLessThanWellFounded, WFMin
<1> DEFINE p == N - b
<1>4. p \in 1..N /\ p \notin P /\ b \in Nat
  <2>1. b \in 0..N /\ b < N /\ (N - b) \notin P
    BY <1>3
  <2> QED
    BY <2>1
<1>5. PICK q \in (p + 1)..N : q \notin P
  BY <1>4
<1>6. N - q \in 0..N /\ N - q < N /\ N - (N - q) = q /\ N - q < b
  BY <1>4, <1>5
<1>7. N - q \in T
  BY <1>5, <1>6
<1>8. <<N - q, b>> \in OpToRel(<, Nat)
  BY <1>4, <1>6 DEF OpToRel
<1> HIDE DEF T
<1> QED
  BY <1>3, <1>7, <1>8

\* F gives each position a value in V, from the values at later positions.
Scanner(N, V, F) ==
    /\ F \in [1..N -> [[1..N -> V] -> V]]
    /\ \A p \in 1..N : \A g, h \in [1..N -> V] :
           (\A q \in (p + 1)..N : g[q] = h[q]) => F[p][g] = F[p][h]

\* The values that F gives.
Scan(N, V, F, g) == g \in [1..N -> V] /\ \A p \in 1..N : g[p] = F[p][g]

LEMMA ScansExist ==
    ASSUME NEW N \in Nat, NEW V, V # {}, NEW F, Scanner(N, V, F)
    PROVE  \E g : Scan(N, V, F, g)
<1>0. PICK v : v \in V
  OBVIOUS
<1> DEFINE Solves(g, p) == \A q \in p..N : g[q] = F[q][g]
           P == {p \in 1..N : \E g \in [1..N -> V] : Solves(g, p)}
<1>1. ASSUME NEW p \in 1..N, \A q \in (p + 1)..N : q \in P
      PROVE  p \in P
  <2>1. PICK g \in [1..N -> V] : Solves(g, p + 1)
    <3>1. CASE p = N
      <4>1. [q \in 1..N |-> v] \in [1..N -> V] /\ (p + 1)..N = {}
        BY <1>0, <3>1
      <4> QED
        BY <4>1
    <3>2. CASE p # N
      <4>1. p + 1 \in (p + 1)..N
        BY <3>2
      <4> QED
        BY <1>1, <4>1
    <3> QED
      BY <3>1, <3>2
  <2> DEFINE h == [q \in 1..N |-> IF q = p THEN F[p][g] ELSE g[q]]
  <2>2. h \in [1..N -> V] /\ h[p] = F[p][g]
    BY DEF Scanner
  <2>3. \A q \in (p + 1)..N : h[q] = g[q]
    OBVIOUS
  <2> HIDE DEF h
  <2>4. ASSUME NEW q \in p..N
        PROVE  h[q] = F[q][h]
    <3>1. q \in 1..N /\ \A r \in (q + 1)..N : r \in (p + 1)..N
      OBVIOUS
    <3>2. F[q][h] = F[q][g]
      <4>1. \A r \in (q + 1)..N : h[r] = g[r]
        BY <2>3, <3>1
      <4> QED
        BY <2>1, <2>2, <3>1, <4>1 DEF Scanner
    <3>3. CASE q = p
      BY <2>2, <3>2, <3>3
    <3>4. CASE q # p
      <4>1. q \in (p + 1)..N
        BY <3>4
      <4> QED
        BY <2>1, <2>3, <3>2, <4>1
    <3> QED
      BY <3>3, <3>4
  <2> QED
    BY <2>2, <2>4
<1>2. \A p \in 1..N : p \in P
  <2> HIDE DEF P
  <2> QED
    BY <1>1, ScanInduction
<1>3. CASE N = 0
  <2> DEFINE g == [q \in 1..N |-> v]
  <2>1. g \in [1..N -> V] /\ 1..N = {}
    BY <1>0, <1>3
  <2>2. Scan(N, V, F, g)
    BY <2>1 DEF Scan
  <2> QED
    BY <2>2
<1>4. CASE N # 0
  <2>1. 1 \in P
    <3> HIDE DEF P
    <3> QED
      BY <1>2, <1>4
  <2>2. PICK g \in [1..N -> V] : Solves(g, 1)
    BY <2>1
  <2>3. Scan(N, V, F, g)
    BY <2>2 DEF Scan
  <2> QED
    BY <2>3
<1> QED
  BY <1>3, <1>4

\* A set of positions has a least one.
LEMMA LeastExists ==
    ASSUME NEW T \in SUBSET Nat, T # {}
    PROVE  \E k \in T : \A j \in T : k <= j
<1>1. PICK k \in T : \A j \in T : ~(<<j, k>> \in OpToRel(<, Nat))
  BY NatLessThanWellFounded, WFMin
<1>2. \A j \in T : ~(j < k)
  BY <1>1 DEF OpToRel
<1> QED
  BY <1>2

LEMMA MinOf ==
    ASSUME NEW T \in SUBSET Nat, T # {}
    PROVE  Min(T) \in T /\ \A j \in T : Min(T) <= j
BY LeastExists DEF Min

-----------------------------------------------------------------------------
(* The scanners of internal/shell                                          *)

LEMMA AfterScan ==
    ASSUME NEW raw, NEW i \in Nat, NEW limit \in Nat, i <= limit, NEW S
    PROVE  /\ After(raw, i, limit, S) \in i..limit
           /\ After(raw, i, limit, S) < limit => raw[After(raw, i, limit, S)] \notin S
           /\ \A j \in i..(After(raw, i, limit, S) - 1) : raw[j] \in S
<1> DEFINE T == {k \in i..limit : k < limit => raw[k] \notin S}
<1>1. PICK k \in T : \A j \in T : k <= j
  <2>1. T \in SUBSET Nat /\ limit \in T
    OBVIOUS
  <2> HIDE DEF T
  <2> QED
    BY <2>1, LeastExists
<1>2. k \in i..limit /\ (k < limit => raw[k] \notin S)
  OBVIOUS
<1>3. \A j \in i..(k - 1) : raw[j] \in S
  BY <1>1, <1>2
<1> HIDE DEF T
<1> QED
  BY <1>2, <1>3 DEF After

\* Where an escape ends, the backslash being at i.
LEMMA EscapeEnds ==
    ASSUME NEW raw, Len(raw) \in Nat, NEW i \in 1..Len(raw)
    PROVE  /\ ReadStringEscape(raw, i).ok =>
                  ReadStringEscape(raw, i).next \in (i + 2)..(Len(raw) + 1)
           /\ ReadSingleQuotedEscape(raw, i).ok =>
                  ReadSingleQuotedEscape(raw, i).next \in (i + 2)..(Len(raw) + 1)
<1>1. ~Failed.ok /\ \A out, next : Read(out, next).next = next
  BY DEF Failed, Read
<1>2. CASE i + 1 > Len(raw)
  BY <1>1, <1>2 DEF ReadStringEscape, ReadSingleQuotedEscape
<1>3. CASE i + 1 <= Len(raw)
  <2> DEFINE e == ReadStringEscape(raw, i)
  <2>1. OctalEnd(raw, i + 1) \in (i + 1)..(Len(raw) + 1)
    <3> DEFINE limit == IF Len(raw) + 1 < i + 1 + 3 THEN Len(raw) + 1 ELSE i + 1 + 3
    <3>1. limit \in Nat /\ i + 1 \in Nat /\ i + 1 <= limit /\ limit <= Len(raw) + 1
      BY <1>3
    <3>2. OctalEnd(raw, i + 1) = After(raw, i + 1, limit, OctalDigits)
      BY DEF OctalEnd
    <3> HIDE DEF limit
    <3>3. OctalEnd(raw, i + 1) \in (i + 1)..limit
      BY <3>1, <3>2, AfterScan
    <3> QED
      BY <3>1, <3>3
  <2>2. raw[i + 1] \in OctalDigits => OctalEnd(raw, i + 1) # i + 1
    <3> SUFFICES ASSUME raw[i + 1] \in OctalDigits, OctalEnd(raw, i + 1) = i + 1
                 PROVE  FALSE
      OBVIOUS
    <3> DEFINE limit == IF Len(raw) + 1 < i + 1 + 3 THEN Len(raw) + 1 ELSE i + 1 + 3
    <3>1. limit \in Nat /\ i + 1 \in Nat /\ i + 1 <= limit /\ i + 1 < limit
      BY <1>3
    <3>2. i + 1 = After(raw, i + 1, limit, OctalDigits)
      BY DEF OctalEnd
    <3> HIDE DEF limit
    <3> QED
      BY <3>1, <3>2, AfterScan
  <2>3. ReadSingleQuotedEscape(raw, i).next = i + 2
    BY <1>1, <1>3 DEF ReadSingleQuotedEscape
  <2>4. \/ e = Failed
        \/ e.next = i + 2
        \/ e.next = i + 4 /\ i + 3 <= Len(raw)
        \/ e.next = OctalEnd(raw, i + 1) /\ raw[i + 1] \in OctalDigits
    BY <1>1, <1>3 DEF ReadStringEscape
  <2> HIDE DEF e
  <2>5. e.ok => e.next \in (i + 2)..(Len(raw) + 1)
    BY <1>1, <1>3, <2>1, <2>2, <2>4
  <2> QED
    BY <1>3, <2>3, <2>5 DEF e
<1> QED
  BY <1>2, <1>3

\* Where a quoted part ends, the quote being at i.
LEMMA QuotedEnds ==
    ASSUME NEW raw, Len(raw) \in Nat, NEW i \in 1..Len(raw)
    PROVE  \/ SkipQuoted(raw, i) = Failed /\ ~SkipQuoted(raw, i).ok
           \/ \E n \in (i + 2)..(Len(raw) + 1) : SkipQuoted(raw, i) = Read(<<>>, n)
<1> DEFINE run(j) == j - 1 - Max({k \in i..(j - 1) : raw[k] # "\\"})
           closing == {j \in (i + 1)..Len(raw) : raw[j] = raw[i] /\ run(j) % 2 = 0}
<1>1. SkipQuoted(raw, i) = IF closing = {} THEN Failed ELSE Read(<<>>, Min(closing) + 1)
  BY DEF SkipQuoted
<1>2. closing \in SUBSET ((i + 1)..Len(raw)) /\ closing \in SUBSET Nat
  OBVIOUS
<1> HIDE DEF closing
<1>3. CASE closing = {}
  BY <1>1, <1>3 DEF Failed
<1>4. CASE closing # {}
  <2>1. Min(closing) \in (i + 1)..Len(raw)
    BY <1>2, <1>4, MinOf
  <2>2. Min(closing) + 1 \in (i + 2)..(Len(raw) + 1)
    BY <2>1
  <2> QED
    BY <1>1, <1>4, <2>2
<1> QED
  BY <1>3, <1>4

\* The equation of the scanner for closing braces.
Closing(raw, f) ==
    f = [k \in 1..(Len(raw) + 2) |->
            [d \in Nat \ {0} |-> ClosingFrom(raw, k, d, f)]]

Depths == Nat \ {0}

Closings == [Depths -> {Failed} \cup {Read(<<>>, n) : n \in Nat}]

\* One arm of ClosingFrom for each character.
Begins(raw, k) == At2(raw, k, <<"$", "{">>)

Arms(raw, k, d, f) ==
    LET c == ClosingFrom(raw, k, d, f)
        q == SkipQuoted(raw, k)
    IN  /\ raw[k] = "\\" => c = f[k + 2][d]
        /\ raw[k] \in Quotes => c = IF q.ok THEN f[q.next][d] ELSE Failed
        /\ Begins(raw, k) => c = f[k + 2][d + 1]
        /\ raw[k] = "}" => c = IF d = 1 THEN Read(<<>>, k + 1) ELSE f[k + 1][d - 1]
        /\ raw[k] \notin Quotes \cup {"\\", "}"} /\ ~Begins(raw, k) => c = f[k + 1][d]

LEMMA ClosingArms ==
    ASSUME NEW raw, Len(raw) \in Nat, NEW k \in 1..Len(raw), NEW d, NEW f
    PROVE  Arms(raw, k, d, f)
<1> DEFINE c == ClosingFrom(raw, k, d, f)
           q == SkipQuoted(raw, k)
<1>1. ~(k > Len(raw))
  OBVIOUS
<1>2. ASSUME raw[k] = "\\"
      PROVE  c = f[k + 2][d]
  <2>1. raw[k] \notin Quotes /\ ~Begins(raw, k) /\ raw[k] # "}"
    BY <1>2 DEF Quotes, Begins, At2
  <2> QED
    BY <1>1, <1>2, <2>1, Zenon DEF ClosingFrom, Begins
<1>3. ASSUME raw[k] \in Quotes
      PROVE  c = IF q.ok THEN f[q.next][d] ELSE Failed
  <2>1. raw[k] # "\\" /\ ~Begins(raw, k) /\ raw[k] # "}"
    BY <1>3 DEF Quotes, Begins, At2
  <2> QED
    BY <1>1, <1>3, <2>1, Zenon DEF ClosingFrom, Begins
<1>4. ASSUME Begins(raw, k)
      PROVE  c = f[k + 2][d + 1]
  <2>1. raw[k] # "\\" /\ raw[k] # "}" /\ raw[k] \notin Quotes
    BY <1>4 DEF Begins, At2, Quotes
  <2> QED
    BY <1>1, <1>4, <2>1, Zenon DEF ClosingFrom, Begins
<1>5. ASSUME raw[k] = "}"
      PROVE  c = IF d = 1 THEN Read(<<>>, k + 1) ELSE f[k + 1][d - 1]
  <2>1. raw[k] # "\\" /\ raw[k] \notin Quotes /\ ~Begins(raw, k)
    BY <1>5 DEF Begins, At2, Quotes
  <2> QED
    BY <1>1, <1>5, <2>1, Zenon DEF ClosingFrom, Begins
<1>6. ASSUME raw[k] \notin Quotes \cup {"\\", "}"}, ~Begins(raw, k)
      PROVE  c = f[k + 1][d]
  <2>1. raw[k] # "\\" /\ raw[k] \notin Quotes /\ raw[k] # "}"
    BY <1>6
  <2> QED
    BY <1>1, <1>6, <2>1, Zenon DEF ClosingFrom, Begins
<1> HIDE DEF c, q
<1> QED
  BY <1>2, <1>3, <1>4, <1>5, <1>6, Zenon DEF Arms, c, q

\* What is known at a position, or the later position and the depth that decide.
LEMMA ClosingCases ==
    ASSUME NEW raw, Len(raw) \in Nat, NEW k \in 1..(Len(raw) + 2), NEW d \in Depths
    PROVE  \/ \A f : ClosingFrom(raw, k, d, f) = Failed
           \/ /\ k <= Len(raw)
              /\ \A f : ClosingFrom(raw, k, d, f) = Read(<<>>, k + 1)
           \/ \E q \in (k + 1)..(Len(raw) + 2), e \in Depths :
                  \A f : ClosingFrom(raw, k, d, f) = f[q][e]
<1>1. CASE k > Len(raw)
  BY <1>1 DEF ClosingFrom
<1>2. CASE k <= Len(raw)
  <2> DEFINE N == Len(raw) + 2
             q == SkipQuoted(raw, k)
  <2>1. k \in 1..Len(raw) /\ k + 1 \in (k + 1)..N /\ k + 2 \in (k + 1)..N
    BY <1>2
  <2>2. /\ d + 1 \in Depths
        /\ d # 1 => d - 1 \in Depths
    BY DEF Depths
  <2>0. ASSUME NEW f PROVE Arms(raw, k, d, f)
    BY <2>1, ClosingArms
  <2>3. CASE raw[k] = "\\"
    <3>1. ASSUME NEW f PROVE ClosingFrom(raw, k, d, f) = f[k + 2][d]
      BY <2>0, <2>3 DEF Arms
    <3> QED
      BY <2>1, <3>1
  <2>4. CASE raw[k] \in Quotes
    <3>1. ASSUME NEW f PROVE ClosingFrom(raw, k, d, f) = IF q.ok THEN f[q.next][d] ELSE Failed
      BY <2>0, <2>4 DEF Arms
    <3>2. q.ok => q.next \in (k + 1)..N
      <4>1. \A out, n : Read(out, n).next = n
        BY DEF Read
      <4> QED
        BY <2>1, <4>1, QuotedEnds
    <3> HIDE DEF q
    <3> QED
      BY <3>1, <3>2
  <2>5. CASE Begins(raw, k)
    <3>1. ASSUME NEW f PROVE ClosingFrom(raw, k, d, f) = f[k + 2][d + 1]
      BY <2>0, <2>5 DEF Arms
    <3> QED
      BY <2>1, <2>2, <3>1
  <2>6. CASE raw[k] = "}"
    <3>1. ASSUME NEW f PROVE ClosingFrom(raw, k, d, f) = IF d = 1 THEN Read(<<>>, k + 1)
                                             ELSE f[k + 1][d - 1]
      BY <2>0, <2>6 DEF Arms
    <3>2. CASE d = 1
      BY <1>2, <3>1, <3>2
    <3>3. CASE d # 1
      BY <2>1, <2>2, <3>1, <3>3
    <3> QED
      BY <3>2, <3>3
  <2>7. CASE raw[k] \notin Quotes \cup {"\\", "}"} /\ ~Begins(raw, k)
    <3>1. ASSUME NEW f PROVE ClosingFrom(raw, k, d, f) = f[k + 1][d]
      BY <2>0, <2>7 DEF Arms
    <3> QED
      BY <2>1, <3>1
  <2> QED
    BY <2>3, <2>4, <2>5, <2>6, <2>7
<1> QED
  BY <1>1, <1>2

LEMMA ClosingsExist ==
    ASSUME NEW raw, Len(raw) \in Nat
    PROVE  \E f : Closing(raw, f)
<1> DEFINE N == Len(raw) + 2
           R == {Failed} \cup {Read(<<>>, n) : n \in Nat}
           G == [1..N -> Closings]
           At(k, f) == [d \in Depths |-> ClosingFrom(raw, k, d, f)]
           F == [k \in 1..N |-> [f \in G |-> At(k, f)]]
<1>1. N \in Nat /\ Closings = [Depths -> R]
  BY DEF Closings
<1>2. ASSUME NEW k \in 1..N, NEW f \in G
      PROVE  At(k, f) \in Closings
  <2> SUFFICES ASSUME NEW d \in Depths
               PROVE  ClosingFrom(raw, k, d, f) \in R
    BY <1>1
  <2>1. CASE \A h : ClosingFrom(raw, k, d, h) = Failed
    BY <2>1
  <2>2. CASE \A h : ClosingFrom(raw, k, d, h) = Read(<<>>, k + 1)
    BY <2>2
  <2>3. ASSUME NEW q \in (k + 1)..N, NEW e \in Depths,
               \A h : ClosingFrom(raw, k, d, h) = h[q][e]
        PROVE  ClosingFrom(raw, k, d, f) \in R
    <3>1. q \in 1..N
      OBVIOUS
    <3>2. f[q] \in [Depths -> R]
      BY <1>1, <3>1
    <3>3. f[q][e] \in R
      BY <3>2
    <3> QED
      BY <2>3, <3>3
  <2> QED
    BY <2>1, <2>2, <2>3, ClosingCases
<1>3. F \in [1..N -> [G -> Closings]]
  BY <1>2
<1>4. ASSUME NEW k \in 1..N, NEW f \in G, NEW g \in G,
             \A q \in (k + 1)..N : f[q] = g[q]
      PROVE  F[k][f] = F[k][g]
  <2>1. ASSUME NEW d \in Depths
        PROVE  ClosingFrom(raw, k, d, f) = ClosingFrom(raw, k, d, g)
    BY <1>4, ClosingCases
  <2>2. At(k, f) = At(k, g)
    BY <2>1
  <2>3. F[k][f] = At(k, f) /\ F[k][g] = At(k, g)
    OBVIOUS
  <2> QED
    BY <2>2, <2>3
<1>5. [d \in Depths |-> Failed] \in Closings
  BY DEF Closings
<1>6. PICK f : Scan(N, Closings, F, f)
  <2> HIDE DEF F, N
  <2>1. Scanner(N, Closings, F)
    BY <1>3, <1>4, Zenon DEF Scanner
  <2> QED
    BY <1>1, <1>5, <2>1, ScansExist, Zenon
<1>7. f \in G /\ \A k \in 1..N : f[k] = At(k, f)
  BY <1>6 DEF Scan
<1>8. f = [k \in 1..N |-> At(k, f)]
  BY <1>7
<1> QED
  BY <1>8 DEF Closing, Depths

LEMMA ClosingValue ==
    ASSUME NEW raw, NEW f, Closing(raw, f), NEW k \in 1..(Len(raw) + 2), NEW d \in Depths
    PROVE  f[k][d] = ClosingFrom(raw, k, d, f)
<1>1. f[k] = [e \in Depths |-> ClosingFrom(raw, k, e, f)]
  BY Zenon DEF Closing, Depths
<1> QED
  BY <1>1

\* Where the brace that closes a depth is.
LEMMA ClosingEnds ==
    ASSUME NEW raw, Len(raw) \in Nat, NEW f, Closing(raw, f)
    PROVE  \A k \in 1..(Len(raw) + 2), d \in Depths :
               f[k][d].ok => f[k][d].next \in (k + 1)..(Len(raw) + 1)
<1> DEFINE N == Len(raw) + 2
           OK(k, d) == f[k][d].ok => f[k][d].next \in (k + 1)..(Len(raw) + 1)
           P == {k \in 1..N : \A d \in Depths : OK(k, d)}
<1>1. ASSUME NEW k \in 1..N, NEW d \in Depths
      PROVE  f[k][d] = ClosingFrom(raw, k, d, f)
  BY ClosingValue
<1>2. ASSUME NEW k \in 1..N, \A q \in (k + 1)..N : q \in P
      PROVE  k \in P
  <2> SUFFICES ASSUME NEW d \in Depths PROVE OK(k, d)
    OBVIOUS
  <2>1. CASE \A h : ClosingFrom(raw, k, d, h) = Failed
    BY <1>1, <2>1 DEF Failed
  <2>2. CASE k <= Len(raw) /\ \A h : ClosingFrom(raw, k, d, h) = Read(<<>>, k + 1)
    <3>1. f[k][d].next = k + 1
      BY <1>1, <2>2 DEF Read
    <3> QED
      BY <2>2, <3>1
  <2>3. ASSUME NEW q \in (k + 1)..N, NEW e \in Depths,
               \A h : ClosingFrom(raw, k, d, h) = h[q][e]
        PROVE  OK(k, d)
    <3>1. f[k][d] = f[q][e]
      BY <1>1, <2>3
    <3>2. OK(q, e)
      BY <1>2
    <3> QED
      BY <3>1, <3>2
  <2> QED
    BY <2>1, <2>2, <2>3, ClosingCases
<1>3. \A k \in 1..N : k \in P
  <2> HIDE DEF P, N
  <2>1. N \in Nat
    BY DEF N
  <2> QED
    BY <1>2, <2>1, ScanInduction
<1> QED
  BY <1>3

\* Where an expansion in braces ends.
LEMMA ClosingBraceEnds ==
    ASSUME NEW raw, Len(raw) \in Nat, NEW i \in 1..(Len(raw) + 2)
    PROVE  ClosingBrace(raw, i).ok =>
               ClosingBrace(raw, i).next \in (i + 1)..(Len(raw) + 1)
<1> DEFINE f == CHOOSE g : Closing(raw, g)
<1>1. Closing(raw, f)
  BY ClosingsExist
<1>2. ClosingBrace(raw, i) = f[i][1]
  BY Zenon DEF ClosingBrace, Closing
<1>3. 1 \in Depths
  BY DEF Depths
<1> HIDE DEF f
<1> QED
  BY <1>1, <1>2, <1>3, ClosingEnds

\* What an expansion is, the dollar being at i: a name or a part in braces.
Named(raw, i) == i + 1 <= Len(raw) /\ IsStart(raw[i + 1])

NameEnd(raw, i) == After(raw, i + 2, Len(raw) + 1, Letters \cup Digits \cup {"."})

LEMMA ExpansionIs ==
    ASSUME NEW raw, Len(raw) \in Nat, NEW i \in 1..Len(raw)
    PROVE  LET x == ReadExpansion(raw, i)
               c == ClosingBrace(raw, i + 2)
           IN  /\ Named(raw, i) => x.ok /\ x.next = NameEnd(raw, i)
               /\ Begins(raw, i) /\ c.ok => x.ok /\ x.next = c.next
               /\ Begins(raw, i) /\ ~c.ok => ~x.ok
               /\ ~Named(raw, i) /\ ~Begins(raw, i) => ~x.ok
<1> DEFINE x == ReadExpansion(raw, i)
           c == ClosingBrace(raw, i + 2)
           stop == NameEnd(raw, i)
<1>1. ~Failed.ok /\ \A out, n : Read(out, n).ok /\ Read(out, n).next = n
  BY DEF Failed, Read
<1>2. i + 1 <= Len(raw) <=> ~(i + 1 > Len(raw))
  OBVIOUS
<1>3. Begins(raw, i) => i + 1 <= Len(raw)
  BY DEF Begins, At2
<1>4. ~(Named(raw, i) /\ Begins(raw, i))
  <2>1. ~IsStart("{")
    BY CharactersAssumption DEF IsStart
  <2>2. Begins(raw, i) => raw[i + 1] = "{"
    BY DEF Begins, At2
  <2> QED
    BY <2>1, <2>2 DEF Named
<1>5. ASSUME Named(raw, i) PROVE x = Read(SubSeq(raw, i, stop - 1), stop)
  BY <1>2, <1>4, <1>5, Zenon DEF ReadExpansion, Named, Begins, NameEnd
<1>6. ASSUME Begins(raw, i)
      PROVE  x = IF c.ok THEN Read(SubSeq(raw, i, c.next - 1), c.next) ELSE Failed
  BY <1>2, <1>3, <1>4, <1>6, Zenon DEF ReadExpansion, Named, Begins
<1>7. ASSUME ~Named(raw, i), ~Begins(raw, i) PROVE x = Failed
  BY <1>2, <1>7, Zenon DEF ReadExpansion, Named, Begins
<1> HIDE DEF x, stop, c
<1>8. /\ Named(raw, i) => x.ok /\ x.next = stop
      /\ Begins(raw, i) /\ c.ok => x.ok /\ x.next = c.next
      /\ Begins(raw, i) /\ ~c.ok => ~x.ok
      /\ ~Named(raw, i) /\ ~Begins(raw, i) => ~x.ok
  BY <1>1, <1>5, <1>6, <1>7
<1> QED
  BY <1>8 DEF x, c, stop

\* Where an expansion ends.
LEMMA ExpansionEnds ==
    ASSUME NEW raw, Len(raw) \in Nat, NEW i \in 1..Len(raw)
    PROVE  ReadExpansion(raw, i).ok =>
               ReadExpansion(raw, i).next \in (i + 2)..(Len(raw) + 1)
<1> DEFINE c == ClosingBrace(raw, i + 2)
           stop == NameEnd(raw, i)
<1>1. i + 1 <= Len(raw) => stop \in (i + 2)..(Len(raw) + 1)
  BY AfterScan DEF NameEnd
<1>2. c.ok => c.next \in (i + 3)..(Len(raw) + 1)
  <2>1. i + 2 \in 1..(Len(raw) + 2) /\ i + 2 + 1 = i + 3
    OBVIOUS
  <2> QED
    BY <2>1, ClosingBraceEnds
<1>3. c.ok => c.next \in (i + 2)..(Len(raw) + 1)
  BY <1>2
<1>4. Named(raw, i) => i + 1 <= Len(raw)
  BY DEF Named
<1> HIDE DEF c, stop
<1> QED
  BY <1>1, <1>3, <1>4, ExpansionIs DEF c, stop

-----------------------------------------------------------------------------
(* What is between the tokens                                              *)

LEMMA CharacterAt ==
    ASSUME NEW text, Len(text) \in Nat, NEW p \in Nat, Char(text, p) # NUL
    PROVE  p \in 1..Len(text) /\ Char(text, p) = text[p]
BY DEF Char

LEMMA WhitespaceSkipped ==
    ASSUME NEW text, Len(text) \in Nat, NEW p \in 1..End(text)
    PROVE  /\ SkipWhitespace(text, p) \in p..End(text)
           /\ \A i \in p..(SkipWhitespace(text, p) - 1) : text[i] \in Whitespace
<1>1. p \in Nat /\ End(text) \in Nat /\ p <= End(text)
  BY DEF End
<1> QED
  BY <1>1, AfterScan DEF SkipWhitespace

\* A comment has at least its two slashes, and ends on its line.
LEMMA CommentEnds ==
    ASSUME NEW text, Len(text) \in Nat, NEW p \in 1..End(text), IsComment(text, p)
    PROVE  /\ EndOfLine(text, p) \in (p + 2)..End(text)
           /\ \A i \in p..(EndOfLine(text, p) - 1) : text[i] # "\n"
           /\ At2(text, p, <<"/", "/">>)
<1> DEFINE stops == {"\n", NUL}
           T == {q \in p..End(text) : Char(text, q) \in stops}
<1>1. p \in Nat /\ End(text) = Len(text) + 1
  BY DEF End
<1>2. End(text) \in T
  BY <1>1 DEF Char
<1>3. PICK q \in T : \A j \in T : q <= j
  <2>1. T \in SUBSET Nat
    BY <1>1
  <2> HIDE DEF T
  <2> QED
    BY <1>2, <2>1, LeastExists
<1>4. q \in p..End(text) /\ Char(text, q) \in stops
  OBVIOUS
<1>5. ASSUME NEW i \in p..(q - 1)
      PROVE  text[i] \notin stops
  <2>1. i \in p..End(text) /\ i < q /\ i \in 1..Len(text)
    BY <1>1, <1>4
  <2>2. i \notin T
    BY <1>3, <1>4, <2>1
  <2> QED
    BY <2>1, <2>2 DEF Char
<1> HIDE DEF T
<1> DEFINE e == EndOfLine(text, p)
<1>6. /\ e \in p..End(text) /\ Char(text, e) \in stops
      /\ \A i \in p..(e - 1) : text[i] \notin stops
  BY <1>4, <1>5 DEF EndOfLine
<1> HIDE DEF e
<1>7. "/" \notin stops
  BY CharactersAssumption
<1>8. Char(text, p) = "/" /\ Char(text, p + 1) = "/"
  BY DEF IsComment
<1>9. p + 1 \in 1..Len(text) /\ text[p] = "/" /\ text[p + 1] = "/"
  BY <1>1, <1>7, <1>8, CharacterAt
<1>10. e # p /\ e # p + 1
  BY <1>6, <1>7, <1>8
<1>11. e \in (p + 2)..End(text)
  BY <1>1, <1>6, <1>10
<1> QED
  BY <1>6, <1>9, <1>11 DEF e, At2

\* From p to r there is nothing but whitespace and comments.
Skipped(text, p, r) ==
    \A i \in p..(r - 1) :
        \/ text[i] \in Whitespace
        \/ \E j \in p..i : /\ j + 1 < r /\ At2(text, j, <<"/", "/">>)
                           /\ \A k \in j..i : text[k] # "\n"

\* The equation of SkipComment.
Comments(text, f) ==
    f = [q \in 1..End(text) |->
            IF ~IsComment(text, q) THEN q
            ELSE f[SkipWhitespace(text, EndOfLine(text, q))]]

\* What follows a comment is after it.
LEMMA AfterComment ==
    ASSUME NEW text, Len(text) \in Nat, NEW p \in 1..End(text), IsComment(text, p)
    PROVE  SkipWhitespace(text, EndOfLine(text, p)) \in (p + 2)..End(text)
<1> DEFINE e == EndOfLine(text, p)
<1>1. e \in (p + 2)..End(text) /\ End(text) \in Nat
  BY CommentEnds DEF End
<1> HIDE DEF e
<1>2. SkipWhitespace(text, e) \in e..End(text)
  BY <1>1, WhitespaceSkipped
<1>3. SkipWhitespace(text, e) \in (p + 2)..End(text)
  BY <1>1, <1>2
<1> QED
  BY <1>3 DEF e

LEMMA CommentsExist ==
    ASSUME NEW text, Len(text) \in Nat
    PROVE  \E f : Comments(text, f)
<1> DEFINE N == End(text)
           V == 1..N
           Next1(q) == SkipWhitespace(text, EndOfLine(text, q))
           At(q, f) == IF ~IsComment(text, q) THEN q ELSE f[Next1(q)]
           F == [q \in 1..N |-> [f \in [1..N -> V] |-> At(q, f)]]
<1>1. N \in Nat /\ V # {}
  <2>1. N \in Nat /\ 1 \in V
    BY DEF End
  <2> QED
    BY <2>1
<1>2. ASSUME NEW q \in 1..N, IsComment(text, q)
      PROVE  Next1(q) \in (q + 1)..N /\ Next1(q) \in 1..N
  <2>1. Next1(q) \in (q + 2)..N
    BY <1>2, AfterComment
  <2> HIDE DEF Next1, N
  <2> QED
    BY <1>1, <2>1
<1>3. ASSUME NEW q \in 1..N, NEW f \in [1..N -> V]
      PROVE  At(q, f) \in V
  BY <1>2
<1>4. ASSUME NEW q \in 1..N, NEW f \in [1..N -> V], NEW g \in [1..N -> V],
             \A r \in (q + 1)..N : f[r] = g[r]
      PROVE  At(q, f) = At(q, g)
  BY <1>2, <1>4
<1> HIDE DEF At, N, V
<1>5. Scanner(N, V, F)
  <2>1. F \in [1..N -> [[1..N -> V] -> V]]
    BY <1>3
  <2>2. \A q \in 1..N : \A f \in [1..N -> V] : F[q][f] = At(q, f)
    OBVIOUS
  <2> HIDE DEF F
  <2>3. ASSUME NEW q \in 1..N, NEW f \in [1..N -> V], NEW g \in [1..N -> V],
               \A r \in (q + 1)..N : f[r] = g[r]
        PROVE  F[q][f] = F[q][g]
    <3>1. At(q, f) = At(q, g)
      BY <1>4, <2>3, Zenon
    <3> QED
      BY <2>2, <3>1
  <2> QED
    BY <2>1, <2>3, Zenon DEF Scanner
<1>6. PICK f : Scan(N, V, F, f)
  BY <1>1, <1>5, ScansExist, Zenon
<1>7. f \in [1..N -> V] /\ \A q \in 1..N : f[q] = At(q, f)
  BY <1>6 DEF Scan
<1>8. f = [q \in 1..N |-> At(q, f)]
  BY <1>7
<1> QED
  BY <1>8, Zenon DEF Comments, At, N

\* SkipComment passes over comments and what is between them, and over nothing
\* else.
LEMMA CommentsSkipped ==
    ASSUME NEW text, Len(text) \in Nat, NEW p \in 1..End(text)
    PROVE  /\ SkipComment(text, p) \in p..End(text)
           /\ Skipped(text, p, SkipComment(text, p))
           /\ ~IsComment(text, SkipComment(text, p))
<1> DEFINE f == CHOOSE g : Comments(text, g)
           N == End(text)
           Done(q) == /\ f[q] \in q..N /\ Skipped(text, q, f[q])
                      /\ ~IsComment(text, f[q])
           P == {q \in 1..N : Done(q)}
<1>1. Comments(text, f)
  BY CommentsExist
<1>2. SkipComment(text, p) = f[p]
  BY Zenon DEF SkipComment, Comments
<1> HIDE DEF f
<1>3. N \in Nat
  BY DEF End
<1>4. ASSUME NEW q \in 1..N, \A r \in (q + 1)..N : r \in P
      PROVE  Done(q)
  <2>1. CASE ~IsComment(text, q)
    <3>1. f[q] = q
      BY <1>1, <2>1, Zenon DEF Comments
    <3>2. Skipped(text, q, q)
      BY <1>3 DEF Skipped
    <3> QED
      BY <1>3, <2>1, <3>1, <3>2
  <2>2. CASE IsComment(text, q)
    <3> DEFINE e == EndOfLine(text, q)
               r == SkipWhitespace(text, e)
    <3>1. f[q] = f[r]
      BY <1>1, <2>2, Zenon DEF Comments
    <3>2. /\ e \in (q + 2)..N /\ At2(text, q, <<"/", "/">>)
          /\ \A i \in q..(e - 1) : text[i] # "\n"
      BY <2>2, CommentEnds
    <3>3. e \in 1..N
      BY <1>3, <3>2
    <3>4. r \in e..N /\ \A i \in e..(r - 1) : text[i] \in Whitespace
      BY <3>3, WhitespaceSkipped
    <3> HIDE DEF e, r, N
    <3>5. r \in (q + 1)..N
      BY <1>3, <3>2, <3>4
    <3>6. Done(r)
      BY <1>4, <3>5
    <3>7. f[r] \in r..N
      BY <3>6
    <3>8. ASSUME NEW i \in q..(f[r] - 1)
          PROVE  \/ text[i] \in Whitespace
                 \/ \E j \in q..i : /\ j + 1 < f[r] /\ At2(text, j, <<"/", "/">>)
                                    /\ \A k \in j..i : text[k] # "\n"
      <4>1. CASE i < e
        <5>1. q \in q..i /\ q + 1 < f[r]
          BY <1>3, <3>2, <3>4, <3>7
        <5>2. \A k \in q..i : text[k] # "\n"
          BY <3>2, <4>1
        <5> QED
          BY <3>2, <5>1, <5>2
      <4>2. CASE e <= i /\ i < r
        <5>1. i \in e..(r - 1)
          BY <3>2, <3>4, <4>2
        <5> QED
          BY <3>4, <5>1
      <4>3. CASE r <= i
        <5>1. i \in r..(f[r] - 1) /\ \A j \in r..i : j \in q..i
          BY <1>3, <3>5, <3>7, <4>3
        <5>2. Skipped(text, r, f[r])
          BY <3>6
        <5> QED
          BY <5>1, <5>2 DEF Skipped
      <4> QED
        BY <1>3, <3>2, <3>4, <3>7, <4>1, <4>2, <4>3
    <3>9. Skipped(text, q, f[r])
      BY <3>8 DEF Skipped
    <3> QED
      BY <1>3, <3>1, <3>5, <3>6, <3>7, <3>9
  <2> QED
    BY <2>1, <2>2
<1>5. Done(p)
  <2>1. \A q \in 1..N : (\A r \in (q + 1)..N : r \in P) => q \in P
    BY <1>4
  <2> HIDE DEF P, N
  <2>2. p \in P
    BY <1>3, <2>1, ScanInduction DEF N
  <2> QED
    BY <2>2 DEF P
<1> QED
  BY <1>2, <1>5

-----------------------------------------------------------------------------
(* The tokens                                                              *)

\* C has the characters that a string may be read as.
Reads(text, quote, C) ==
    \A q \in 1..Len(text) :
        /\ <<text[q]>> \in Seq(C)
        /\ ReadEscape(text, q, quote).ok => ReadEscape(text, q, quote).out \in Seq(C)

LEMMA EscapeReads ==
    ASSUME NEW raw, Len(raw) \in Nat, NEW i \in 1..Len(raw), NEW quote,
           ReadEscape(raw, i, quote).ok
    PROVE  /\ ReadEscape(raw, i, quote).next \in (i + 2)..End(raw)
           /\ \/ \E c : ReadEscape(raw, i, quote).out = <<c>>
              \/ /\ i + 1 \in 1..Len(raw)
                 /\ ReadEscape(raw, i, quote).out = <<raw[i], raw[i + 1]>>
<1>1. /\ ~Failed.ok
      /\ \A out, next : Read(out, next).out = out
  BY DEF Failed, Read
<1>2. /\ ReadStringEscape(raw, i).ok => \E c : ReadStringEscape(raw, i).out = <<c>>
      /\ ReadSingleQuotedEscape(raw, i).ok =>
            \/ \E c : ReadSingleQuotedEscape(raw, i).out = <<c>>
            \/ /\ i + 1 \in 1..Len(raw)
               /\ ReadSingleQuotedEscape(raw, i).out = <<raw[i], raw[i + 1]>>
  <2>1. CASE i + 1 > Len(raw)
    BY <1>1, <2>1 DEF ReadStringEscape, ReadSingleQuotedEscape
  <2>2. CASE ~(i + 1 > Len(raw))
    <3>1. i + 1 \in 1..Len(raw)
      BY <2>2
    <3>2. ReadStringEscape(raw, i).ok => \E c : ReadStringEscape(raw, i).out = <<c>>
      BY <1>1, <2>2 DEF ReadStringEscape
    <3>3. \/ ReadSingleQuotedEscape(raw, i).out = <<raw[i + 1]>>
          \/ ReadSingleQuotedEscape(raw, i).out = <<raw[i], raw[i + 1]>>
      BY <1>1, <2>2 DEF ReadSingleQuotedEscape
    <3> QED
      BY <3>1, <3>2, <3>3
  <2> QED
    BY <2>1, <2>2
<1>3. CASE quote = "'"
  BY <1>2, <1>3, EscapeEnds DEF ReadEscape, End
<1>4. CASE quote # "'"
  BY <1>2, <1>4, EscapeEnds DEF ReadEscape, End
<1> QED
  BY <1>3, <1>4

LEMMA ReadsExist ==
    ASSUME NEW text, Len(text) \in Nat, NEW quote
    PROVE  \E C : Reads(text, quote, C)
<1> DEFINE e(q) == ReadEscape(text, q, quote)
           C == {text[q] : q \in 1..Len(text)} \cup {e(q).out[1] : q \in 1..Len(text)}
<1>1. ASSUME NEW q \in 1..Len(text)
      PROVE  <<text[q]>> \in Seq(C)
  OBVIOUS
<1>2. ASSUME NEW q \in 1..Len(text), e(q).ok
      PROVE  e(q).out \in Seq(C)
  <2>1. CASE \E c : e(q).out = <<c>>
    <3>1. PICK c : e(q).out = <<c>>
      BY <2>1
    <3>2. c \in C
      BY <3>1
    <3> QED
      BY <3>1, <3>2
  <2>2. CASE q + 1 \in 1..Len(text) /\ e(q).out = <<text[q], text[q + 1]>>
    BY <2>2
  <2> QED
    BY <1>2, <2>1, <2>2, EscapeReads
<1> QED
  BY <1>1, <1>2 DEF Reads

\* StringFrom knows its result, or it asks a later position.
EndsString(text, q, quote, b, r) ==
    \A f : StringFrom(text, q, quote, f) = [ok |-> b, out |-> <<>>, next |-> r]

GoesOn(text, q, quote, r, out) ==
    \A f : StringFrom(text, q, quote, f) = [f[r] EXCEPT !.out = out \o @]

LEMMA StringCases ==
    ASSUME NEW text, Len(text) \in Nat, NEW q \in 1..End(text),
           NEW quote \in Quotes, NEW C, Reads(text, quote, C)
    PROVE  \/ \E r \in q..End(text), b \in BOOLEAN : EndsString(text, q, quote, b, r)
           \/ \E r \in (q + 1)..End(text), out \in Seq(C) :
                  GoesOn(text, q, quote, r, out)
<1> DEFINE e == ReadEscape(text, q, quote)
           ch == Char(text, q)
           N == End(text)
<1>1. N = Len(text) + 1 /\ q \in Nat
  BY DEF End
<1>2. ch # NUL => q \in 1..Len(text) /\ q + 1 \in (q + 1)..N /\ ch = text[q]
  BY <1>1, CharacterAt
<1>3. quote # NUL /\ quote # "\\" /\ NUL # "\\"
  BY CharactersAssumption DEF Quotes
<1>4. CASE ch = NUL
  <2>1. EndsString(text, q, quote, FALSE, Min2(q + 1, N))
    BY <1>3, <1>4, Zenon DEF EndsString, StringFrom, Unterminated
  <2>2. Min2(q + 1, N) \in q..N
    BY <1>1 DEF Min2
  <2> QED
    BY <2>1, <2>2
<1>5. CASE ch = quote
  <2>1. ch # NUL /\ ch # "\\"
    BY <1>3, <1>5
  <2>2. EndsString(text, q, quote, TRUE, q + 1)
    BY <1>5, <2>1, Zenon DEF EndsString, StringFrom
  <2>3. q + 1 \in q..N
    BY <1>1, <1>2, <2>1
  <2> QED
    BY <2>2, <2>3
<1>6. CASE ch = "\\"
  <2>1. ch # NUL /\ ch # quote
    BY <1>3, <1>6
  <2>2. CASE e.ok
    <3>1. GoesOn(text, q, quote, e.next, e.out)
      BY <1>6, <2>1, <2>2, Zenon DEF GoesOn, StringFrom
    <3>2. e.next \in (q + 1)..N
      <4>1. e.next \in (q + 2)..N
        BY <1>2, <2>1, <2>2, EscapeReads
      <4> HIDE DEF e, N
      <4> QED
        BY <1>1, <4>1
    <3>3. e.out \in Seq(C)
      BY <1>2, <2>1, <2>2 DEF Reads
    <3> QED
      BY <3>1, <3>2, <3>3
  <2>3. CASE ~e.ok
    <3>1. EndsString(text, q, quote, FALSE, N)
      BY <1>6, <2>1, <2>3, Zenon DEF EndsString, StringFrom, Unterminated
    <3>2. N \in q..N
      BY <1>1
    <3> QED
      BY <3>1, <3>2
  <2> QED
    BY <2>2, <2>3
<1>7. CASE ch # NUL /\ ch # quote /\ ch # "\\"
  <2>1. GoesOn(text, q, quote, q + 1, <<text[q]>>)
    BY <1>7, Zenon DEF GoesOn, StringFrom
  <2>2. q + 1 \in (q + 1)..N /\ <<text[q]>> \in Seq(C)
    BY <1>2, <1>7 DEF Reads
  <2> QED
    BY <2>1, <2>2
<1> HIDE DEF ch
<1> QED
  BY <1>4, <1>5, <1>6, <1>7

\* The equation of the function in ReadString.
Strings(text, quote, f) ==
    f = [q \in 1..End(text) |-> StringFrom(text, q, quote, f)]

LEMMA StringsExist ==
    ASSUME NEW text, Len(text) \in Nat, NEW quote \in Quotes
    PROVE  \E f : Strings(text, quote, f)
<1>0. PICK C : Reads(text, quote, C)
  BY ReadsExist
<1> DEFINE N == End(text)
           V == [ok : BOOLEAN, out : Seq(C), next : 1..N]
           At(q, f) == StringFrom(text, q, quote, f)
           F == [q \in 1..N |-> [f \in [1..N -> V] |-> At(q, f)]]
<1>1. N \in Nat \ {0}
  BY DEF End
<1>2. V # {}
  <2>1. [ok |-> FALSE, out |-> <<>>, next |-> 1] \in V
    BY <1>1
  <2> QED
    BY <2>1, Zenon
<1>3. ASSUME NEW q \in 1..N, NEW f \in [1..N -> V]
      PROVE  At(q, f) \in V
  <2>1. ASSUME NEW r \in q..N, NEW b \in BOOLEAN, EndsString(text, q, quote, b, r)
        PROVE  At(q, f) \in V
    <3>1. r \in 1..N /\ At(q, f) = [ok |-> b, out |-> <<>>, next |-> r]
      BY <1>1, <2>1 DEF EndsString
    <3> HIDE DEF At, N
    <3> QED
      BY <3>1
  <2>2. ASSUME NEW r \in (q + 1)..N, NEW out \in Seq(C),
               GoesOn(text, q, quote, r, out)
        PROVE  At(q, f) \in V
    <3>1. r \in 1..N
      BY <1>1
    <3>2. At(q, f) = [f[r] EXCEPT !.out = out \o @]
      BY <2>2 DEF GoesOn
    <3> HIDE DEF At, N
    <3>3. f[r] \in V
      BY <3>1
    <3>4. out \o f[r].out \in Seq(C)
      BY <3>3, ConcatProperties
    <3> QED
      BY <3>2, <3>3, <3>4
  <2> QED
    BY <1>0, <2>1, <2>2, StringCases, Zenon
<1>4. ASSUME NEW q \in 1..N, NEW f \in [1..N -> V], NEW g \in [1..N -> V],
             \A r \in (q + 1)..N : f[r] = g[r]
      PROVE  At(q, f) = At(q, g)
  <2>1. ASSUME NEW r, NEW b, EndsString(text, q, quote, b, r)
        PROVE  At(q, f) = At(q, g)
    BY <2>1, Zenon DEF EndsString
  <2>2. ASSUME NEW r \in (q + 1)..N, NEW out, GoesOn(text, q, quote, r, out)
        PROVE  At(q, f) = At(q, g)
    BY <1>4, <2>2, Zenon DEF GoesOn
  <2> QED
    BY <1>0, <2>1, <2>2, StringCases, Zenon
<1> HIDE DEF At, N, V
<1>5. Scanner(N, V, F)
  <2>1. F \in [1..N -> [[1..N -> V] -> V]]
    BY <1>3
  <2>2. \A q \in 1..N : \A f \in [1..N -> V] : F[q][f] = At(q, f)
    OBVIOUS
  <2> HIDE DEF F
  <2>3. ASSUME NEW q \in 1..N, NEW f \in [1..N -> V], NEW g \in [1..N -> V],
               \A r \in (q + 1)..N : f[r] = g[r]
        PROVE  F[q][f] = F[q][g]
    <3>1. At(q, f) = At(q, g)
      BY <1>4, <2>3, Zenon
    <3> QED
      BY <2>2, <3>1
  <2> QED
    BY <2>1, <2>3, Zenon DEF Scanner
<1>6. PICK f : Scan(N, V, F, f)
  BY <1>1, <1>2, <1>5, ScansExist, Zenon
<1>7. f \in [1..N -> V] /\ \A q \in 1..N : f[q] = At(q, f)
  BY <1>6 DEF Scan
<1>8. f = [q \in 1..N |-> At(q, f)]
  BY <1>7
<1> QED
  BY <1>8, Zenon DEF Strings, At, N

\* A string, terminated or not, ends on the text.
LEMMA StringEnds ==
    ASSUME NEW text, Len(text) \in Nat, NEW p \in 1..Len(text), text[p] \in Quotes
    PROVE  /\ ReadString(text, p).first = p
           /\ ReadString(text, p).next \in (p + 1)..End(text)
           /\ ReadString(text, p).type \in {"STRING", "ILLEGAL"}
<1> DEFINE quote == text[p]
           f == CHOOSE g : Strings(text, quote, g)
           N == End(text)
           P == {q \in 1..N : f[q].next \in q..N}
<1>1. Strings(text, quote, f)
  BY StringsExist
<1>2. /\ ReadString(text, p).next = f[p + 1].next
      /\ ReadString(text, p).first = p
      /\ ReadString(text, p).type \in {"STRING", "ILLEGAL"}
  <2>1. ReadString(text, p) = Tok(IF f[p + 1].ok THEN "STRING" ELSE "ILLEGAL", p,
                                  f[p + 1].next, f[p + 1].out)
    BY Zenon DEF ReadString, Strings
  <2> HIDE DEF f
  <2> QED
    BY <2>1 DEF Tok
<1>3. PICK C : Reads(text, quote, C)
  BY ReadsExist
<1>4. N = Len(text) + 1
  BY DEF End
<1> HIDE DEF f, quote, N
<1>5. ASSUME NEW q \in 1..N, \A r \in (q + 1)..N : r \in P
      PROVE  q \in P
  <2>1. f[q] = StringFrom(text, q, quote, f)
    BY <1>1, Zenon DEF Strings, N
  <2>2. ASSUME NEW r \in q..N, NEW b, EndsString(text, q, quote, b, r)
        PROVE  q \in P
    <3>1. f[q] = [ok |-> b, out |-> <<>>, next |-> r]
      BY <2>1, <2>2 DEF EndsString
    <3> QED
      BY <3>1
  <2>3. ASSUME NEW r \in (q + 1)..N, NEW out, GoesOn(text, q, quote, r, out)
        PROVE  q \in P
    <3>1. f[q].next = f[r].next
      <4>1. f[q] = [f[r] EXCEPT !.out = out \o @]
        BY <2>1, <2>3 DEF GoesOn
      <4> QED
        BY <4>1
    <3>2. f[r].next \in r..N
      BY <1>5
    <3> QED
      BY <1>4, <3>1, <3>2
  <2>4. text[p] = quote /\ quote \in Quotes
    BY DEF quote
  <2> QED
    BY <1>3, <2>2, <2>3, <2>4, StringCases, Zenon DEF N
<1>6. p + 1 \in P
  <2>1. N \in Nat /\ p + 1 \in 1..N
    BY <1>4
  <2> HIDE DEF P
  <2> QED
    BY <1>5, <2>1, ScanInduction
<1> QED
  BY <1>2, <1>6 DEF N

\* The equation of RegexEnd.
SlashFrom(text, q, escaped, f) ==
    IF Char(text, q) = NUL \/ (text[q] = "/" /\ ~escaped) THEN q
    ELSE f[q + 1][text[q] = "\\" /\ ~escaped]

Slashes(text, f) ==
    f = [q \in 1..End(text) |-> [escaped \in BOOLEAN |-> SlashFrom(text, q, escaped, f)]]

LEMMA SlashCases ==
    ASSUME NEW text, Len(text) \in Nat, NEW q \in 1..End(text), NEW escaped \in BOOLEAN
    PROVE  \/ \A f : SlashFrom(text, q, escaped, f) = q
           \/ /\ q + 1 \in 1..End(text)
              /\ \E b \in BOOLEAN :
                    \A f : SlashFrom(text, q, escaped, f) = f[q + 1][b]
<1>1. CASE Char(text, q) = NUL \/ (text[q] = "/" /\ ~escaped)
  BY <1>1, Zenon DEF SlashFrom
<1>2. CASE ~(Char(text, q) = NUL \/ (text[q] = "/" /\ ~escaped))
  <2> DEFINE b == text[q] = "\\" /\ ~escaped
  <2>1. \A f : SlashFrom(text, q, escaped, f) = f[q + 1][b]
    BY <1>2, Zenon DEF SlashFrom
  <2>2. b \in BOOLEAN
    OBVIOUS
  <2>3. q \in 1..Len(text)
    BY <1>2, CharacterAt
  <2>4. q + 1 \in 1..End(text)
    BY <2>3 DEF End
  <2> HIDE DEF b
  <2> QED
    BY <2>1, <2>2, <2>4, Zenon
<1> QED
  BY <1>1, <1>2

LEMMA SlashesExist ==
    ASSUME NEW text, Len(text) \in Nat
    PROVE  \E f : Slashes(text, f)
<1> DEFINE N == End(text)
           V == [BOOLEAN -> 1..N]
           At(q, f) == [escaped \in BOOLEAN |-> SlashFrom(text, q, escaped, f)]
           F == [q \in 1..N |-> [f \in [1..N -> V] |-> At(q, f)]]
<1>1. N \in Nat \ {0}
  BY DEF End
<1>2. V # {}
  <2>1. [escaped \in BOOLEAN |-> 1] \in V
    BY <1>1
  <2> QED
    BY <2>1, Zenon
<1>3. ASSUME NEW q \in 1..N, NEW f \in [1..N -> V]
      PROVE  At(q, f) \in V
  <2> SUFFICES ASSUME NEW escaped \in BOOLEAN
               PROVE  SlashFrom(text, q, escaped, f) \in 1..N
    OBVIOUS
  <2>1. CASE \A h : SlashFrom(text, q, escaped, h) = q
    BY <2>1
  <2>2. ASSUME q + 1 \in 1..N, NEW b \in BOOLEAN,
               \A h : SlashFrom(text, q, escaped, h) = h[q + 1][b]
        PROVE  SlashFrom(text, q, escaped, f) \in 1..N
    <3>1. f[q + 1] \in V
      BY <2>2
    <3> QED
      BY <2>2, <3>1
  <2> QED
    BY <2>1, <2>2, SlashCases
<1>4. ASSUME NEW q \in 1..N, NEW f \in [1..N -> V], NEW g \in [1..N -> V],
             \A r \in (q + 1)..N : f[r] = g[r]
      PROVE  At(q, f) = At(q, g)
  <2>1. q + 1 \in 1..N => f[q + 1] = g[q + 1]
    BY <1>1, <1>4
  <2>2. ASSUME NEW escaped \in BOOLEAN
        PROVE  SlashFrom(text, q, escaped, f) = SlashFrom(text, q, escaped, g)
    <3>1. CASE \A h : SlashFrom(text, q, escaped, h) = q
      BY <3>1, Zenon
    <3>2. ASSUME q + 1 \in 1..N, NEW b \in BOOLEAN,
                 \A h : SlashFrom(text, q, escaped, h) = h[q + 1][b]
          PROVE  SlashFrom(text, q, escaped, f) = SlashFrom(text, q, escaped, g)
      BY <2>1, <3>2, Zenon
    <3> QED
      BY <3>1, <3>2, SlashCases
  <2> QED
    BY <2>2
<1> HIDE DEF At, N, V
<1>5. Scanner(N, V, F)
  <2>1. F \in [1..N -> [[1..N -> V] -> V]]
    BY <1>3
  <2>2. \A q \in 1..N : \A f \in [1..N -> V] : F[q][f] = At(q, f)
    OBVIOUS
  <2> HIDE DEF F
  <2>3. ASSUME NEW q \in 1..N, NEW f \in [1..N -> V], NEW g \in [1..N -> V],
               \A r \in (q + 1)..N : f[r] = g[r]
        PROVE  F[q][f] = F[q][g]
    <3>1. At(q, f) = At(q, g)
      BY <1>4, <2>3, Zenon
    <3> QED
      BY <2>2, <3>1
  <2> QED
    BY <2>1, <2>3, Zenon DEF Scanner
<1>6. PICK f : Scan(N, V, F, f)
  BY <1>1, <1>2, <1>5, ScansExist, Zenon
<1>7. f \in [1..N -> V] /\ \A q \in 1..N : f[q] = At(q, f)
  BY <1>6 DEF Scan
<1>8. f = [q \in 1..N |-> At(q, f)]
  BY <1>7
<1> QED
  BY <1>8, Zenon DEF Slashes, At, N

LEMMA RegexEndIs ==
    ASSUME NEW text, Len(text) \in Nat, NEW p \in 1..End(text)
    PROVE  RegexEnd(text, p) \in p..End(text)
<1> DEFINE f == CHOOSE g : Slashes(text, g)
           N == End(text)
           P == {q \in 1..N : \A b \in BOOLEAN : f[q][b] \in q..N}
<1>1. Slashes(text, f)
  BY SlashesExist
<1>2. RegexEnd(text, p) = f[p][FALSE]
  BY Zenon DEF RegexEnd, Slashes, SlashFrom
<1>3. N \in Nat
  BY DEF End
<1> HIDE DEF f, N
<1>4. ASSUME NEW q \in 1..N, \A r \in (q + 1)..N : r \in P
      PROVE  q \in P
  <2> SUFFICES ASSUME NEW e \in BOOLEAN PROVE f[q][e] \in q..N
    OBVIOUS
  <2>1. f[q][e] = SlashFrom(text, q, e, f)
    <3>1. f[q] = [escaped \in BOOLEAN |-> SlashFrom(text, q, escaped, f)]
      BY <1>1, Zenon DEF Slashes, N
    <3> QED
      BY <3>1
  <2>2. CASE \A h : SlashFrom(text, q, e, h) = q
    BY <1>3, <2>1, <2>2
  <2>3. ASSUME q + 1 \in 1..N, NEW b \in BOOLEAN,
               \A h : SlashFrom(text, q, e, h) = h[q + 1][b]
        PROVE  f[q][e] \in q..N
    <3>1. f[q][e] = f[q + 1][b] /\ q + 1 \in (q + 1)..N
      BY <2>1, <2>3
    <3>2. f[q + 1][b] \in (q + 1)..N
      BY <1>4, <3>1
    <3> QED
      BY <1>3, <3>1, <3>2
  <2> QED
    BY <2>2, <2>3, SlashCases DEF N
<1>5. p \in P
  <2>1. p \in 1..N
    BY DEF N
  <2> HIDE DEF P
  <2> QED
    BY <1>3, <1>4, <2>1, ScanInduction
<1> QED
  BY <1>2, <1>5 DEF N

\* A token of a kind in K that begins at p and has a character at least.
Token(text, p, t, K) == /\ t.type \in K /\ t.first = p
                        /\ t.next \in (p + 1)..End(text)

LEMMA RegexIsAToken ==
    ASSUME NEW text, Len(text) \in Nat, NEW p \in 1..Len(text)
    PROVE  Token(text, p, ReadRegex(text, p), {"REGEXP", "ILLEGAL"})
<1> DEFINE q     == RegexEnd(text, p + 1)
           flags == After(text, q + 1, End(text), Letters)
           lit   == SubSeq(text, p + 1, q - 1)
<1>1. End(text) = Len(text) + 1
  BY DEF End
<1>2. q \in (p + 1)..End(text)
  BY <1>1, RegexEndIs
<1>3. CASE Char(text, q) = NUL
  <2>1. ReadRegex(text, p) = Tok("ILLEGAL", p, Min2(q + 1, End(text)), lit)
    BY <1>3 DEF ReadRegex
  <2> HIDE DEF q, lit
  <2>2. Min2(q + 1, End(text)) \in (p + 1)..End(text)
    BY <1>1, <1>2 DEF Min2
  <2> QED
    BY <2>1, <2>2 DEF Tok, Token
<1>4. CASE Char(text, q) # NUL
  <2>1. ReadRegex(text, p) = Tok("REGEXP", p, flags, lit)
    BY <1>4 DEF ReadRegex
  <2> HIDE DEF q, lit
  <2>2. q \in 1..Len(text)
    BY <1>1, <1>2, <1>4, CharacterAt
  <2>3. flags \in (q + 1)..End(text)
    <3>1. q + 1 \in Nat /\ End(text) \in Nat /\ q + 1 <= End(text)
      BY <1>1, <2>2
    <3> QED
      BY <3>1, AfterScan
  <2> HIDE DEF flags
  <2>4. flags \in (p + 1)..End(text)
    BY <1>1, <1>2, <2>2, <2>3
  <2> QED
    BY <2>1, <2>4 DEF Tok, Token
<1> QED
  BY <1>3, <1>4

LEMMA ShellIsAToken ==
    ASSUME NEW text, Len(text) \in Nat, NEW p \in 1..Len(text)
    PROVE  Token(text, p, ReadShell(text, p), {"SHELL", "ILLEGAL"})
<1> DEFINE x    == ReadExpansion(text, p)
           next == IF x.ok THEN x.next ELSE InvalidShellEnd(text, p)
<1>1. ReadShell(text, p) = Tok(IF x.ok THEN "SHELL" ELSE "ILLEGAL", p, next,
                               SubSeq(text, p, next - 1))
  BY DEF ReadShell
<1>2. x.ok => x.next \in (p + 1)..End(text)
  BY ExpansionEnds DEF End
<1>3. InvalidShellEnd(text, p) \in (p + 1)..End(text)
  <2> DEFINE brace == Char(text, p + 1) = "{"
  <2>1. InvalidShellEnd(text, p) =
            IF p + 1 > Len(text) \/ brace THEN End(text) ELSE p + 2
    BY DEF InvalidShellEnd
  <2> HIDE DEF brace
  <2> QED
    BY <2>1 DEF End
<1>4. next \in (p + 1)..End(text)
  BY <1>2, <1>3
<1> HIDE DEF x, next
<1> QED
  BY <1>1, <1>4 DEF Tok, Token

LEMMA IdentifierIsAToken ==
    ASSUME NEW text, Len(text) \in Nat, NEW p \in 1..Len(text), IsStart(text[p])
    PROVE  /\ Token(text, p, ReadIdentifier(text, p), {"IDENT", "KEYWORD"})
           /\ \A i \in p..(ReadIdentifier(text, p).next - 1) : IsPart(text[i])
           /\ ReadIdentifier(text, p).next < End(text) =>
                  ~IsPart(text[ReadIdentifier(text, p).next])
           /\ ReadIdentifier(text, p).type = "IDENT" <=>
                  SubSeq(text, p, ReadIdentifier(text, p).next - 1) \notin Keywords
<1> DEFINE S    == Letters \cup Digits \cup {"."}
           next == After(text, p, End(text), S)
           word == SubSeq(text, p, next - 1)
<1>1. ReadIdentifier(text, p) =
          Tok(IF word \in Keywords THEN "KEYWORD" ELSE "IDENT", p, next, word)
  BY DEF ReadIdentifier
<1>2. /\ next \in p..End(text)
      /\ next < End(text) => text[next] \notin S
      /\ \A j \in p..(next - 1) : text[j] \in S
  <2>1. p \in Nat /\ End(text) \in Nat /\ p <= End(text)
    BY DEF End
  <2> HIDE DEF S
  <2> QED
    BY <2>1, AfterScan
<1>3. text[p] \in S /\ p < End(text)
  BY DEF IsStart, End
<1>4. next \in (p + 1)..End(text)
  <2> HIDE DEF next, S
  <2> QED
    BY <1>2, <1>3 DEF End
<1>5. \A c : IsPart(c) <=> c \in S
  BY DEF IsPart
<1> HIDE DEF next, S, word
<1>6. ReadIdentifier(text, p).next = next
  BY <1>1 DEF Tok
<1>7. /\ Token(text, p, ReadIdentifier(text, p), {"IDENT", "KEYWORD"})
      /\ ReadIdentifier(text, p).type = "IDENT" <=> word \notin Keywords
  BY <1>1, <1>4 DEF Tok, Token
<1> QED
  BY <1>2, <1>5, <1>6, <1>7 DEF word

LEMMA NumberIsAToken ==
    ASSUME NEW text, Len(text) \in Nat, NEW p \in 1..Len(text), text[p] \in Digits
    PROVE  Token(text, p, ReadNumber(text, p), {"INT"})
<1> DEFINE next == After(text, p, End(text), Digits)
<1>1. ReadNumber(text, p) = Tok("INT", p, next, SubSeq(text, p, next - 1))
  BY DEF ReadNumber
<1>2. next \in p..End(text) /\ (next < End(text) => text[next] \notin Digits)
  <2>1. p \in Nat /\ End(text) \in Nat /\ p <= End(text)
    BY DEF End
  <2> QED
    BY <2>1, AfterScan
<1> HIDE DEF next
<1>3. next \in (p + 1)..End(text)
  BY <1>2 DEF End
<1> QED
  BY <1>1, <1>3 DEF Tok, Token

LEMMA OperatorIsAToken ==
    ASSUME NEW text, Len(text) \in Nat, NEW p \in 1..Len(text)
    PROVE  Token(text, p, ReadOperator(text, p), {"OPERATOR", "ILLEGAL"})
<1> DEFINE pair == \E s \in Pairs : At2(text, p, s)
           next == IF pair THEN p + 2 ELSE p + 1
<1>1. ReadOperator(text, p) =
          Tok(IF pair \/ text[p] \in Singles THEN "OPERATOR" ELSE "ILLEGAL",
              p, next, SubSeq(text, p, next - 1))
  BY DEF ReadOperator
<1>2. pair => p + 1 <= Len(text)
  BY DEF At2
<1> HIDE DEF pair
<1>3. next \in (p + 1)..End(text)
  BY <1>2 DEF End
<1> HIDE DEF next
<1> QED
  BY <1>1, <1>3 DEF Tok, Token

\* What a character begins: each has one arm of TokenAt.
LEMMA TokenAtCases ==
    ASSUME NEW text, Len(text) \in Nat, NEW p \in 1..End(text)
    PROVE  LET ch == Char(text, p)
           IN  /\ ch = NUL => TokenAt(text, p) = Tok("EOF", p, Min2(p + 1, End(text)), <<>>)
               /\ ch = "$" => TokenAt(text, p) = ReadShell(text, p)
               /\ ch \in Quotes => TokenAt(text, p) = ReadString(text, p)
               /\ ch = "/" => TokenAt(text, p) = ReadRegex(text, p)
               /\ IsStart(ch) => TokenAt(text, p) = ReadIdentifier(text, p)
               /\ ch \in Digits => TokenAt(text, p) = ReadNumber(text, p)
               /\ \/ ch \in Quotes \cup Digits \cup {NUL, "$", "/"} \/ IsStart(ch)
                  \/ TokenAt(text, p) = ReadOperator(text, p)
<1> DEFINE ch == Char(text, p)
           eof == ch = NUL
           shell == ch = "$"
           string == ch \in Quotes
           regex == ch = "/"
           name == IsStart(ch)
           number == ch \in Digits
<1>1. /\ eof => ~shell /\ ~string /\ ~regex /\ ~name /\ ~number
      /\ shell => ~string /\ ~regex /\ ~name /\ ~number
      /\ string => ~regex /\ ~name /\ ~number
      /\ regex => ~name /\ ~number
      /\ name => ~number
  BY CharactersAssumption DEF Quotes, IsStart
<1>2. TokenAt(text, p) =
          CASE eof    -> Tok("EOF", p, Min2(p + 1, End(text)), <<>>)
            [] shell  -> ReadShell(text, p)
            [] string -> ReadString(text, p)
            [] regex  -> ReadRegex(text, p)
            [] name   -> ReadIdentifier(text, p)
            [] number -> ReadNumber(text, p)
            [] OTHER  -> ReadOperator(text, p)
  BY Zenon DEF TokenAt
<1>3. ch \in Quotes \cup Digits \cup {NUL, "$", "/"} <=>
          eof \/ shell \/ string \/ regex \/ number
  BY Zenon
<1> HIDE DEF eof, shell, string, regex, name, number
<1>4. /\ eof => TokenAt(text, p) = Tok("EOF", p, Min2(p + 1, End(text)), <<>>)
      /\ shell => TokenAt(text, p) = ReadShell(text, p)
      /\ string => TokenAt(text, p) = ReadString(text, p)
      /\ regex => TokenAt(text, p) = ReadRegex(text, p)
      /\ name => TokenAt(text, p) = ReadIdentifier(text, p)
      /\ number => TokenAt(text, p) = ReadNumber(text, p)
      /\ ~(eof \/ shell \/ string \/ regex \/ name \/ number) =>
            TokenAt(text, p) = ReadOperator(text, p)
  BY <1>1, <1>2, Zenon
<1> QED
  BY <1>3, <1>4, Zenon DEF eof, shell, string, regex, name, number

\* A token has a character at least, unless it is the end.
LEMMA TokenEnds ==
    ASSUME NEW text, Len(text) \in Nat, NEW p \in 1..End(text)
    PROVE  LET t == TokenAt(text, p)
           IN  /\ t.first = p /\ t.next \in p..End(text)
               /\ p < t.next \/ p = End(text)
               /\ t.type = "EOF" <=> Char(text, p) = NUL
               /\ t.type = "IDENT" => IsStart(Char(text, p))
<1> DEFINE ch == Char(text, p)
           t  == TokenAt(text, p)
           K  == {"REGEXP", "SHELL", "IDENT", "KEYWORD", "INT", "OPERATOR",
                  "STRING", "ILLEGAL"}
<1>1. CASE ch = NUL
  <2>1. t = Tok("EOF", p, Min2(p + 1, End(text)), <<>>)
    BY <1>1, TokenAtCases
  <2> HIDE DEF t
  <2>2. Min2(p + 1, End(text)) \in p..End(text)
    BY DEF Min2, End
  <2>3. p < Min2(p + 1, End(text)) \/ p = End(text)
    BY DEF Min2, End
  <2>4. /\ t.type = "EOF" /\ t.first = p /\ t.next = Min2(p + 1, End(text))
    BY <2>1 DEF Tok
  <2> QED
    BY <1>1, <2>2, <2>3, <2>4 DEF t
<1>2. CASE ch # NUL
  <2>1. p \in 1..Len(text) /\ ch = text[p]
    BY <1>2, CharacterAt
  <2>2. \/ Token(text, p, t, K \ {"IDENT"})
        \/ Token(text, p, t, K) /\ IsStart(ch)
    <3>1. CASE ch = "$"
      <4>1. Token(text, p, ReadShell(text, p), {"SHELL", "ILLEGAL"})
        BY <2>1, ShellIsAToken
      <4>2. t = ReadShell(text, p)
        BY <3>1, TokenAtCases
      <4> HIDE DEF t, ch
      <4> QED
        BY <4>1, <4>2 DEF Token
    <3>2. CASE ch \in Quotes
      <4>1. Token(text, p, ReadString(text, p), {"STRING", "ILLEGAL"})
        BY <2>1, <3>2, StringEnds DEF Token
      <4>2. t = ReadString(text, p)
        BY <3>2, TokenAtCases
      <4> HIDE DEF t, ch
      <4> QED
        BY <4>1, <4>2 DEF Token
    <3>3. CASE ch = "/"
      <4>1. Token(text, p, ReadRegex(text, p), {"REGEXP", "ILLEGAL"})
        BY <2>1, RegexIsAToken
      <4>2. t = ReadRegex(text, p)
        BY <3>3, TokenAtCases
      <4> HIDE DEF t, ch
      <4> QED
        BY <4>1, <4>2 DEF Token
    <3>4. CASE IsStart(ch)
      <4>1. Token(text, p, ReadIdentifier(text, p), {"IDENT", "KEYWORD"})
        BY <2>1, <3>4, IdentifierIsAToken
      <4>2. t = ReadIdentifier(text, p)
        BY <3>4, TokenAtCases
      <4> HIDE DEF t, ch
      <4> QED
        BY <3>4, <4>1, <4>2 DEF Token
    <3>5. CASE ch \in Digits
      <4>1. Token(text, p, ReadNumber(text, p), {"INT"})
        BY <2>1, <3>5, NumberIsAToken
      <4>2. t = ReadNumber(text, p)
        BY <3>5, TokenAtCases
      <4> HIDE DEF t, ch
      <4> QED
        BY <4>1, <4>2 DEF Token
    <3>6. CASE t = ReadOperator(text, p)
      <4>1. Token(text, p, ReadOperator(text, p), {"OPERATOR", "ILLEGAL"})
        BY <2>1, OperatorIsAToken
      <4> HIDE DEF t, ch
      <4> QED
        BY <3>6, <4>1 DEF Token
    <3>7. \/ ch \in Quotes \cup Digits \cup {NUL, "$", "/"} \/ IsStart(ch)
          \/ t = ReadOperator(text, p)
      BY TokenAtCases
    <3> HIDE DEF ch, t, K
    <3> QED
      BY <1>2, <3>1, <3>2, <3>3, <3>4, <3>5, <3>6, <3>7
  <2> HIDE DEF t
  <2>3. t.first = p /\ t.next \in (p + 1)..End(text) /\ t.type \in K
    BY <2>2 DEF Token
  <2>4. t.type = "IDENT" => IsStart(ch)
    BY <2>2 DEF Token
  <2>5. t.next \in p..End(text) /\ p < t.next
    BY <2>3 DEF End
  <2>6. t.type # "EOF"
    BY <2>3
  <2> HIDE DEF ch
  <2> QED
    BY <1>2, <2>3, <2>4, <2>5, <2>6 DEF t, ch
<1> QED
  BY <1>1, <1>2

-----------------------------------------------------------------------------
(* The next token                                                          *)

Start(text, p) == SkipComment(text, SkipWhitespace(text, p))

\* The next token is at or after p, with only whitespace and comments between.
LEMMA StartIsSkipped ==
    ASSUME NEW text, Len(text) \in Nat, NEW p \in 1..End(text)
    PROVE  /\ Start(text, p) \in p..End(text)
           /\ Skipped(text, p, Start(text, p))
<1> DEFINE q == SkipWhitespace(text, p)
           r == SkipComment(text, q)
<1>1. q \in p..End(text) /\ \A i \in p..(q - 1) : text[i] \in Whitespace
  BY WhitespaceSkipped
<1>2. q \in 1..End(text) /\ End(text) \in Nat
  BY <1>1 DEF End
<1> HIDE DEF q
<1>3. r \in q..End(text) /\ Skipped(text, q, r)
  BY <1>2, CommentsSkipped
<1> HIDE DEF r
<1>4. r \in p..End(text)
  BY <1>1, <1>2, <1>3
<1>5. ASSUME NEW i \in p..(r - 1)
      PROVE  \/ text[i] \in Whitespace
             \/ \E j \in p..i : /\ j + 1 < r /\ At2(text, j, <<"/", "/">>)
                                /\ \A k \in j..i : text[k] # "\n"
  <2>1. CASE i < q
    <3>1. i \in p..(q - 1)
      BY <1>1, <1>2, <2>1
    <3> QED
      BY <1>1, <3>1
  <2>2. CASE q <= i
    <3>1. i \in q..(r - 1) /\ \A j \in q..i : j \in p..i
      BY <1>1, <1>2, <1>3, <2>2
    <3> QED
      BY <1>3, <3>1 DEF Skipped
  <2>3. i < q \/ q <= i
    BY <1>1, <1>2, <1>3
  <2> QED
    BY <2>1, <2>2, <2>3
<1>6. Skipped(text, p, r)
  BY <1>5 DEF Skipped
<1> QED
  BY <1>4, <1>6 DEF Start, r, q

\* Nothing is skipped before a character that begins no comment.
LEMMA NothingToSkip ==
    ASSUME NEW text, Len(text) \in Nat, NEW p \in 1..Len(text),
           text[p] \notin Whitespace, text[p] # "/"
    PROVE  Start(text, p) = p
<1>1. p \in 1..End(text) /\ End(text) = Len(text) + 1 /\ Char(text, p) = text[p]
  BY DEF End, Char
<1>2. SkipWhitespace(text, p) = p
  <2> DEFINE q == SkipWhitespace(text, p)
  <2>1. q \in p..End(text) /\ \A i \in p..(q - 1) : text[i] \in Whitespace
    BY <1>1, WhitespaceSkipped
  <2> HIDE DEF q
  <2>2. q = p
    <3> SUFFICES ASSUME q # p PROVE FALSE
      OBVIOUS
    <3>1. p \in p..(q - 1)
      BY <1>1, <2>1
    <3> QED
      BY <2>1, <3>1
  <2> QED
    BY <2>2 DEF q
<1>3. ~IsComment(text, p)
  BY <1>1 DEF IsComment
<1>4. SkipComment(text, p) = p
  <2> DEFINE f == CHOOSE g : Comments(text, g)
  <2>1. Comments(text, f)
    BY CommentsExist
  <2>2. SkipComment(text, p) = f[p]
    BY Zenon DEF SkipComment, Comments
  <2> HIDE DEF f
  <2>3. f[p] = p
    BY <1>1, <1>3, <2>1, Zenon DEF Comments
  <2> QED
    BY <2>2, <2>3
<1> QED
  BY <1>2, <1>4 DEF Start

LEMMA NextTokenEnds ==
    ASSUME NEW text, Len(text) \in Nat, NEW p \in 1..End(text)
    PROVE  LET t == TokenFrom(text, p)
           IN  /\ t.first \in p..End(text) /\ t.next \in t.first..End(text)
               /\ t.first < t.next \/ t.first = End(text)
               /\ Skipped(text, p, t.first)
               /\ t.type = "EOF" <=> Char(text, t.first) = NUL
<1> DEFINE r == Start(text, p)
           t == TokenAt(text, r)
<1>1. r \in p..End(text) /\ Skipped(text, p, r)
  BY StartIsSkipped
<1> HIDE DEF r
<1>2. r \in 1..End(text)
  BY <1>1 DEF End
<1>3. /\ t.first = r /\ t.next \in r..End(text)
      /\ r < t.next \/ r = End(text)
      /\ t.type = "EOF" <=> Char(text, r) = NUL
  BY <1>2, TokenEnds
<1>4. TokenFrom(text, p) = t
  BY DEF TokenFrom, Start, r
<1> HIDE DEF t
<1> QED
  BY <1>1, <1>3, <1>4

-----------------------------------------------------------------------------
(* The theorems                                                            *)

\* Once a token has been read, it is the one that the lexer finds from the
\* cursor on at which the call began.
LInv == /\ input \in Inputs
        /\ before \in 1..End(input) /\ position \in before..End(input)
        /\ \/ token = NoToken /\ before = 1 /\ position = 1
           \/ token = TokenFrom(input, before) /\ position = token.next

LEMMA InputsAreTexts ==
    ASSUME NEW text \in Inputs
    PROVE  text \in Seq(STRING) /\ Len(text) \in Nat
BY InputsAssumption

LEMMA LInvInvariant == LexerSpec => []LInv
<1>1. New => LInv
  <2> SUFFICES ASSUME NEW text \in Inputs, StartOf(text)
               PROVE  LInv
    BY DEF New
  <2>1. 1 \in 1..End(text)
    BY InputsAreTexts DEF End
  <2> QED
    BY <2>1 DEF StartOf, LInv
<1>2. LInv /\ [NextToken]_lvars => LInv'
  <2> SUFFICES ASSUME LInv, [NextToken]_lvars
               PROVE  LInv'
    OBVIOUS
  <2>1. CASE NextToken
    <3> DEFINE t == TokenFrom(input, position)
    <3>1. /\ token' = t /\ position' = t.next
          /\ before' = position /\ input' = input
      BY <2>1 DEF NextToken
    <3>2. Len(input) \in Nat /\ position \in 1..End(input)
      BY InputsAreTexts DEF LInv, End
    <3>3. t.first \in position..End(input) /\ t.next \in t.first..End(input)
      BY <3>2, NextTokenEnds
    <3>4. token' = TokenFrom(input', before')
      BY <3>1, Zenon
    <3>5. t.next \in position..End(input)
      <4> HIDE DEF t
      <4> QED
        BY <3>2, <3>3 DEF End
    <3> HIDE DEF t
    <3>6. before' \in 1..End(input') /\ position' \in before'..End(input')
      BY <3>1, <3>2, <3>5 DEF End
    <3> QED
      BY <3>1, <3>4, <3>6 DEF LInv
  <2>2. CASE UNCHANGED lvars
    BY <2>2 DEF lvars, LInv
  <2> QED
    BY <2>1, <2>2
<1> QED
  BY <1>1, <1>2, PTL DEF LexerSpec

\* What the invariant says of the token.
LEMMA TokenOfLInv ==
    ASSUME LInv
    PROVE  /\ Len(input) \in Nat
           /\ token.next = position
           /\ token.first \in before..End(input) /\ token.first \in 1..End(input)
           /\ token.first < token.next \/ token.first = End(input) \/ token = NoToken
           /\ Skipped(input, before, token.first)
           /\ token.type = "EOF" => Char(input, token.first) = NUL
<1>1. Len(input) \in Nat /\ before \in 1..End(input) /\ End(input) = Len(input) + 1
  BY InputsAreTexts DEF LInv, End
<1>2. CASE token = NoToken /\ before = 1 /\ position = 1
  <2>1. token.first = 1 /\ token.next = 1 /\ token.type = "none"
    BY <1>2 DEF NoToken, Tok
  <2>2. Skipped(input, 1, 1)
    BY DEF Skipped
  <2> QED
    BY <1>1, <1>2, <2>1, <2>2
<1>3. CASE token = TokenFrom(input, before) /\ position = token.next
  <2>1. /\ token.first \in before..End(input)
        /\ token.first < token.next \/ token.first = End(input)
        /\ Skipped(input, before, token.first)
        /\ token.type = "EOF" => Char(input, token.first) = NUL
    BY <1>1, <1>3, NextTokenEnds
  <2> QED
    BY <1>1, <1>3, <2>1
<1> QED
  BY <1>2, <1>3 DEF LInv

\* The cursor stays on the text whatever the text is, and each call of
\* NextToken moves it, unless the call is at the end: lexer.go.
THEOREM LexerStaysOnTheText == LexerSpec => []LexerTypeOK
<1>1. LInv => LexerTypeOK
  <2> SUFFICES ASSUME LInv PROVE LexerTypeOK
    OBVIOUS
  <2>1. position \in before..End(input) /\ before \in 1..End(input)
    BY DEF LInv
  <2>2. Len(input) \in Nat
    BY TokenOfLInv
  <2>3. position \in 1..End(input) /\ before \in 1..position
    BY <2>1, <2>2 DEF End
  <2>4. before <= token.first
    BY <2>1, <2>2, TokenOfLInv DEF End
  <2> QED
    BY <2>3, <2>4, TokenOfLInv DEF LexerTypeOK
<1> QED
  BY <1>1, LInvInvariant, PTL

\* The lexer passes over nothing but whitespace and comments, and it says that
\* the text is at its end only there or at a NUL: skipWhitespace, skipComment
\* and NextToken of lexer.go.
THEOREM TheLexerLosesNothing == LexerSpec => []NothingIsLost
<1>1. LInv => NothingIsLost
  <2> SUFFICES ASSUME LInv PROVE NothingIsLost
    OBVIOUS
  <2>1. \A i \in before..(token.first - 1) : input[i] \in Whitespace \/ InComment(i)
    BY TokenOfLInv DEF Skipped, InComment
  <2>2. token.type = "EOF" =>
            token.first = End(input) \/ input[token.first] = NUL
    BY TokenOfLInv DEF Char, End
  <2> QED
    BY <2>1, <2>2 DEF NothingIsLost
<1> QED
  BY <1>1, LInvInvariant, PTL

\* The token that begins a name of the registry is that name.
LEMMA NameIsOneToken ==
    ASSUME NEW text \in Inputs, ValidFunctionName(text)
    PROVE  LET t == TokenFrom(text, 1)
           IN  t.type = "IDENT" /\ t.first = 1 /\ t.next = End(text)
<1> DEFINE t == ReadIdentifier(text, 1)
<1>1. /\ text \in Seq(STRING) /\ Len(text) \in Nat
      /\ SubSeq(text, 1, Len(text)) = text
  BY InputsAreTexts, SubSeqFull
<1>2. /\ text # <<>> /\ text \notin Keywords
      /\ IsStart(text[1])
      /\ \A i \in 1..Len(text) : IsPart(text[i])
  BY DEF ValidFunctionName
<1>3. 1 \in 1..Len(text) /\ End(text) = Len(text) + 1 /\ Char(text, 1) = text[1]
  <2>1. Len(text) # 0
    BY <1>1, <1>2, EmptySeq
  <2> QED
    BY <1>1, <2>1 DEF End, Char
<1>4. TokenFrom(text, 1) = t
  <2>1. text[1] \notin Whitespace /\ text[1] # "/"
    BY <1>2, CharactersAssumption DEF IsStart
  <2>2. Start(text, 1) = 1
    BY <1>1, <1>3, <2>1, NothingToSkip
  <2>3. 1 \in 1..End(text)
    BY <1>1, <1>3
  <2>4. TokenAt(text, 1) = t
    BY <1>1, <1>2, <1>3, <2>3, TokenAtCases
  <2> QED
    BY <2>2, <2>4 DEF TokenFrom, Start
<1>5. /\ t.first = 1 /\ t.next \in 2..End(text)
      /\ t.next < End(text) => ~IsPart(text[t.next])
      /\ t.type = "IDENT" <=> SubSeq(text, 1, t.next - 1) \notin Keywords
  BY <1>1, <1>2, <1>3, IdentifierIsAToken DEF Token
<1> HIDE DEF t
<1>6. t.next = End(text)
  <2> SUFFICES ASSUME t.next < End(text) PROVE FALSE
    BY <1>3, <1>5
  <2>1. t.next \in 1..Len(text)
    BY <1>1, <1>3, <1>5
  <2> QED
    BY <1>2, <1>5, <2>1
<1>7. t.type = "IDENT"
  <2>1. t.next - 1 = Len(text)
    BY <1>1, <1>3, <1>6
  <2> QED
    BY <1>1, <1>2, <1>5, <2>1
<1> QED
  BY <1>4, <1>5, <1>6, <1>7

\* A text that is one identifier token, and well dotted, is such a name.
LEMMA OneTokenIsName ==
    ASSUME NEW text \in Inputs,
           TokenFrom(text, 1).type = "IDENT",
           SubSeq(text, TokenFrom(text, 1).first, TokenFrom(text, 1).next - 1) = text,
           ~BadlyDotted(text)
    PROVE  ValidFunctionName(text)
<1> DEFINE r == Start(text, 1)
           t == ReadIdentifier(text, r)
<1>1. /\ text \in Seq(STRING) /\ Len(text) \in Nat
      /\ End(text) = Len(text) + 1 /\ 1 \in 1..End(text)
  BY InputsAreTexts DEF End
<1>2. r \in 1..End(text)
  BY <1>1, StartIsSkipped
<1>3. TokenFrom(text, 1) = TokenAt(text, r)
  BY DEF TokenFrom, Start
<1> HIDE DEF r
<1>4. IsStart(Char(text, r)) /\ TokenAt(text, r) = t
  BY <1>1, <1>2, <1>3, TokenEnds, TokenAtCases
<1>5. r \in 1..Len(text) /\ IsStart(text[r])
  <2>1. Char(text, r) # NUL
    BY <1>4, CharactersAssumption DEF IsStart
  <2>2. r \in Nat
    BY <1>2
  <2>3. r \in 1..Len(text) /\ Char(text, r) = text[r]
    BY <1>1, <2>1, <2>2, CharacterAt
  <2> QED
    BY <1>4, <2>3
<1>6. /\ t.first = r /\ t.next \in (r + 1)..End(text)
      /\ \A i \in r..(t.next - 1) : IsPart(text[i])
      /\ t.type = "IDENT" <=> SubSeq(text, r, t.next - 1) \notin Keywords
  BY <1>1, <1>5, IdentifierIsAToken DEF Token
<1>7. SubSeq(text, r, t.next - 1) = text /\ t.type = "IDENT"
  BY <1>3, <1>4, <1>6
<1> HIDE DEF t
<1>8. r = 1 /\ t.next - 1 = Len(text)
  <2> DEFINE n == t.next - 1
  <2>1. n \in r..Len(text) /\ n \in Int /\ r \in Int
    BY <1>1, <1>5, <1>6
  <2> HIDE DEF n
  <2>2. \A i \in r..n : text[i] \in STRING
    <3> SUFFICES ASSUME NEW i \in r..n PROVE text[i] \in STRING
      OBVIOUS
    <3>1. i \in 1..Len(text)
      BY <1>1, <1>5, <2>1
    <3> QED
      BY <1>1, <3>1, ElementOfSeq
  <2>3. Len(SubSeq(text, r, n)) = n - r + 1
    BY <2>1, <2>2, SubSeqProperties
  <2>4. Len(text) = n - r + 1
    BY <1>7, <2>3 DEF n
  <2> QED
    BY <1>1, <1>5, <2>1, <2>4 DEF n
<1>9. text # <<>> /\ \A i \in 1..Len(text) : IsPart(text[i])
  BY <1>1, <1>5, <1>6, <1>8
<1> QED
  BY <1>5, <1>6, <1>7, <1>8, <1>9 DEF ValidFunctionName

\* A name may be registered just when the lexer reads it as one identifier:
\* validFunctionName of options.go against readIdentifier of lexer.go.
THEOREM EveryRegisteredNameIsCallable == LexerSpec => []RegisteredNamesAreCallable
<1>1. LInv => RegisteredNamesAreCallable
  <2> SUFFICES ASSUME LInv, before = 1, token # NoToken
               PROVE  ValidFunctionName(input)
                          <=> /\ token.type = "IDENT" /\ TokenText = input
                              /\ ~BadlyDotted(TokenText)
    BY DEF RegisteredNamesAreCallable
  <2>1. input \in Inputs /\ token = TokenFrom(input, 1)
    BY DEF LInv
  <2>2. ASSUME ValidFunctionName(input)
        PROVE  /\ token.type = "IDENT" /\ TokenText = input
               /\ ~BadlyDotted(TokenText)
    <3>1. token.type = "IDENT" /\ token.first = 1 /\ token.next = End(input)
      BY <2>1, <2>2, NameIsOneToken
    <3>2. TokenText = input
      <4>1. input \in Seq(STRING) /\ Len(input) \in Nat
        BY <2>1, InputsAreTexts
      <4>2. token.next - 1 = Len(input)
        BY <3>1, <4>1 DEF End
      <4> QED
        BY <3>1, <4>1, <4>2, SubSeqFull DEF TokenText
    <3>3. ~BadlyDotted(input)
      BY <2>2 DEF ValidFunctionName
    <3> QED
      BY <3>1, <3>2, <3>3
  <2>3. ASSUME token.type = "IDENT", TokenText = input, ~BadlyDotted(TokenText)
        PROVE  ValidFunctionName(input)
    BY <2>1, <2>3, OneTokenIsName DEF TokenText
  <2> QED
    BY <2>2, <2>3
<1> QED
  BY <1>1, LInvInvariant, PTL
-----------------------------------------------------------------------------
(***************************************************************************)
(* A token is the longest lexeme.                                          *)
(*                                                                         *)
(* The lexemes are declared of texts that stand alone, the scanners read   *)
(* a text from a place in it.  A lexeme that begins at p is the part       *)
(* Cut(text, p, n) of the text, and what its declaration says of the part  *)
(* is compared with what the scanner does at each position of the text.    *)
(***************************************************************************)


-----------------------------------------------------------------------------
(* The parts of a text                                                     *)

\* The n characters from p on.
Cut(text, p, n) == SubSeq(text, p, p + n - 1)

LEMMA CutProperties ==
    ASSUME NEW text \in Seq(STRING), NEW p \in 1..Len(text),
           NEW n \in 1..(End(text) - p)
    PROVE  /\ Len(text) \in Nat /\ End(text) = Len(text) + 1
           /\ Len(Cut(text, p, n)) = n
           /\ \A i \in 1..n : /\ Cut(text, p, n)[i] = text[p + i - 1]
                              /\ p + i - 1 \in 1..Len(text)
<1>1. Len(text) \in Nat /\ End(text) = Len(text) + 1
  BY DEF End
<1>2. p + n - 1 \in 1..Len(text) /\ p <= p + n - 1
  BY <1>1
<1>3. \A i \in p..(p + n - 1) : i \in 1..Len(text)
  BY <1>1, <1>2
<1>4. /\ Len(Cut(text, p, n)) = p + n - 1 - p + 1
      /\ \A i \in 1..(p + n - 1 - p + 1) : Cut(text, p, n)[i] = text[p + i - 1]
  BY <1>2, <1>3, SubSeqProperties DEF Cut
<1> QED
  BY <1>1, <1>2, <1>4

LEMMA MaxOf ==
    ASSUME NEW N \in Nat, NEW T \in SUBSET (0..N), T # {}
    PROVE  Max(T) \in T /\ \A j \in T : j <= Max(T)
<1> DEFINE U == {N - j : j \in T}
<1>1. U \in SUBSET Nat /\ U # {}
  <2>1. \A j \in T : N - j \in Nat
    OBVIOUS
  <2>2. PICK j \in T : TRUE
    OBVIOUS
  <2> QED
    BY <2>1, <2>2
<1>2. PICK k \in U : \A j \in U : k <= j
  <2> HIDE DEF U
  <2> QED
    BY <1>1, LeastExists
<1>3. PICK m \in T : k = N - m
  OBVIOUS
<1>4. \A j \in T : j <= m
  <2> TAKE j \in T
  <2>1. N - j \in U
    OBVIOUS
  <2> QED
    BY <1>2, <1>3, <2>1
<1>5. \E x \in T : \A y \in T : x >= y
  <2>1. \A y \in T : m >= y
    BY <1>4
  <2> QED
    BY <2>1
<1>6. Max(T) \in T /\ \A y \in T : Max(T) >= y
  BY <1>5, Zenon DEF Max
<1> QED
  BY <1>6

\* The last position before i that holds no backslash, 0 if there is none.
Unslashed(s, i) == {0} \cup {j \in 1..(i - 1) : s[j] # "\\"}

LEMMA EscapedSteps ==
    ASSUME NEW s
    PROVE  /\ ~IsEscaped(s, 1)
           /\ \A i \in Nat \ {0} :
                 IsEscaped(s, i + 1) <=> (s[i] = "\\" /\ ~IsEscaped(s, i))
<1> DEFINE M(i) == Max(Unslashed(s, i))
<1>1. \A i : IsEscaped(s, i) <=> (i - 1 - M(i)) % 2 = 1
  BY DEF IsEscaped, Unslashed
<1>2. ASSUME NEW i \in Nat \ {0}
      PROVE  /\ M(i) \in 0..(i - 1) /\ M(i) \in Unslashed(s, i)
             /\ \A j \in Unslashed(s, i) : j <= M(i)
  <2>1. i - 1 \in Nat /\ Unslashed(s, i) \in SUBSET (0..(i - 1)) /\ Unslashed(s, i) # {}
    BY DEF Unslashed
  <2> QED
    BY <2>1, MaxOf
<1> HIDE DEF M
<1>3. ~IsEscaped(s, 1)
  <2>1. M(1) \in 0..(1 - 1)
    BY <1>2
  <2>2. M(1) = 0 /\ (1 - 1 - 0) % 2 # 1
    BY <2>1
  <2> QED
    BY <1>1, <2>2
<1>4. ASSUME NEW i \in Nat \ {0}
      PROVE  IsEscaped(s, i + 1) <=> (s[i] = "\\" /\ ~IsEscaped(s, i))
  <2>1. i + 1 \in Nat \ {0} /\ i + 1 - 1 = i
    OBVIOUS
  <2>2. /\ M(i + 1) \in 0..i /\ M(i + 1) \in Unslashed(s, i + 1)
        /\ \A j \in Unslashed(s, i + 1) : j <= M(i + 1)
    BY <1>2, <2>1
  <2>3. CASE s[i] = "\\"
    <3>1. Unslashed(s, i + 1) = Unslashed(s, i)
      BY <2>3 DEF Unslashed
    <3>2. M(i + 1) = M(i) /\ M(i) \in Nat
      BY <1>2, <3>1 DEF M
    <3>3. M(i) <= i - 1
      BY <1>2
    <3>4. (i - M(i)) % 2 = 1 <=> ~((i - 1 - M(i)) % 2 = 1)
      <4> DEFINE m == i - 1 - M(i)
      <4>1. m \in Nat /\ i - M(i) = m + 1
        BY <3>2, <3>3
      <4> HIDE DEF m
      <4>2. (m + 1) % 2 = 1 <=> ~(m % 2 = 1)
        BY <4>1
      <4> QED
        BY <4>1, <4>2 DEF m
    <3> QED
      BY <1>1, <2>1, <2>3, <3>2, <3>4
  <2>4. CASE s[i] # "\\"
    <3>1. i \in Unslashed(s, i + 1)
      BY <2>4 DEF Unslashed
    <3>2. M(i + 1) = i
      BY <2>2, <3>1
    <3>3. (i - i) % 2 # 1
      OBVIOUS
    <3> QED
      BY <1>1, <2>1, <2>4, <3>2, <3>3
  <2> QED
    BY <2>3, <2>4
<1> QED
  BY <1>3, <1>4

\* The text from p on has an odd number of backslashes right before q.
Escaped(text, p, q) == IsEscaped(SubSeq(text, p, Len(text)), q - p + 1)

LEMMA EscapedInText ==
    ASSUME NEW text \in Seq(STRING), NEW p \in 1..Len(text)
    PROVE  /\ ~Escaped(text, p, p)
           /\ \A q \in p..Len(text) :
                 Escaped(text, p, q + 1) <=> (text[q] = "\\" /\ ~Escaped(text, p, q))
<1> DEFINE n == End(text) - p
           s == Cut(text, p, n)
<1>1. Len(text) \in Nat /\ n \in 1..(End(text) - p) /\ p + n - 1 = Len(text)
  BY DEF End
<1>2. s = SubSeq(text, p, Len(text))
  BY <1>1 DEF Cut
<1>3. \A i \in 1..n : s[i] = text[p + i - 1]
  BY <1>1, CutProperties
<1>4. \A q : Escaped(text, p, q) <=> IsEscaped(s, q - p + 1)
  BY <1>2 DEF Escaped
<1> HIDE DEF s
<1>5. p - p + 1 = 1
  OBVIOUS
<1>6. ASSUME NEW q \in p..Len(text)
      PROVE  Escaped(text, p, q + 1) <=> (text[q] = "\\" /\ ~Escaped(text, p, q))
  <2> DEFINE i == q - p + 1
  <2>1. i \in Nat \ {0} /\ i \in 1..n /\ q + 1 - p + 1 = i + 1 /\ p + i - 1 = q
    BY <1>1
  <2>2. s[i] = text[q]
    BY <1>3, <2>1
  <2>3. IsEscaped(s, i + 1) <=> (s[i] = "\\" /\ ~IsEscaped(s, i))
    BY <2>1, EscapedSteps
  <2>4. Escaped(text, p, q + 1) <=> IsEscaped(s, i + 1)
    BY <1>4, <2>1
  <2>5. Escaped(text, p, q) <=> IsEscaped(s, i)
    BY <1>4
  <2> HIDE DEF i
  <2> QED
    BY <2>2, <2>3, <2>4, <2>5
<1> QED
  BY <1>4, <1>5, <1>6, EscapedSteps

\* What is escaped in a part is escaped in the text.
LEMMA EscapedInCut ==
    ASSUME NEW text \in Seq(STRING), NEW p \in 1..Len(text),
           NEW n \in 1..(End(text) - p), NEW i \in 1..n
    PROVE  IsEscaped(Cut(text, p, n), i) <=> Escaped(text, p, p + i - 1)
<1> DEFINE m == End(text) - p
           s == Cut(text, p, n)
           u == Cut(text, p, m)
<1>1. Len(text) \in Nat /\ m \in 1..(End(text) - p) /\ p + m - 1 = Len(text) /\ n <= m
  BY DEF End
<1>2. u = SubSeq(text, p, Len(text))
  BY <1>1 DEF Cut
<1>3. /\ \A j \in 1..m : u[j] = text[p + j - 1]
      /\ \A j \in 1..n : s[j] = text[p + j - 1]
  BY <1>1, CutProperties
<1>4. \A j \in 1..(i - 1) : s[j] = u[j]
  BY <1>1, <1>3
<1> HIDE DEF s, u
<1>5. {0} \cup {j \in 1..(i - 1) : s[j] # "\\"} = {0} \cup {j \in 1..(i - 1) : u[j] # "\\"}
  BY <1>4
<1>6. IsEscaped(s, i) <=> IsEscaped(u, i)
  BY <1>5 DEF IsEscaped
<1>7. p + i - 1 - p + 1 = i
  OBVIOUS
<1> QED
  BY <1>2, <1>6, <1>7 DEF Escaped, s

-----------------------------------------------------------------------------
(* Octal escapes                                                           *)

HighDigits == {"4", "5", "6", "7"}

LEMMA OctalValue ==
    ASSUME NEW ch \in OctalDigits
    PROVE  /\ NumeralValue(ch) \in 0..7
           /\ NumeralValue(ch) >= 4 <=> ch \in HighDigits
<1> DEFINE n == CHOOSE k \in 1..16 : Numerals[k] = ch
<1>1. PICK m \in 1..8 : ch = Numerals[m]
  BY DEF OctalDigits
<1>2. m \in 1..16
  OBVIOUS
<1>3. n \in 1..16 /\ Numerals[n] = ch
  BY <1>1, <1>2
<1>4. n = m
  <2> HIDE DEF n
  <2>1. m = 1 \/ m = 2 \/ m = 3 \/ m = 4 \/ m = 5 \/ m = 6 \/ m = 7 \/ m = 8
    BY <1>1
  <2> QED
    BY <1>1, <1>3, <2>1 DEF Numerals
<1>5. m >= 4 + 1 <=> Numerals[m] \in HighDigits
  BY <1>1 DEF Numerals, HighDigits
<1>6. NumeralValue(ch) = m - 1
  BY <1>4 DEF NumeralValue
<1> QED
  BY <1>1, <1>5, <1>6

LEMMA ThreeOctals ==
    ASSUME NEW a \in 0..7, NEW b \in 0..7, NEW c \in 0..7
    PROVE  (a * 8 + b) * 8 + c > 255 <=> a >= 4
OBVIOUS

\* A number of at most three octal digits.
LEMMA OctalNumber ==
    ASSUME NEW s, Len(s) \in 1..3, \A k \in 1..Len(s) : s[k] \in OctalDigits
    PROVE  NumberIn(s, 8) > 255 <=> Len(s) = 3 /\ s[1] \in HighDigits
<1> DEFINE v(k) == NumeralValue(s[k])
           F(g, k) == IF k = 0 THEN 0 ELSE g[k - 1] * 8 + v(k)
           w == [k \in 0..Len(s) |-> CASE k = 0 -> 0
                                       [] k = 1 -> v(1)
                                       [] k = 2 -> v(1) * 8 + v(2)
                                       [] OTHER -> (v(1) * 8 + v(2)) * 8 + v(3)]
           g == CHOOSE h : h = [k \in 0..Len(s) |-> F(h, k)]
<1>1. \A k \in 1..Len(s) : v(k) \in 0..7 /\ (v(k) >= 4 <=> s[k] \in HighDigits)
  BY OctalValue
<1>2. NumberIn(s, 8) = g[Len(s)]
  BY Zenon DEF NumberIn
<1> HIDE DEF v
<1>3. w = [k \in 0..Len(s) |-> F(w, k)]
  <2>1. \A k \in 0..Len(s) : w[k] = F(w, k)
    <3> TAKE k \in 0..Len(s)
    <3>1. k = 0 \/ k = 1 \/ k = 2 \/ k = 3
      OBVIOUS
    <3>2. CASE k = 0
      BY <3>2
    <3>3. CASE k = 1
      BY <1>1, <3>3
    <3>4. CASE k = 2
      BY <1>1, <3>4
    <3>5. CASE k = 3
      BY <1>1, <3>5
    <3> QED
      BY <3>1, <3>2, <3>3, <3>4, <3>5
  <2> HIDE DEF F
  <2> QED
    BY <2>1
<1>4. g = [k \in 0..Len(s) |-> F(g, k)]
  <2> HIDE DEF w, F
  <2> QED
    BY <1>3, Zenon
<1> HIDE DEF g, w
<1>5. \A k \in 0..Len(s) : g[k] = F(g, k)
  BY <1>4, Zenon
<1>6. g[0] = 0 /\ g[1] = g[0] * 8 + v(1)
  BY <1>5
<1>7. g[1] = v(1)
  BY <1>1, <1>6
<1>8. Len(s) > 1 => g[2] = v(1) * 8 + v(2)
  BY <1>5, <1>7
<1>9. Len(s) > 2 => g[3] = (v(1) * 8 + v(2)) * 8 + v(3)
  BY <1>5, <1>8
<1>10. CASE Len(s) = 1
  BY <1>1, <1>2, <1>7, <1>10
<1>11. CASE Len(s) = 2
  BY <1>1, <1>2, <1>8, <1>11
<1>12. CASE Len(s) = 3
  <2>1. NumberIn(s, 8) = (v(1) * 8 + v(2)) * 8 + v(3)
    BY <1>2, <1>9, <1>12
  <2>2. PICK a \in 0..7, b \in 0..7, c \in 0..7 : a = v(1) /\ b = v(2) /\ c = v(3)
    BY <1>1, <1>12
  <2>3. (a * 8 + b) * 8 + c > 255 <=> a >= 4
    BY ThreeOctals
  <2> QED
    BY <1>1, <1>12, <2>1, <2>2, <2>3
<1> QED
  BY <1>10, <1>11, <1>12

-----------------------------------------------------------------------------
(* Strings                                                                 *)

\* A backslash at q begins an octal escape of a value that no byte has.
Overflows(text, q) ==
    /\ q + 3 <= Len(text)
    /\ text[q + 1] \in HighDigits
    /\ text[q + 2] \in OctalDigits /\ text[q + 3] \in OctalDigits

LEMMA OctalDigitsAre ==
    ASSUME NEW c \in OctalDigits
    PROVE  c \in {"0", "1", "2", "3", "4", "5", "6", "7"}
<1>1. PICK n \in 1..8 : c = Numerals[n]
  BY DEF OctalDigits
<1>2. n = 1 \/ n = 2 \/ n = 3 \/ n = 4 \/ n = 5 \/ n = 6 \/ n = 7 \/ n = 8
  BY <1>1
<1> QED
  BY <1>1, <1>2 DEF Numerals

LEMMA OctalEscape ==
    ASSUME NEW text \in Seq(STRING), NEW q \in 1..Len(text), q + 1 <= Len(text),
           text[q + 1] \in OctalDigits
    PROVE  LET e == OctalEnd(text, q + 1)
           IN  /\ e \in (q + 2)..End(text)
               /\ \A j \in (q + 1)..(e - 1) : text[j] \in OctalDigits
               /\ NumberIn(SubSeq(text, q + 1, e - 1), 8) > 255 <=> Overflows(text, q)
<1> DEFINE limit == IF Len(text) + 1 < q + 1 + 3 THEN Len(text) + 1 ELSE q + 1 + 3
           e == OctalEnd(text, q + 1)
           s == SubSeq(text, q + 1, e - 1)
<1>1. /\ Len(text) \in Nat /\ limit \in Nat /\ q + 1 \in Nat /\ q + 1 < limit
      /\ limit <= Len(text) + 1 /\ limit <= q + 4
      /\ limit = Len(text) + 1 \/ limit = q + 4
  OBVIOUS
<1>2. e = After(text, q + 1, limit, OctalDigits)
  BY DEF OctalEnd
<1> HIDE DEF limit
<1>3. /\ e \in (q + 1)..limit
      /\ e < limit => text[e] \notin OctalDigits
      /\ \A j \in (q + 1)..(e - 1) : text[j] \in OctalDigits
  BY <1>1, <1>2, AfterScan
<1>4. e # q + 1
  BY <1>1, <1>3
<1>5. e \in (q + 2)..End(text) /\ e <= q + 4 /\ e - 1 >= q + 1 /\ e - 1 <= Len(text)
  BY <1>1, <1>3, <1>4 DEF End
<1> HIDE DEF e
<1>6. /\ Len(s) = e - q - 1
      /\ \A k \in 1..(e - q - 1) : s[k] = text[q + k] /\ text[q + k] \in OctalDigits
  <2>1. \A i \in (q + 1)..(e - 1) : i \in 1..Len(text)
    BY <1>1, <1>5
  <2>2. /\ Len(s) = e - 1 - (q + 1) + 1
        /\ \A i \in 1..(e - 1 - (q + 1) + 1) : s[i] = text[q + 1 + i - 1]
    BY <1>5, <2>1, SubSeqProperties
  <2>3. e - 1 - (q + 1) + 1 = e - q - 1
    BY <1>5
  <2>4. ASSUME NEW k \in 1..(e - q - 1)
        PROVE  s[k] = text[q + k] /\ text[q + k] \in OctalDigits
    <3>1. q + 1 + k - 1 = q + k /\ q + k \in (q + 1)..(e - 1)
      BY <1>5
    <3> QED
      BY <1>3, <2>2, <2>3, <3>1
  <2> QED
    BY <2>2, <2>3, <2>4
<1> HIDE DEF s
<1>7. Len(s) \in 1..3 /\ \A k \in 1..Len(s) : s[k] \in OctalDigits
  BY <1>5, <1>6
<1>8. NumberIn(s, 8) > 255 <=> Len(s) = 3 /\ s[1] \in HighDigits
  BY <1>7, OctalNumber
<1>9. s[1] = text[q + 1]
  BY <1>6, <1>7
<1>10. Len(s) = 3 <=> e = q + 4
  BY <1>5, <1>6
<1>11. CASE e = q + 4
  <2>1. q + 2 \in (q + 1)..(e - 1) /\ q + 3 \in (q + 1)..(e - 1) /\ q + 3 <= Len(text)
    BY <1>5, <1>11
  <2>2. text[q + 2] \in OctalDigits /\ text[q + 3] \in OctalDigits
    BY <1>3, <2>1
  <2> QED
    BY <1>3, <1>5, <1>8, <1>9, <1>10, <1>11, <2>1, <2>2 DEF Overflows, s, e
<1>12. CASE e # q + 4
  <2>1. ~Overflows(text, q)
    <3> SUFFICES ASSUME Overflows(text, q) PROVE FALSE
      OBVIOUS
    <3>1. q + 3 <= Len(text) /\ text[q + 2] \in OctalDigits /\ text[q + 3] \in OctalDigits
      BY DEF Overflows
    <3>2. limit = q + 4 /\ e < limit /\ (e = q + 2 \/ e = q + 3)
      BY <1>1, <1>3, <1>5, <1>12, <3>1
    <3> QED
      BY <1>3, <3>1, <3>2
  <2> QED
    BY <1>3, <1>5, <1>8, <1>10, <1>12, <2>1 DEF s, e
<1> QED
  BY <1>11, <1>12

\* Any numeral.
Numeral == {Numerals[n] : n \in 1..16}

Double(quote) == quote = "\""

Readable(text, q, quote, e) ==
    /\ q + 1 <= Len(text) /\ (Double(quote) => ~Overflows(text, q)) => e.ok
    /\ e.ok => /\ q + 1 <= Len(text)
               /\ Double(quote) => ~Overflows(text, q)
               /\ e.next \in (q + 2)..End(text)
               /\ \A j \in (q + 2)..(e.next - 1) : text[j] \in Numeral

\* Where an escape ends; what it is longer by than two characters are numerals.
LEMMA EscapeReadable ==
    ASSUME NEW text \in Seq(STRING), NEW q \in 1..Len(text), NEW quote \in Quotes
    PROVE  Readable(text, q, quote, ReadEscape(text, q, quote))
<1>1. /\ ~Failed.ok
      /\ \A out, next : Read(out, next).next = next /\ Read(out, next).ok
  BY DEF Failed, Read
<1>2. Len(text) \in Nat /\ End(text) = Len(text) + 1
  BY DEF End
<1>3. CASE quote = "'"
  <2> DEFINE e == ReadSingleQuotedEscape(text, q)
  <2>1. ReadEscape(text, q, quote) = e /\ ~Double(quote)
    BY <1>3, Zenon DEF ReadEscape, Double
  <2>2. q + 1 <= Len(text) => e.ok /\ e.next = q + 2
    BY <1>1, <1>2 DEF ReadSingleQuotedEscape
  <2>3. q + 1 > Len(text) => ~e.ok
    BY <1>1, <1>2 DEF ReadSingleQuotedEscape
  <2> HIDE DEF e
  <2>4. e.ok => e.next \in (q + 2)..End(text) /\ (q + 2)..(e.next - 1) = {}
    BY <1>2, <2>2, <2>3
  <2> QED
    BY <1>2, <2>1, <2>2, <2>3, <2>4 DEF Readable
<1>4. CASE quote # "'"
  <2> DEFINE e == ReadStringEscape(text, q)
             c == text[q + 1]
             hex == /\ c = "x" /\ q + 3 <= Len(text)
                    /\ IsNumeral(text[q + 2], 16) /\ IsNumeral(text[q + 3], 16)
             o == OctalEnd(text, q + 1)
             v == NumberIn(SubSeq(text, q + 1, o - 1), 8)
  <2>1. ReadEscape(text, q, quote) = e /\ Double(quote)
    BY <1>4, Zenon DEF ReadEscape, Double, Quotes
  <2>2. CASE q + 1 > Len(text)
    <3>1. ~e.ok
      BY <1>1, <2>2 DEF ReadStringEscape
    <3> QED
      BY <1>2, <2>1, <2>2, <3>1 DEF Readable
  <2>3. CASE ~(q + 1 > Len(text))
    <3>1. c \in DOMAIN ControlOf => c \notin OctalDigits /\ c # "x"
      BY OctalDigitsAre DEF ControlOf
    <3>2. c = "x" => c \notin OctalDigits
      BY OctalDigitsAre
    <3>3. c \notin OctalDigits => ~Overflows(text, q)
      <4>1. HighDigits \subseteq OctalDigits
        BY DEF HighDigits, OctalDigits, Numerals
      <4> QED
        BY <4>1 DEF Overflows
    <3> DEFINE r == CASE c \in DOMAIN ControlOf -> Read(<<ControlOf[c]>>, q + 2)
                      [] hex ->
                           Read(<<Byte[NumberIn(SubSeq(text, q + 2, q + 3), 16)]>>, q + 4)
                      [] c \in OctalDigits -> IF v > 255 THEN Failed
                                              ELSE Read(<<Byte[v]>>, o)
                      [] OTHER -> Read(<<c>>, q + 2)
    <3>4. e = r
      BY <2>3, Zenon DEF ReadStringEscape
    <3> HIDE DEF e, v, o
    <3>5. CASE c \in DOMAIN ControlOf
      <4>1. ~hex /\ c \notin OctalDigits
        BY <3>1, <3>5
      <4>2. r = Read(<<ControlOf[c]>>, q + 2)
        BY <3>5, <4>1, Zenon
      <4>3. e.ok /\ e.next = q + 2
        BY <1>1, <3>4, <4>2
      <4> HIDE DEF r
      <4> QED
        BY <1>2, <2>1, <2>3, <3>3, <4>1, <4>3 DEF Readable
    <3>6. CASE c \notin DOMAIN ControlOf /\ hex
      <4>1. c \notin OctalDigits
        BY <3>2, <3>6
      <4>2. r = Read(<<Byte[NumberIn(SubSeq(text, q + 2, q + 3), 16)]>>, q + 4)
        BY <3>6, <4>1, Zenon
      <4>3. e.ok /\ e.next = q + 4
        BY <1>1, <3>4, <4>2
      <4>4. text[q + 2] \in Numeral /\ text[q + 3] \in Numeral /\ q + 3 <= Len(text)
        BY <3>6 DEF IsNumeral, Numeral
      <4> HIDE DEF r, hex, c
      <4>5. \A j \in (q + 2)..(q + 4 - 1) : j = q + 2 \/ j = q + 3
        OBVIOUS
      <4> QED
        BY <1>2, <2>1, <2>3, <3>3, <4>1, <4>3, <4>4, <4>5 DEF Readable, c
    <3>7. CASE c \notin DOMAIN ControlOf /\ ~hex /\ c \in OctalDigits
      <4>1. r = IF v > 255 THEN Failed ELSE Read(<<Byte[v]>>, o)
        BY <3>7, Zenon
      <4>2. /\ o \in (q + 2)..End(text)
            /\ \A j \in (q + 1)..(o - 1) : text[j] \in OctalDigits
            /\ v > 255 <=> Overflows(text, q)
        BY <1>2, <2>3, <3>7, OctalEscape DEF o, v
      <4>3. OctalDigits \subseteq Numeral
        BY DEF OctalDigits, Numeral
      <4>4. \A j \in (q + 2)..(o - 1) : text[j] \in Numeral
        BY <4>2, <4>3
      <4>5. e.ok <=> ~Overflows(text, q)
        BY <1>1, <3>4, <4>1, <4>2
      <4>6. e.ok => e.next = o
        BY <1>1, <3>4, <4>1
      <4> HIDE DEF r
      <4> QED
        BY <1>2, <1>4, <2>1, <2>3, <4>2, <4>4, <4>5, <4>6 DEF Readable
    <3>8. CASE c \notin DOMAIN ControlOf /\ ~hex /\ c \notin OctalDigits
      <4>1. r = Read(<<c>>, q + 2)
        BY <3>8, Zenon
      <4>2. e.ok /\ e.next = q + 2
        BY <1>1, <3>4, <4>1
      <4> HIDE DEF r
      <4> QED
        BY <1>2, <2>1, <2>3, <3>3, <3>8, <4>2 DEF Readable
    <3> QED
      BY <3>5, <3>6, <3>7, <3>8
  <2> QED
    BY <2>2, <2>3
<1> QED
  BY <1>3, <1>4

LEMMA NumeralsAre ==
    ASSUME NEW c \in Numeral
    PROVE  c \notin Quotes /\ c # NUL /\ c # "\\"
<1>1. c # NUL
  BY CharactersAssumption, Zenon DEF Numeral
<1>2. PICK n \in 1..16 : c = Numerals[n]
  BY DEF Numeral
<1>3. \/ n = 1 \/ n = 2 \/ n = 3 \/ n = 4 \/ n = 5 \/ n = 6 \/ n = 7 \/ n = 8
      \/ n = 9 \/ n = 10 \/ n = 11 \/ n = 12 \/ n = 13 \/ n = 14 \/ n = 15 \/ n = 16
  BY <1>2
<1>4. c \in {"0", "1", "2", "3", "4", "5", "6", "7", "8", "9", "a", "b", "c", "d", "e", "f"}
  BY <1>2, <1>3 DEF Numerals
<1>5. c \notin Quotes /\ c # "\\"
  BY <1>4, Zenon DEF Quotes
<1> QED
  BY <1>1, <1>5

\* Nothing at i, which is not escaped, ends the string that begins at p.
StringGoesOn(text, p, i) ==
    /\ text[i] # text[p] /\ text[i] # NUL
    /\ text[i] = "\\" /\ Double(text[p]) => ~Overflows(text, i)

\* The string that begins at p is closed at e, and by nothing from q on before.
ClosesString(text, p, q, e) ==
    /\ text[e] = text[p] /\ ~Escaped(text, p, e)
    /\ \A i \in q..(e - 1) : Escaped(text, p, i) \/ StringGoesOn(text, p, i)

\* What is said of the rest of a string from q on is so.
ClosedRight(text, p, q, r) ==
    /\ r.ok => \E e \in q..Len(text) : r.next = e + 1 /\ ClosesString(text, p, q, e)
    /\ \A e \in q..Len(text) : ClosesString(text, p, q, e) => r.ok /\ r.next = e + 1

\* An escape is passed as a whole.
LEMMA EscapePassed ==
    ASSUME NEW text \in Seq(STRING), NEW p \in 1..Len(text), text[p] \in Quotes,
           NEW q \in p..Len(text), text[q] = "\\", ~Escaped(text, p, q),
           NEW r \in (q + 2)..End(text),
           \A j \in (q + 2)..(r - 1) : text[j] \in Numeral
    PROVE  /\ ~Escaped(text, p, r)
           /\ Escaped(text, p, q + 1)
           /\ \A i \in (q + 2)..(r - 1) : StringGoesOn(text, p, i)
<1>1. Len(text) \in Nat /\ End(text) = Len(text) + 1
  BY DEF End
<1>2. Escaped(text, p, q + 1)
  BY EscapedInText
<1>3. \A i \in (q + 2)..(r - 1) : text[i] \notin Quotes /\ text[i] # NUL /\ text[i] # "\\"
  BY NumeralsAre
<1>4. \A i \in (q + 2)..(r - 1) : StringGoesOn(text, p, i)
  BY <1>3 DEF StringGoesOn
<1>5. \/ r = q + 2
      \/ text[r - 1] # "\\"
  <2>1. r = q + 2 \/ r - 1 \in (q + 2)..(r - 1)
    BY <1>1
  <2> QED
    BY <1>3, <2>1
<1>6. r - 1 \in p..Len(text) /\ r - 1 + 1 = r
  BY <1>1
<1>7. Escaped(text, p, r - 1 + 1) <=> (text[r - 1] = "\\" /\ ~Escaped(text, p, r - 1))
  BY <1>6, EscapedInText
<1>8. r = q + 2 => Escaped(text, p, r - 1)
  <2>1. q + 2 - 1 = q + 1
    OBVIOUS
  <2> QED
    BY <1>2, <2>1
<1> QED
  BY <1>2, <1>4, <1>5, <1>6, <1>7, <1>8

\* The rest of a string from q on is right if the rest from r on is.
LEMMA ClosedLater ==
    ASSUME NEW text \in Seq(STRING), NEW p \in 1..Len(text), NEW q \in p..Len(text),
           NEW r \in (q + 1)..End(text), NEW s, NEW t,
           \A i \in q..(r - 1) : Escaped(text, p, i) \/ StringGoesOn(text, p, i),
           ClosedRight(text, p, r, s), t.ok = s.ok, t.next = s.next
    PROVE  ClosedRight(text, p, q, t)
<1>1. Len(text) \in Nat /\ End(text) = Len(text) + 1
  BY DEF End
<1>2. ASSUME NEW e \in q..Len(text), ClosesString(text, p, q, e)
      PROVE  t.ok /\ t.next = e + 1
  <2>1. e \notin q..(r - 1)
    BY <1>2 DEF ClosesString, StringGoesOn
  <2>2. e \in r..Len(text) /\ \A i \in r..(e - 1) : i \in q..(e - 1)
    BY <1>1, <2>1
  <2>3. ClosesString(text, p, r, e)
    BY <1>2, <2>2 DEF ClosesString
  <2> QED
    BY <2>2, <2>3 DEF ClosedRight
<1>3. ASSUME t.ok
      PROVE  \E e \in q..Len(text) : t.next = e + 1 /\ ClosesString(text, p, q, e)
  <2>1. PICK e \in r..Len(text) : s.next = e + 1 /\ ClosesString(text, p, r, e)
    BY <1>3 DEF ClosedRight
  <2>2. e \in q..Len(text) /\ \A i \in q..(e - 1) : i \in q..(r - 1) \/ i \in r..(e - 1)
    BY <1>1
  <2>3. ClosesString(text, p, q, e)
    BY <2>1, <2>2 DEF ClosesString
  <2> QED
    BY <2>1, <2>2, <2>3
<1> QED
  BY <1>2, <1>3 DEF ClosedRight

LEMMA StringClosed ==
    ASSUME NEW text \in Seq(STRING), NEW p \in 1..Len(text), text[p] \in Quotes,
           NEW f, Strings(text, text[p], f)
    PROVE  \A q \in (p + 1)..End(text) :
               ~Escaped(text, p, q) => ClosedRight(text, p, q, f[q])
<1> DEFINE N == End(text)
           quote == text[p]
           P == {q \in 1..N : q > p /\ ~Escaped(text, p, q) => ClosedRight(text, p, q, f[q])}
<1>1. Len(text) \in Nat /\ N = Len(text) + 1
  BY DEF End
<1>2. quote # NUL /\ quote # "\\" /\ NUL # "\\"
  BY CharactersAssumption, Zenon DEF Quotes
<1>3. ASSUME NEW q \in 1..N, \A r \in (q + 1)..N : r \in P
      PROVE  q \in P
  <2> SUFFICES ASSUME q > p, ~Escaped(text, p, q)
               PROVE  ClosedRight(text, p, q, f[q])
    OBVIOUS
  <2> DEFINE ch == Char(text, q)
             e == ReadEscape(text, q, quote)
  <2>1. f[q] = StringFrom(text, q, quote, f)
    BY Zenon DEF Strings, N
  <2>2. ch # NUL => q \in p..Len(text) /\ ch = text[q] /\ q + 1 \in (q + 1)..N
    BY <1>1, CharacterAt
  <2>3. q <= Len(text) => ch = text[q]
    BY <1>1 DEF Char
  <2>4. ASSUME NEW r \in (q + 1)..N, ~Escaped(text, p, r)
        PROVE  ClosedRight(text, p, r, f[r])
    BY <1>1, <1>3, <2>4
  <2>5. ASSUME ~f[q].ok, \A i \in q..Len(text) : ~ClosesString(text, p, q, i)
        PROVE  ClosedRight(text, p, q, f[q])
    BY <2>5 DEF ClosedRight
  <2>6. ASSUME q \in p..Len(text), ~StringGoesOn(text, p, q), text[q] # quote
        PROVE  \A i \in q..Len(text) : ~ClosesString(text, p, q, i)
    <3> SUFFICES ASSUME NEW i \in q..Len(text), ClosesString(text, p, q, i) PROVE FALSE
      OBVIOUS
    <3>1. i = q \/ q \in q..(i - 1)
      BY <1>1
    <3> QED
      BY <2>6, <3>1 DEF ClosesString
  <2> HIDE DEF P, N, quote
  <2>7. CASE ch = NUL
    <3>1. f[q] = Unterminated(Min2(q + 1, End(text)))
      BY <1>2, <2>1, <2>7, Zenon DEF StringFrom
    <3>2. ~f[q].ok
      BY <3>1 DEF Unterminated
    <3>3. \A i \in q..Len(text) : ~ClosesString(text, p, q, i)
      <4>1. CASE q > Len(text)
        BY <1>1, <4>1
      <4>2. CASE q <= Len(text)
        <5>1. q \in p..Len(text) /\ text[q] # quote /\ ~StringGoesOn(text, p, q)
          BY <1>1, <1>2, <2>3, <2>7, <4>2 DEF StringGoesOn
        <5> QED
          BY <2>6, <5>1
      <4> QED
        BY <1>1, <4>1, <4>2
    <3> QED
      BY <2>5, <3>2, <3>3
  <2>8. CASE ch = quote
    <3>1. ch # NUL /\ ch # "\\"
      BY <1>2, <2>8
    <3>2. f[q] = [ok |-> TRUE, out |-> <<>>, next |-> q + 1]
      BY <2>1, <2>8, <3>1, Zenon DEF StringFrom
    <3>3. q \in p..Len(text) /\ text[q] = quote
      BY <2>2, <2>8, <3>1
    <3>4. ClosesString(text, p, q, q)
      BY <1>1, <3>3 DEF ClosesString, quote
    <3>5. ASSUME NEW i \in q..Len(text), ClosesString(text, p, q, i)
          PROVE  i = q
      <4>1. i = q \/ q \in q..(i - 1)
        BY <1>1
      <4> QED
        BY <3>3, <3>5, <4>1 DEF ClosesString, StringGoesOn, quote
    <3> QED
      BY <1>1, <3>2, <3>3, <3>4, <3>5 DEF ClosedRight
  <2>9. CASE ch = "\\"
    <3>1. ch # NUL /\ ch # quote
      BY <1>2, <2>9
    <3>2. q \in p..Len(text) /\ text[q] = "\\" /\ text[q] # quote
      BY <2>2, <2>9, <3>1
    <3>3. Readable(text, q, quote, e)
      BY <3>2, EscapeReadable DEF quote
    <3>4. CASE ~e.ok
      <4>1. f[q] = Unterminated(End(text))
        BY <2>1, <2>9, <3>1, <3>4, Zenon DEF StringFrom
      <4>2. ~f[q].ok
        BY <4>1 DEF Unterminated
      <4>3. q + 1 > Len(text) \/ ~StringGoesOn(text, p, q)
        BY <3>2, <3>3, <3>4 DEF Readable, StringGoesOn, quote
      <4>4. CASE q + 1 > Len(text)
        <5>1. \A i \in q..Len(text) : i = q
          BY <1>1, <3>2, <4>4
        <5>2. \A i \in q..Len(text) : ~ClosesString(text, p, q, i)
          BY <3>2, <5>1 DEF ClosesString, quote
        <5> QED
          BY <2>5, <4>2, <5>2
      <4> QED
        BY <2>5, <2>6, <3>2, <4>2, <4>3, <4>4
    <3>5. CASE e.ok
      <4> DEFINE r == e.next
      <4>1. f[q] = [f[r] EXCEPT !.out = e.out \o @]
        BY <2>1, <2>9, <3>1, <3>5, Zenon DEF StringFrom
      <4>2. f[q].ok = f[r].ok /\ f[q].next = f[r].next
        BY <4>1
      <4>3. /\ r \in (q + 2)..End(text)
            /\ \A j \in (q + 2)..(r - 1) : text[j] \in Numeral
            /\ StringGoesOn(text, p, q)
        BY <3>1, <3>2, <3>3, <3>5, <2>2 DEF Readable, StringGoesOn, quote
      <4> HIDE DEF r, e
      <4>4. /\ ~Escaped(text, p, r) /\ Escaped(text, p, q + 1)
            /\ \A i \in (q + 2)..(r - 1) : StringGoesOn(text, p, i)
        BY <3>2, <4>3, EscapePassed DEF quote
      <4>5. r \in (q + 1)..End(text) /\ r \in (q + 1)..N
        BY <1>1, <4>3 DEF N
      <4>6. \A i \in q..(r - 1) : i = q \/ i = q + 1 \/ i \in (q + 2)..(r - 1)
        BY <1>1, <4>5
      <4>7. \A i \in q..(r - 1) : Escaped(text, p, i) \/ StringGoesOn(text, p, i)
        BY <4>3, <4>4, <4>6
      <4>8. ClosedRight(text, p, r, f[r])
        BY <2>4, <4>4, <4>5
      <4> QED
        BY <3>2, <4>2, <4>5, <4>7, <4>8, ClosedLater
    <3> QED
      BY <3>4, <3>5
  <2>10. CASE ch # NUL /\ ch # quote /\ ch # "\\"
    <3>1. f[q] = [f[q + 1] EXCEPT !.out = <<text[q]>> \o @]
      BY <2>1, <2>10, Zenon DEF StringFrom
    <3>2. f[q].ok = f[q + 1].ok /\ f[q].next = f[q + 1].next
      BY <3>1
    <3>3. q \in p..Len(text) /\ ch = text[q]
      BY <2>2, <2>10
    <3>4. StringGoesOn(text, p, q)
      BY <2>10, <3>3 DEF StringGoesOn, quote
    <3>5. ~Escaped(text, p, q + 1)
      BY <2>10, <3>3, EscapedInText
    <3>6. q + 1 \in (q + 1)..N /\ q + 1 \in (q + 1)..End(text)
      BY <2>2, <2>10 DEF N
    <3>7. \A i \in q..(q + 1 - 1) : i = q
      BY <1>1
    <3>8. \A i \in q..(q + 1 - 1) : Escaped(text, p, i) \/ StringGoesOn(text, p, i)
      BY <3>4, <3>7
    <3>9. ClosedRight(text, p, q + 1, f[q + 1])
      BY <2>4, <3>5, <3>6
    <3> QED
      BY <3>2, <3>3, <3>6, <3>8, <3>9, ClosedLater
  <2> HIDE DEF ch
  <2> QED
    BY <2>7, <2>8, <2>9, <2>10
<1>4. \A q \in 1..N : q \in P
  <2>1. N \in Nat
    BY <1>1
  <2> HIDE DEF P, N
  <2> QED
    BY <1>3, <2>1, ScanInduction
<1> QED
  BY <1>1, <1>4

\* A string that stands alone is one that the scanner finds closed.
LEMMA StringInText ==
    ASSUME NEW text \in Seq(STRING), NEW p \in 1..Len(text), text[p] \in Quotes,
           NEW n \in 1..(End(text) - p)
    PROVE  IsString(Cut(text, p, n)) <=> n > 1 /\ ClosesString(text, p, p + 1, p + n - 1)
<1> DEFINE s == Cut(text, p, n)
           e == p + n - 1
           quote == text[p]
<1>1. /\ Len(text) \in Nat /\ End(text) = Len(text) + 1 /\ Len(s) = n
      /\ \A i \in 1..n : s[i] = text[p + i - 1] /\ p + i - 1 \in 1..Len(text)
  BY CutProperties
<1>2. \A i \in 1..n : IsEscaped(s, i) <=> Escaped(text, p, p + i - 1)
  BY EscapedInCut
<1>3. s[1] = quote /\ s[n] = text[e] /\ e \in p..Len(text)
  <2>1. 1 \in 1..n /\ p + 1 - 1 = p /\ n \in 1..n
    OBVIOUS
  <2> QED
    BY <1>1, <2>1
<1>4. quote # NUL
  BY CharactersAssumption, Zenon
<1>5. Double(quote) <=> s[1] = "\""
  BY <1>3, Zenon DEF Double
<1> DEFINE Fit == \A i \in 2..n : /\ s[i] = NUL => IsEscaped(s, i)
                                  /\ Double(quote) => ~IsNoByte(s, i)
           Closes == /\ s[n] = quote /\ ~IsEscaped(s, n)
                     /\ \A j \in 2..(n - 1) : ~(s[j] = quote /\ ~IsEscaped(s, j))
<1>6. IsString(s) <=> n > 1 /\ Closes /\ Fit
  <2>1. ClosesAt(s, n) <=> Closes
    BY <1>3 DEF ClosesAt
  <2> HIDE DEF Closes, s, quote
  <2>2. s[1] \in Quotes
    BY <1>3 DEF quote
  <2> QED
    BY <1>1, <1>5, <2>1, <2>2, Zenon DEF IsString
<1> HIDE DEF s
<1>7. \A i \in 1..n : IsNoByte(s, i) <=>
          /\ text[p + i - 1] = "\\" /\ ~Escaped(text, p, p + i - 1)
          /\ i + 3 <= n /\ Overflows(text, p + i - 1)
  <2> TAKE i \in 1..n
  <2>1. CASE ~(i + 3 <= n)
    BY <1>1, <2>1 DEF IsNoByte
  <2>2. CASE i + 3 <= n
    <3>1. i + 1 \in 1..n /\ i + 2 \in 1..n /\ i + 3 \in 1..n
      BY <2>2
    <3>2. /\ s[i] = text[p + i - 1] /\ s[i + 1] = text[p + (i + 1) - 1]
          /\ s[i + 2] = text[p + (i + 2) - 1] /\ s[i + 3] = text[p + (i + 3) - 1]
          /\ p + (i + 3) - 1 <= Len(text)
      BY <1>1, <3>1
    <3>3. /\ p + (i + 1) - 1 = p + i - 1 + 1 /\ p + (i + 2) - 1 = p + i - 1 + 2
          /\ p + (i + 3) - 1 = p + i - 1 + 3
      OBVIOUS
    <3>4. IsEscaped(s, i) <=> Escaped(text, p, p + i - 1)
      BY <1>2
    <3> QED
      BY <1>1, <2>2, <3>2, <3>3, <3>4 DEF IsNoByte, Overflows, HighDigits
  <2> QED
    BY <2>1, <2>2
<1>8. ASSUME n > 1, Closes, Fit
      PROVE  ClosesString(text, p, p + 1, e)
  <2>1. text[e] = quote /\ ~Escaped(text, p, e)
    BY <1>2, <1>3, <1>8
  <2>2. ASSUME NEW i \in (p + 1)..(e - 1), ~Escaped(text, p, i)
        PROVE  StringGoesOn(text, p, i)
    <3> DEFINE k == i - p + 1
    <3>1. k \in 2..(n - 1) /\ k \in 1..n /\ k \in 2..n /\ p + k - 1 = i
      <4>1. i \in Int /\ p \in Int /\ n \in Int /\ p + 1 <= i /\ i <= p + n - 1 - 1
        OBVIOUS
      <4> QED
        BY <4>1
    <3>2. s[k] = text[i] /\ ~IsEscaped(s, k)
      BY <1>1, <1>2, <2>2, <3>1
    <3>3. text[i] # quote /\ text[i] # NUL
      BY <1>8, <3>1, <3>2
    <3>4. ASSUME text[i] = "\\", Double(quote), Overflows(text, i)
          PROVE  FALSE
      <4>1. text[i + 1] \in OctalDigits /\ text[i + 2] \in OctalDigits
            /\ text[i + 3] \in OctalDigits
        <5>1. HighDigits \subseteq OctalDigits
          BY DEF HighDigits, OctalDigits, Numerals
        <5> QED
          BY <3>4, <5>1 DEF Overflows
      <4>2. OctalDigits \subseteq Numeral
        BY DEF OctalDigits, Numeral
      <4>3. text[i + 1] \notin Quotes /\ text[i + 2] \notin Quotes /\ text[i + 3] \notin Quotes
        BY <4>1, <4>2, NumeralsAre
      <4>4. text[e] \in Quotes
        BY <2>1
      <4>5. e # i + 1 /\ e # i + 2 /\ e # i + 3
        BY <4>3, <4>4
      <4>6. k + 3 <= n
        BY <1>1, <4>5
      <4>7. IsNoByte(s, k)
        <5> HIDE DEF k
        <5> QED
          BY <1>7, <2>2, <3>1, <3>4, <4>6
      <4> QED
        BY <1>8, <3>1, <3>4, <4>7
    <3> QED
      BY <3>3, <3>4 DEF StringGoesOn
  <2> QED
    BY <2>1, <2>2 DEF ClosesString
<1>9. ASSUME n > 1, ClosesString(text, p, p + 1, e)
      PROVE  Closes /\ Fit
  <2>1. text[e] = quote /\ ~Escaped(text, p, e)
    BY <1>9 DEF ClosesString
  <2>2. ASSUME NEW k \in 2..(n - 1)
        PROVE  IsEscaped(s, k) \/ StringGoesOn(text, p, p + k - 1)
    <3>1. k \in 1..n /\ p + k - 1 \in (p + 1)..(e - 1)
      BY <1>1
    <3> QED
      BY <1>2, <1>9, <3>1 DEF ClosesString
  <2>3. \A k \in 2..n : k \in 1..n /\ (k = n \/ k \in 2..(n - 1))
    BY <1>1
  <2>4. n \in 1..n
    BY <1>9
  <2>5. Closes
    <3>1. s[n] = quote /\ ~IsEscaped(s, n)
      BY <1>2, <1>3, <2>1, <2>4
    <3>2. ASSUME NEW j \in 2..(n - 1) PROVE ~(s[j] = quote /\ ~IsEscaped(s, j))
      <4>1. j \in 1..n
        OBVIOUS
      <4> QED
        BY <1>1, <2>2, <4>1 DEF StringGoesOn
    <3> QED
      BY <3>1, <3>2
  <2>6. ASSUME NEW k \in 2..n, s[k] = NUL PROVE IsEscaped(s, k)
    <3>1. k \in 2..(n - 1)
      BY <1>3, <1>4, <2>1, <2>3, <2>6
    <3>2. s[k] = text[p + k - 1]
      BY <1>1, <2>3
    <3> QED
      BY <2>2, <2>6, <3>1, <3>2 DEF StringGoesOn
  <2>7. ASSUME NEW k \in 2..n, Double(quote), IsNoByte(s, k) PROVE FALSE
    <3>1. /\ text[p + k - 1] = "\\" /\ ~Escaped(text, p, p + k - 1)
          /\ k + 3 <= n /\ Overflows(text, p + k - 1)
      BY <1>7, <2>3, <2>7
    <3>2. k \in 2..(n - 1) /\ k \in 1..n
      BY <3>1
    <3>3. ~IsEscaped(s, k)
      BY <1>2, <3>1, <3>2
    <3> QED
      BY <2>2, <2>7, <3>1, <3>2, <3>3 DEF StringGoesOn
  <2> QED
    BY <2>5, <2>6, <2>7
<1> HIDE DEF Closes, Fit, e
<1>10. IsString(s) <=> n > 1 /\ ClosesString(text, p, p + 1, e)
  BY <1>6, <1>8, <1>9
<1> QED
  BY <1>10 DEF s, e

LEMMA StringLexemes ==
    ASSUME NEW text \in Seq(STRING), NEW p \in 1..Len(text), text[p] \in Quotes,
           NEW n \in 1..(End(text) - p)
    PROVE  IsString(Cut(text, p, n)) <=>
               ReadString(text, p).type = "STRING" /\ ReadString(text, p).next = p + n
<1> DEFINE f == CHOOSE g : Strings(text, text[p], g)
           t == ReadString(text, p)
           x == f[p + 1]
<1>1. Len(text) \in Nat /\ End(text) = Len(text) + 1
  BY DEF End
<1>2. Strings(text, text[p], f)
  BY <1>1, StringsExist
<1>3. /\ x.ok => t.type = "STRING"
      /\ ~x.ok => t.type # "STRING"
      /\ t.next = x.next
  <2>1. t = Tok(IF x.ok THEN "STRING" ELSE "ILLEGAL", p, x.next, x.out)
    BY Zenon DEF ReadString, Strings
  <2> HIDE DEF t, f
  <2> QED
    BY <2>1 DEF Tok
<1> HIDE DEF f, t
<1>4. ~Escaped(text, p, p + 1) /\ p + 1 \in (p + 1)..End(text)
  <2>1. text[p] # "\\"
    BY Zenon DEF Quotes
  <2>2. p \in p..Len(text)
    BY <1>1
  <2> QED
    BY <1>1, <2>1, <2>2, EscapedInText
<1>5. ClosedRight(text, p, p + 1, x)
  BY <1>2, <1>4, StringClosed
<1> HIDE DEF x
<1>6. ASSUME n > 1, ClosesString(text, p, p + 1, p + n - 1)
      PROVE  t.type = "STRING" /\ t.next = p + n
  <2>1. p + n - 1 \in (p + 1)..Len(text)
    BY <1>1, <1>6
  <2>2. x.ok /\ x.next = p + n - 1 + 1
    BY <1>5, <1>6, <2>1 DEF ClosedRight
  <2> QED
    BY <1>3, <2>2
<1>7. ASSUME t.type = "STRING", t.next = p + n
      PROVE  n > 1 /\ ClosesString(text, p, p + 1, p + n - 1)
  <2>1. PICK e \in (p + 1)..Len(text) : x.next = e + 1 /\ ClosesString(text, p, p + 1, e)
    BY <1>3, <1>5, <1>7 DEF ClosedRight
  <2>2. e + 1 = p + n
    BY <1>3, <1>7, <2>1
  <2>3. e = p + n - 1 /\ n > 1
    BY <1>1, <2>2
  <2> QED
    BY <2>1, <2>3
<1> QED
  BY <1>6, <1>7, StringInText DEF t

-----------------------------------------------------------------------------
(* Regular expressions                                                     *)

LEMMA AllInRest ==
    ASSUME NEW s, NEW n \in Nat, Len(s) = n, \A k \in 1..n : s[k] \in STRING,
           NEW i \in 1..n, NEW S
    PROVE  AllIn(From(s, i + 1), S) <=> \A k \in (i + 1)..n : s[k] \in S
<1> DEFINE r == From(s, i + 1)
<1>1. /\ Len(r) = IF i + 1 <= n THEN n - (i + 1) + 1 ELSE 0
      /\ \A j \in 1..(n - (i + 1) + 1) : r[j] = s[i + 1 + j - 1]
  <2>1. i + 1 \in Int /\ n \in Int /\ \A k \in (i + 1)..n : s[k] \in STRING
    OBVIOUS
  <2> QED
    BY <2>1, SubSeqProperties DEF From
<1>2. Len(r) = n - i /\ \A j \in 1..(n - i) : r[j] = s[i + j]
  BY <1>1
<1> HIDE DEF r
<1>3. ASSUME AllIn(r, S), NEW k \in (i + 1)..n PROVE s[k] \in S
  <2>1. k - i \in 1..(n - i) /\ i + (k - i) = k
    OBVIOUS
  <2> QED
    BY <1>2, <1>3, <2>1 DEF AllIn
<1>4. ASSUME \A k \in (i + 1)..n : s[k] \in S PROVE AllIn(r, S)
  <2>1. \A j \in 1..(n - i) : i + j \in (i + 1)..n
    OBVIOUS
  <2> QED
    BY <1>2, <1>4, <2>1 DEF AllIn
<1> QED
  BY <1>3, <1>4 DEF r

\* The pattern that begins at p is closed at e, and by nothing from q on before.
ClosesRegex(text, p, q, e) ==
    /\ text[e] = "/" /\ ~Escaped(text, p, e)
    /\ \A i \in q..(e - 1) : text[i] # NUL /\ (text[i] = "/" => Escaped(text, p, i))

SlashRight(text, p, q, r) ==
    /\ Char(text, r) # NUL => r \in q..Len(text) /\ ClosesRegex(text, p, q, r)
    /\ \A e \in q..Len(text) : ClosesRegex(text, p, q, e) => r = e

LEMMA RegexClosed ==
    ASSUME NEW text \in Seq(STRING), NEW p \in 1..Len(text), text[p] = "/"
    PROVE  SlashRight(text, p, p + 1, RegexEnd(text, p + 1))
<1> DEFINE f == CHOOSE g : Slashes(text, g)
           N == End(text)
           P == {q \in 1..N : q > p =>
                    \A b \in BOOLEAN : (b <=> Escaped(text, p, q)) => SlashRight(text, p, q, f[q][b])}
<1>1. Len(text) \in Nat /\ N = Len(text) + 1
  BY DEF End
<1>2. Slashes(text, f)
  BY <1>1, SlashesExist
<1>3. RegexEnd(text, p + 1) = f[p + 1][FALSE]
  BY Zenon DEF RegexEnd, Slashes, SlashFrom
<1>4. NUL # "/"
  BY CharactersAssumption
<1> HIDE DEF f
<1>5. ASSUME NEW q \in 1..N, \A r \in (q + 1)..N : r \in P
      PROVE  q \in P
  <2> SUFFICES ASSUME q > p, NEW b \in BOOLEAN, b <=> Escaped(text, p, q)
               PROVE  SlashRight(text, p, q, f[q][b])
    OBVIOUS
  <2>1. f[q][b] = SlashFrom(text, q, b, f)
    <3>1. f[q] = [escaped \in BOOLEAN |-> SlashFrom(text, q, escaped, f)]
      BY <1>2, Zenon DEF Slashes, N
    <3> QED
      BY <3>1
  <2>2. q <= Len(text) => q \in p..Len(text) /\ Char(text, q) = text[q]
    BY <1>1 DEF Char
  <2>3. CASE Char(text, q) = NUL
    <3>1. f[q][b] = q
      BY <2>1, <2>3, Zenon DEF SlashFrom
    <3>2. ASSUME NEW e \in q..Len(text), ClosesRegex(text, p, q, e)
          PROVE  q = e
      <4>1. text[q] = NUL
        BY <1>1, <2>2, <2>3
      <4>2. q = e \/ q \in q..(e - 1)
        BY <1>1
      <4> QED
        BY <3>2, <4>1, <4>2 DEF ClosesRegex
    <3> QED
      BY <2>3, <3>1, <3>2 DEF SlashRight
  <2>4. CASE Char(text, q) # NUL /\ text[q] = "/" /\ ~b
    <3>1. f[q][b] = q
      BY <2>1, <2>4, Zenon DEF SlashFrom
    <3>2. q \in q..Len(text) /\ ClosesRegex(text, p, q, q)
      <4>1. q \in 1..Len(text) /\ \A i \in q..(q - 1) : FALSE
        BY <1>1, <2>4, CharacterAt
      <4> QED
        BY <1>1, <2>4, <4>1 DEF ClosesRegex
    <3>3. ASSUME NEW e \in q..Len(text), ClosesRegex(text, p, q, e)
          PROVE  q = e
      <4>1. q = e \/ q \in q..(e - 1)
        BY <1>1
      <4> QED
        BY <2>4, <3>3, <4>1 DEF ClosesRegex
    <3> QED
      BY <3>1, <3>2, <3>3 DEF SlashRight
  <2>5. CASE Char(text, q) # NUL /\ ~(text[q] = "/" /\ ~b)
    <3> DEFINE c == text[q] = "\\" /\ ~b
               r == f[q + 1][c]
    <3>1. f[q][b] = r
      BY <2>1, <2>5, Zenon DEF SlashFrom
    <3>2. q \in p..Len(text) /\ Char(text, q) = text[q] /\ q + 1 \in (q + 1)..N
      BY <1>1, <2>5, CharacterAt
    <3>3. c \in BOOLEAN /\ (c <=> Escaped(text, p, q + 1))
      BY <3>2, EscapedInText
    <3>4. SlashRight(text, p, q + 1, r)
      <4>1. q + 1 \in P /\ q + 1 > p
        BY <1>1, <1>5, <3>2
      <4> HIDE DEF c
      <4> QED
        BY <3>3, <4>1
    <3> HIDE DEF r, c, P
    <3>5. \A e \in q..Len(text) : ClosesRegex(text, p, q, e) =>
              e \in (q + 1)..Len(text) /\ ClosesRegex(text, p, q + 1, e)
      <4> SUFFICES ASSUME NEW e \in q..Len(text), ClosesRegex(text, p, q, e)
                   PROVE  e \in (q + 1)..Len(text) /\ ClosesRegex(text, p, q + 1, e)
        OBVIOUS
      <4>1. e # q
        BY <2>5 DEF ClosesRegex
      <4>2. e \in (q + 1)..Len(text) /\ \A i \in (q + 1)..(e - 1) : i \in q..(e - 1)
        BY <1>1, <4>1
      <4> QED
        BY <4>2 DEF ClosesRegex
    <3>6. \A e \in (q + 1)..Len(text) : ClosesRegex(text, p, q + 1, e) =>
              e \in q..Len(text) /\ ClosesRegex(text, p, q, e)
      <4> SUFFICES ASSUME NEW e \in (q + 1)..Len(text), ClosesRegex(text, p, q + 1, e)
                   PROVE  e \in q..Len(text) /\ ClosesRegex(text, p, q, e)
        OBVIOUS
      <4>1. e \in q..Len(text) /\ \A i \in q..(e - 1) : i = q \/ i \in (q + 1)..(e - 1)
        BY <1>1
      <4>2. text[q] # NUL /\ (text[q] = "/" => Escaped(text, p, q))
        BY <2>5, <3>2
      <4> QED
        BY <4>1, <4>2 DEF ClosesRegex
    <3> QED
      BY <3>1, <3>4, <3>5, <3>6 DEF SlashRight
  <2> QED
    BY <2>3, <2>4, <2>5
<1>6. p + 1 \in P
  <2>1. N \in Nat /\ p + 1 \in 1..N
    BY <1>1
  <2> HIDE DEF P, N
  <2> QED
    BY <1>5, <2>1, ScanInduction
<1>7. ~Escaped(text, p, p + 1)
  <2>1. p \in p..Len(text) /\ text[p] # "\\"
    BY <1>1
  <2> QED
    BY <2>1, EscapedInText
<1>8. \A b \in BOOLEAN :
          (b <=> Escaped(text, p, p + 1)) => SlashRight(text, p, p + 1, f[p + 1][b])
  BY <1>1, <1>6
<1> HIDE DEF P
<1>9. SlashRight(text, p, p + 1, f[p + 1][FALSE])
  BY <1>7, <1>8, Zenon
<1> QED
  BY <1>3, <1>9

\* A regular expression that stands alone is one that the scanner finds closed.
RegexPart(text, p, n, e) ==
    /\ ClosesRegex(text, p, p + 1, e)
    /\ \A i \in (e + 1)..(p + n - 1) : text[i] \in Letters

LEMMA RegexInText ==
    ASSUME NEW text \in Seq(STRING), NEW p \in 1..Len(text), text[p] = "/",
           NEW n \in 1..(End(text) - p)
    PROVE  IsRegex(Cut(text, p, n)) <=>
               /\ n > 2 /\ text[p + 1] # "/"
               /\ \E e \in (p + 2)..(p + n - 1) : RegexPart(text, p, n, e)
<1> DEFINE s == Cut(text, p, n)
<1>1. /\ Len(text) \in Nat /\ End(text) = Len(text) + 1 /\ Len(s) = n
      /\ \A i \in 1..n : s[i] = text[p + i - 1] /\ p + i - 1 \in 1..Len(text)
  BY CutProperties
<1>2. \A i \in 1..n : IsEscaped(s, i) <=> Escaped(text, p, p + i - 1)
  BY EscapedInCut
<1>3. s[1] = "/"
  <2>1. 1 \in 1..n /\ p + 1 - 1 = p
    OBVIOUS
  <2> QED
    BY <1>1, <2>1
<1>4. n > 2 => s[2] = text[p + 1]
  <2>1. n > 2 => 2 \in 1..n /\ p + 2 - 1 = p + 1
    OBVIOUS
  <2> QED
    BY <1>1, <2>1
<1>5. NUL # "/"
  BY CharactersAssumption, Zenon
<1>6. \A i \in 1..n : s[i] \in STRING
  <2>1. \A i \in 1..Len(text) : text[i] \in STRING
    BY ElementOfSeq
  <2> QED
    BY <1>1, <2>1
<1> HIDE DEF s
<1>7. ASSUME NEW k \in 3..n
      PROVE  /\ ClosesAt(s, k) /\ AllIn(From(s, k + 1), Letters) /\ NUL \notin {s[j] : j \in 2..k}
                <=> RegexPart(text, p, n, p + k - 1)
  <2> DEFINE e == p + k - 1
  <2>1. k \in 1..n /\ s[k] = text[e]
    BY <1>1
  <2>2. AllIn(From(s, k + 1), Letters) <=> \A j \in (k + 1)..n : s[j] \in Letters
    <3>1. n \in Nat /\ Len(s) = n /\ k \in 1..n
      BY <1>1, <2>1
    <3> HIDE DEF e
    <3> QED
      BY <1>6, <3>1, AllInRest, Zenon
  <2>3. (\A j \in (k + 1)..n : s[j] \in Letters) <=> \A i \in (e + 1)..(p + n - 1) : text[i] \in Letters
    <3>1. \A j \in (k + 1)..n : j \in 1..n /\ p + j - 1 \in (e + 1)..(p + n - 1)
      OBVIOUS
    <3>2. ASSUME NEW i \in (e + 1)..(p + n - 1)
          PROVE  i - p + 1 \in (k + 1)..n /\ p + (i - p + 1) - 1 = i
      OBVIOUS
    <3> HIDE DEF e
    <3>3. ASSUME \A j \in (k + 1)..n : s[j] \in Letters, NEW i \in (e + 1)..(p + n - 1)
          PROVE  text[i] \in Letters
      <4>1. s[i - p + 1] \in Letters /\ i - p + 1 \in 1..n
        BY <3>1, <3>2, <3>3
      <4> QED
        BY <1>1, <3>2, <4>1
    <3>4. ASSUME \A i \in (e + 1)..(p + n - 1) : text[i] \in Letters, NEW j \in (k + 1)..n
          PROVE  s[j] \in Letters
      BY <1>1, <3>1, <3>4
    <3> QED
      BY <3>3, <3>4
  <2>4. \A j \in 2..(k - 1) : /\ j \in 1..n /\ j \in 2..k
                              /\ p + j - 1 \in (p + 1)..(e - 1) /\ s[j] = text[p + j - 1]
                              /\ IsEscaped(s, j) <=> Escaped(text, p, p + j - 1)
    <3> TAKE j \in 2..(k - 1)
    <3>1. j \in 1..n /\ j \in 2..k /\ p + j - 1 \in (p + 1)..(e - 1)
      OBVIOUS
    <3> QED
      BY <1>1, <1>2, <3>1
  <2>5. \A i \in (p + 1)..(e - 1) : i - p + 1 \in 2..(k - 1) /\ p + (i - p + 1) - 1 = i
    OBVIOUS
  <2>6. IsEscaped(s, k) <=> Escaped(text, p, e)
    BY <1>2, <2>1
  <2>7. \A j \in 2..k : j = k \/ j \in 2..(k - 1)
    OBVIOUS
  <2> HIDE DEF e
  <2>8. ASSUME ClosesAt(s, k), NUL \notin {s[j] : j \in 2..k}
        PROVE  ClosesRegex(text, p, p + 1, e)
    <3>1. text[e] = "/" /\ ~Escaped(text, p, e)
      BY <1>3, <2>1, <2>6, <2>8 DEF ClosesAt
    <3>2. ASSUME NEW i \in (p + 1)..(e - 1)
          PROVE  text[i] # NUL /\ (text[i] = "/" => Escaped(text, p, i))
      <4>1. PICK j \in 2..(k - 1) : p + j - 1 = i
        BY <2>5
      <4>2. s[j] # NUL /\ ~(s[j] = s[1] /\ ~IsEscaped(s, j))
        BY <2>4, <2>8 DEF ClosesAt
      <4> QED
        BY <1>3, <2>4, <4>1, <4>2
    <3> QED
      BY <3>1, <3>2 DEF ClosesRegex
  <2>9. ASSUME ClosesRegex(text, p, p + 1, e)
        PROVE  ClosesAt(s, k) /\ NUL \notin {s[j] : j \in 2..k}
    <3>1. s[k] = "/" /\ ~IsEscaped(s, k)
      BY <2>1, <2>6, <2>9 DEF ClosesRegex
    <3>2. ASSUME NEW j \in 2..(k - 1)
          PROVE  s[j] # NUL /\ ~(s[j] = "/" /\ ~IsEscaped(s, j))
      BY <2>4, <2>9 DEF ClosesRegex
    <3>3. NUL \notin {s[j] : j \in 2..k}
      BY <1>5, <2>7, <3>1, <3>2
    <3> QED
      BY <1>3, <3>1, <3>2, <3>3 DEF ClosesAt
  <2> QED
    BY <2>2, <2>3, <2>8, <2>9 DEF RegexPart, e
<1>8. (\E k \in 3..n : RegexPart(text, p, n, p + k - 1)) <=>
          \E e \in (p + 2)..(p + n - 1) : RegexPart(text, p, n, e)
  <2>1. \A k \in 3..n : p + k - 1 \in (p + 2)..(p + n - 1)
    OBVIOUS
  <2>2. ASSUME NEW e \in (p + 2)..(p + n - 1), RegexPart(text, p, n, e)
        PROVE  \E k \in 3..n : RegexPart(text, p, n, p + k - 1)
    <3>1. e - p + 1 \in 3..n /\ p + (e - p + 1) - 1 = e
      OBVIOUS
    <3> QED
      BY <2>2, <3>1
  <2> QED
    BY <2>1, <2>2
<1>9. IsRegex(s) <=>
          /\ n > 2 /\ s[2] # "/"
          /\ \E k \in 3..n : /\ ClosesAt(s, k) /\ AllIn(From(s, k + 1), Letters)
                             /\ NUL \notin {s[j] : j \in 2..k}
  BY <1>1, <1>3, Zenon DEF IsRegex
<1>10. IsRegex(s) <=> n > 2 /\ s[2] # "/" /\ \E k \in 3..n : RegexPart(text, p, n, p + k - 1)
  BY <1>7, <1>9, Zenon
<1> QED
  BY <1>4, <1>8, <1>10 DEF s

LEMMA RegexLexemes ==
    ASSUME NEW text \in Seq(STRING), NEW p \in 1..Len(text), text[p] = "/",
           ~IsComment(text, p), NEW n \in 1..(End(text) - p)
    PROVE  /\ IsRegex(Cut(text, p, n)) => /\ ReadRegex(text, p).type = "REGEXP"
                                          /\ p + n <= ReadRegex(text, p).next
           /\ ReadRegex(text, p).type = "REGEXP" /\ ReadRegex(text, p).next = p + n =>
                  IsRegex(Cut(text, p, n))
<1> DEFINE r     == RegexEnd(text, p + 1)
           flags == After(text, r + 1, End(text), Letters)
           t     == ReadRegex(text, p)
<1>1. Len(text) \in Nat /\ End(text) = Len(text) + 1 /\ p + n - 1 \in p..Len(text)
  BY DEF End
<1>2. SlashRight(text, p, p + 1, r)
  BY RegexClosed
<1>3. r \in (p + 1)..End(text)
  BY <1>1, RegexEndIs
<1>4. Char(text, r) = NUL => t.type = "ILLEGAL"
  BY DEF ReadRegex, Tok
<1>5. Char(text, r) # NUL => t.type = "REGEXP" /\ t.next = flags
  <2> HIDE DEF flags, r
  <2> QED
    BY DEF ReadRegex, Tok, flags, r
<1> HIDE DEF t
<1>6. Char(text, r) # NUL => /\ r \in (p + 1)..Len(text)
                             /\ flags \in (r + 1)..End(text)
                             /\ flags < End(text) => text[flags] \notin Letters
                             /\ \A i \in (r + 1)..(flags - 1) : text[i] \in Letters
  <2> SUFFICES ASSUME Char(text, r) # NUL
               PROVE  /\ r \in (p + 1)..Len(text)
                      /\ flags \in (r + 1)..End(text)
                      /\ flags < End(text) => text[flags] \notin Letters
                      /\ \A i \in (r + 1)..(flags - 1) : text[i] \in Letters
    OBVIOUS
  <2>1. r \in (p + 1)..Len(text)
    <3> HIDE DEF r
    <3> QED
      BY <1>1, <1>3, CharacterAt
  <2>2. r + 1 \in Nat /\ End(text) \in Nat /\ r + 1 <= End(text)
    BY <1>1, <2>1
  <2> HIDE DEF r
  <2> QED
    BY <2>1, <2>2, AfterScan
<1> HIDE DEF r, flags
<1>7. ASSUME IsRegex(Cut(text, p, n))
      PROVE  t.type = "REGEXP" /\ p + n <= t.next
  <2>1. PICK e \in (p + 2)..(p + n - 1) : RegexPart(text, p, n, e)
    BY <1>7, RegexInText
  <2>2. e \in (p + 1)..Len(text) /\ e \in 1..Len(text)
    BY <1>1
  <2>3. r = e /\ text[e] = "/"
    BY <1>2, <2>1, <2>2 DEF SlashRight, RegexPart, ClosesRegex
  <2>4. Char(text, r) # NUL
    BY <2>2, <2>3, CharactersAssumption DEF Char
  <2>5. ~(flags < p + n)
    <3> SUFFICES ASSUME flags < p + n PROVE FALSE
      OBVIOUS
    <3>1. flags \in (e + 1)..(p + n - 1) /\ flags < End(text)
      BY <1>1, <1>6, <2>3, <2>4
    <3> QED
      BY <1>6, <2>1, <2>4, <3>1 DEF RegexPart
  <2>6. flags \in Nat
    BY <1>1, <1>6, <2>4
  <2> QED
    BY <1>5, <2>4, <2>5, <2>6
<1>8. ASSUME t.type = "REGEXP", t.next = p + n
      PROVE  IsRegex(Cut(text, p, n))
  <2>1. Char(text, r) # NUL /\ flags = p + n
    BY <1>4, <1>5, <1>8
  <2>2. ClosesRegex(text, p, p + 1, r) /\ r \in (p + 1)..Len(text) /\ text[r] = "/"
    BY <1>2, <2>1 DEF SlashRight, ClosesRegex
  <2>3. p + 1 <= Len(text) /\ text[p + 1] # "/"
    <3>1. p + 1 \in 1..Len(text)
      BY <1>1, <2>2
    <3> QED
      BY <3>1 DEF IsComment, Char
  <2>4. r # p + 1
    BY <2>2, <2>3
  <2>5. r \in (p + 2)..(p + n - 1) /\ n > 2
    BY <1>1, <1>6, <2>1, <2>2, <2>4
  <2>6. RegexPart(text, p, n, r)
    BY <1>6, <2>1, <2>2 DEF RegexPart
  <2> QED
    BY <2>3, <2>5, <2>6, RegexInText
<1> QED
  BY <1>7, <1>8 DEF t

-----------------------------------------------------------------------------
(* Names, numbers and operators                                            *)

\* What a scan over the characters in S takes.
LEMMA AllInText ==
    ASSUME NEW text \in Seq(STRING), NEW p \in 1..Len(text), NEW S,
           NEW n \in 1..(End(text) - p)
    PROVE  /\ AllIn(Cut(text, p, n), S) => p + n <= After(text, p, End(text), S)
           /\ After(text, p, End(text), S) = p + n => AllIn(Cut(text, p, n), S)
<1> DEFINE s == Cut(text, p, n)
           next == After(text, p, End(text), S)
<1>1. /\ Len(text) \in Nat /\ End(text) = Len(text) + 1 /\ Len(s) = n
      /\ \A i \in 1..n : s[i] = text[p + i - 1] /\ p + i - 1 \in 1..Len(text)
  BY CutProperties
<1>2. /\ next \in p..End(text)
      /\ next < End(text) => text[next] \notin S
      /\ \A j \in p..(next - 1) : text[j] \in S
  <2>1. p \in Nat /\ End(text) \in Nat /\ p <= End(text)
    BY <1>1
  <2> QED
    BY <2>1, AfterScan
<1> HIDE DEF s, next
<1>3. ASSUME AllIn(s, S), next < p + n PROVE FALSE
  <2>1. next - p + 1 \in 1..n /\ p + (next - p + 1) - 1 = next /\ next < End(text)
    BY <1>1, <1>2, <1>3
  <2>2. s[next - p + 1] \in S
    BY <1>1, <1>3, <2>1 DEF AllIn
  <2> QED
    BY <1>1, <1>2, <2>1, <2>2
<1>4. ASSUME next = p + n PROVE AllIn(s, S)
  <2>1. \A i \in 1..n : p + i - 1 \in p..(next - 1)
    BY <1>4
  <2> QED
    BY <1>1, <1>2, <2>1 DEF AllIn
<1>5. next \in Nat
  BY <1>1, <1>2
<1> QED
  BY <1>3, <1>4, <1>5 DEF s, next

LEMMA NameLexemes ==
    ASSUME NEW text \in Seq(STRING), NEW p \in 1..Len(text), IsStart(text[p]),
           NEW n \in 1..(End(text) - p)
    PROVE  LET t == ReadIdentifier(text, p)
           IN  /\ IsName(Cut(text, p, n)) => p + n <= t.next
               /\ t.next = p + n =>
                     /\ IsName(Cut(text, p, n))
                     /\ t.type = IF Cut(text, p, n) \in Keywords THEN "KEYWORD" ELSE "IDENT"
<1> DEFINE S    == Letters \cup Digits \cup {"."}
           next == After(text, p, End(text), S)
           word == SubSeq(text, p, next - 1)
           s    == Cut(text, p, n)
<1>1. ReadIdentifier(text, p) =
          Tok(IF word \in Keywords THEN "KEYWORD" ELSE "IDENT", p, next, word)
  BY DEF ReadIdentifier
<1>2. next = p + n => word = s
  <2> SUFFICES ASSUME next = p + n PROVE word = s
    OBVIOUS
  <2>1. word = SubSeq(text, p, next - 1) /\ s = SubSeq(text, p, p + n - 1)
    BY Zenon DEF Cut
  <2> HIDE DEF next, word, s
  <2> QED
    BY <2>1
<1>3. s[1] = text[p]
  <2>1. 1 \in 1..n /\ p + 1 - 1 = p
    OBVIOUS
  <2> QED
    BY <2>1, CutProperties
<1>4. IsName(s) <=> AllIn(s, S)
  BY <1>3 DEF IsName
<1>5. /\ AllIn(s, S) => p + n <= next
      /\ next = p + n => AllIn(s, S)
  <2> HIDE DEF S
  <2> QED
    BY AllInText
<1> HIDE DEF s, next, word, S
<1> QED
  BY <1>1, <1>2, <1>4, <1>5 DEF Tok, s

LEMMA NumberLexemes ==
    ASSUME NEW text \in Seq(STRING), NEW p \in 1..Len(text),
           NEW n \in 1..(End(text) - p)
    PROVE  /\ AllIn(Cut(text, p, n), Digits) => p + n <= ReadNumber(text, p).next
           /\ ReadNumber(text, p).next = p + n => AllIn(Cut(text, p, n), Digits)
           /\ ReadNumber(text, p).type = "INT"
<1> DEFINE next == After(text, p, End(text), Digits)
<1>1. ReadNumber(text, p) = Tok("INT", p, next, SubSeq(text, p, next - 1))
  BY DEF ReadNumber
<1>2. ReadNumber(text, p).next = next /\ ReadNumber(text, p).type = "INT"
  <2> HIDE DEF next
  <2> QED
    BY <1>1 DEF Tok
<1> QED
  BY <1>2, AllInText

LEMMA OperatorLexemes ==
    ASSUME NEW text \in Seq(STRING), NEW p \in 1..Len(text),
           NEW n \in 1..(End(text) - p)
    PROVE  LET t == ReadOperator(text, p)
           IN  /\ IsOperator(Cut(text, p, n)) => t.type = "OPERATOR" /\ p + n <= t.next
               /\ t.type = "OPERATOR" /\ t.next = p + n => IsOperator(Cut(text, p, n))
<1> DEFINE pair == \E x \in Pairs : At2(text, p, x)
           next == IF pair THEN p + 2 ELSE p + 1
           t    == ReadOperator(text, p)
           s    == Cut(text, p, n)
<1>1. /\ Len(text) \in Nat /\ End(text) = Len(text) + 1 /\ Len(s) = n
      /\ \A i \in 1..n : s[i] = text[p + i - 1] /\ p + i - 1 \in 1..Len(text)
      /\ s = SubSeq(text, p, p + n - 1)
  BY CutProperties DEF Cut
<1>2. /\ t.next = next
      /\ t.type = "OPERATOR" <=> pair \/ text[p] \in Singles
  <2>1. t = Tok(IF pair \/ text[p] \in Singles THEN "OPERATOR" ELSE "ILLEGAL",
                p, next, SubSeq(text, p, next - 1))
    BY DEF ReadOperator
  <2> HIDE DEF pair, next, t
  <2> QED
    BY <2>1 DEF Tok
<1>3. \A x \in Pairs : Len(x) = 2 /\ x = <<x[1], x[2]>>
  BY DEF Pairs
<1>4. s[1] = text[p]
  <2>1. 1 \in 1..n /\ p + 1 - 1 = p
    OBVIOUS
  <2> QED
    BY <1>1, <2>1
<1>5. n = 2 => s = <<text[p], text[p + 1]>>
  <2> SUFFICES ASSUME n = 2 PROVE s = <<text[p], text[p + 1]>>
    OBVIOUS
  <2>1. p \in 1..Len(text) /\ p + 1 \in 1..Len(text) /\ p + 2 - 1 = p + 1
    BY <1>1
  <2>2. s = SubSeq(text, p, p + 1)
    BY <1>1, <2>1
  <2> QED
    BY <1>1, <2>1, <2>2
<1> HIDE DEF s, t
<1>6. ASSUME IsOperator(s)
      PROVE  t.type = "OPERATOR" /\ p + n <= t.next
  <2>1. CASE s \in Pairs
    <3>0. Len(s) = 2
      BY <1>3, <2>1, Zenon
    <3>1. n = 2 /\ p + 1 <= Len(text)
      BY <1>1, <3>0
    <3>2. At2(text, p, s)
      BY <1>5, <3>1, Zenon DEF At2
    <3> QED
      BY <1>2, <2>1, <3>1, <3>2
  <2>2. CASE Len(s) = 1 /\ s[1] \in Singles
    BY <1>1, <1>2, <1>4, <2>2
  <2> QED
    BY <1>6, <2>1, <2>2 DEF IsOperator
<1>7. ASSUME t.type = "OPERATOR", t.next = p + n
      PROVE  IsOperator(s)
  <2>1. CASE pair
    <3>1. PICK x \in Pairs : At2(text, p, x)
      BY <2>1
    <3>2. n = 2
      BY <1>2, <1>7, <2>1
    <3> QED
      BY <1>5, <3>1, <3>2, Zenon DEF At2, IsOperator
  <2>2. CASE ~pair
    <3>1. n = 1 /\ text[p] \in Singles
      BY <1>2, <1>7, <2>2
    <3> QED
      BY <1>1, <1>4, <3>1 DEF IsOperator
  <2> QED
    BY <2>1, <2>2
<1> QED
  BY <1>6, <1>7 DEF s, t

-----------------------------------------------------------------------------
(* Expansions                                                              *)

LEMMA MaxShift ==
    ASSUME NEW N \in Nat, NEW c \in Nat, NEW T \in SUBSET (0..N), NEW U \in SUBSET (0..(N + c)),
           T # {}, U # {}, \A i \in T : i + c \in U, \A i \in U : i - c \in T
    PROVE  Max(U) = Max(T) + c /\ Max(T) \in Nat
<1>1. Max(T) \in T /\ \A j \in T : j <= Max(T)
  BY MaxOf
<1>2. Max(U) \in U /\ \A j \in U : j <= Max(U)
  <2>1. N + c \in Nat
    OBVIOUS
  <2> QED
    BY <2>1, MaxOf
<1>3. Max(T) + c \in U /\ Max(U) - c \in T
  BY <1>1, <1>2
<1>4. Max(T) + c <= Max(U) /\ Max(U) - c <= Max(T)
  BY <1>1, <1>2, <1>3
<1>5. Max(T) \in Nat /\ Max(U) \in Nat
  <2>1. (\A i \in T : i \in Nat) /\ \A i \in U : i \in Nat
    OBVIOUS
  <2> QED
    BY <1>1, <1>2, <2>1
<1> QED
  BY <1>4, <1>5

\* A closing quote of the quote at i.
Closer(raw, i, j) ==
    raw[j] = raw[i] /\ (j - 1 - Max({k \in i..(j - 1) : raw[k] # "\\"})) % 2 = 0

Closers(raw, i) == {j \in (i + 1)..Len(raw) : Closer(raw, i, j)}

LEMMA QuotedIs ==
    ASSUME NEW raw, Len(raw) \in Nat, NEW i \in 1..Len(raw)
    PROVE  /\ SkipQuoted(raw, i).ok => /\ SkipQuoted(raw, i).next - 1 \in Closers(raw, i)
                                       /\ \A j \in Closers(raw, i) : SkipQuoted(raw, i).next - 1 <= j
                                       /\ SkipQuoted(raw, i).next \in Nat
           /\ Closers(raw, i) # {} => SkipQuoted(raw, i).ok
<1> DEFINE C == Closers(raw, i)
           q == SkipQuoted(raw, i)
<1>1. q = IF C = {} THEN Failed ELSE Read(<<>>, Min(C) + 1)
  BY Zenon DEF SkipQuoted, Closers, Closer
<1>2. C \in SUBSET ((i + 1)..Len(raw)) /\ C \in SUBSET Nat
  BY DEF Closers
<1> HIDE DEF C, q
<1>3. CASE C = {}
  BY <1>1, <1>3 DEF Failed, C, q
<1>4. CASE C # {}
  <2>1. Min(C) \in C /\ (\A j \in C : Min(C) <= j) /\ Min(C) \in Nat
    BY <1>2, <1>4, MinOf
  <2>2. q.ok /\ q.next = Min(C) + 1
    BY <1>1, <1>4 DEF Read
  <2>3. q.next - 1 = Min(C) /\ q.next \in Nat
    BY <2>1, <2>2
  <2> QED
    BY <1>4, <2>1, <2>2, <2>3 DEF C, q
<1> QED
  BY <1>3, <1>4

\* A quote is closed in a part where it is closed in the text.
LEMMA CloserInText ==
    ASSUME NEW text \in Seq(STRING), NEW p \in 1..Len(text),
           NEW n \in 1..(End(text) - p), NEW k \in 1..n, NEW j \in (k + 1)..n,
           text[p + k - 1] # "\\"
    PROVE  Closer(Cut(text, p, n), k, j) <=> Closer(text, p + k - 1, p + j - 1)
<1> DEFINE s == Cut(text, p, n)
           K == p + k - 1
           J == p + j - 1
           c == p - 1
           T == {i \in k..(j - 1) : s[i] # "\\"}
           U == {i \in K..(J - 1) : text[i] # "\\"}
<1>1. /\ Len(text) \in Nat /\ \A i \in 1..n : s[i] = text[p + i - 1]
  BY CutProperties
<1>2. c \in Nat /\ j \in 1..n /\ k \in k..(j - 1) /\ K \in K..(J - 1)
  OBVIOUS
<1>3. \A i \in k..(j - 1) : s[i] = text[i + c] /\ i + c \in K..(J - 1)
  <2> TAKE i \in k..(j - 1)
  <2>1. i \in 1..n /\ p + i - 1 = i + c /\ i + c \in K..(J - 1)
    OBVIOUS
  <2> QED
    BY <1>1, <2>1
<1>4. \A i \in K..(J - 1) : i - c \in k..(j - 1) /\ i - c + c = i
  OBVIOUS
<1> HIDE DEF s
<1>5. T \in SUBSET (0..n) /\ U \in SUBSET (0..(n + c)) /\ k \in T /\ K \in U
  <2>1. k..(j - 1) \subseteq 0..n /\ K..(J - 1) \subseteq 0..(n + c)
    OBVIOUS
  <2>2. s[k] # "\\" /\ text[K] # "\\"
    BY <1>1
  <2> QED
    BY <1>2, <2>1, <2>2
<1>6. (\A i \in T : i + c \in U) /\ \A i \in U : i - c \in T
  <2>1. ASSUME NEW i \in T PROVE i + c \in U
    BY <1>3
  <2>2. ASSUME NEW i \in U PROVE i - c \in T
    <3>1. i - c \in k..(j - 1) /\ i - c + c = i /\ text[i] # "\\"
      BY <1>4
    <3>2. s[i - c] = text[i - c + c]
      BY <1>3, <3>1
    <3> QED
      BY <3>1, <3>2
  <2> QED
    BY <2>1, <2>2
<1>7. Max(U) = Max(T) + c /\ Max(T) \in Nat
  <2>1. T # {} /\ U # {} /\ n \in Nat
    BY <1>5
  <2> HIDE DEF T, U, c
  <2> QED
    BY <1>2, <1>5, <1>6, <2>1, MaxShift
<1>8. s[j] = text[J] /\ s[k] = text[K]
  BY <1>1, <1>2
<1> HIDE DEF T, U
<1>9. J - 1 - Max(U) = j - 1 - Max(T)
  BY <1>2, <1>7
<1> QED
  BY <1>8, <1>9, Zenon DEF Closer, s, T, U

LEMMA QuotedInText ==
    ASSUME NEW text \in Seq(STRING), NEW p \in 1..Len(text),
           NEW n \in 1..(End(text) - p), NEW k \in 1..n, text[p + k - 1] # "\\"
    PROVE  LET x == SkipQuoted(Cut(text, p, n), k)
               y == SkipQuoted(text, p + k - 1)
           IN  /\ x.ok => y.ok /\ y.next = x.next + p - 1
               /\ y.ok => x.ok \/ y.next > p + n
<1> DEFINE s == Cut(text, p, n)
           K == p + k - 1
           x == SkipQuoted(s, k)
           y == SkipQuoted(text, K)
           C == Closers(s, k)
           D == Closers(text, K)
<1>1. /\ Len(text) \in Nat /\ End(text) = Len(text) + 1 /\ Len(s) = n
      /\ K \in 1..Len(text) /\ p + n - 1 <= Len(text)
  <2>1. /\ Len(text) \in Nat /\ End(text) = Len(text) + 1 /\ Len(s) = n
    BY CutProperties
  <2> QED
    BY <2>1
<1>2. ASSUME NEW j \in (k + 1)..n
      PROVE  j \in C <=> p + j - 1 \in D
  <2>1. p + j - 1 \in (K + 1)..Len(text)
    BY <1>1
  <2>2. Closer(s, k, j) <=> Closer(text, K, p + j - 1)
    BY CloserInText
  <2> HIDE DEF s, K
  <2> QED
    BY <1>1, <2>1, <2>2 DEF Closers
<1>3. C \subseteq (k + 1)..n /\ D \subseteq (K + 1)..Len(text)
  BY <1>1 DEF Closers
<1>4. /\ x.ok => x.next - 1 \in C /\ (\A j \in C : x.next - 1 <= j) /\ x.next \in Nat
      /\ C # {} => x.ok
  <2>1. Len(s) \in Nat /\ k \in 1..Len(s)
    BY <1>1
  <2> HIDE DEF s
  <2> QED
    BY <2>1, QuotedIs
<1>5. /\ y.ok => y.next - 1 \in D /\ (\A j \in D : y.next - 1 <= j) /\ y.next \in Nat
      /\ D # {} => y.ok
  BY <1>1, QuotedIs
<1> HIDE DEF x, y, C, D, s
<1>6. ASSUME NEW J \in D, J < p + n
      PROVE  J - p + 1 \in C
  <2>1. J \in Int /\ J - p + 1 \in (k + 1)..n /\ p + (J - p + 1) - 1 = J
    BY <1>3, <1>6
  <2> QED
    BY <1>2, <2>1
<1>7. ASSUME x.ok
      PROVE  y.ok /\ y.next = x.next + p - 1
  <2> DEFINE j == x.next - 1
  <2>1. j \in C /\ j \in (k + 1)..n /\ x.next \in Nat
    BY <1>3, <1>4, <1>7
  <2>2. p + j - 1 \in D
    BY <1>2, <2>1
  <2>3. y.ok /\ y.next - 1 \in D /\ y.next - 1 <= p + j - 1 /\ y.next \in Nat
    BY <1>5, <2>2
  <2>4. y.next - 1 < p + n
    BY <2>1, <2>3
  <2>5. y.next - 1 - p + 1 \in C
    BY <1>6, <2>3, <2>4
  <2>6. j <= y.next - 1 - p + 1
    BY <1>4, <1>7, <2>5
  <2> DEFINE a == x.next
             b == y.next
  <2>7. a \in Nat /\ b \in Nat /\ b - 1 <= p + (a - 1) - 1 /\ a - 1 <= b - 1 - p + 1
    BY <2>1, <2>3, <2>6
  <2> HIDE DEF a, b
  <2>8. b = a + p - 1
    BY <2>7
  <2> QED
    BY <2>3, <2>8 DEF a, b
<1>8. ASSUME y.ok, ~(y.next > p + n)
      PROVE  x.ok
  <2>1. y.next - 1 \in D /\ y.next \in Nat
    BY <1>5, <1>8
  <2>2. y.next - 1 < p + n
    BY <1>8, <2>1
  <2> QED
    BY <1>4, <1>6, <2>1, <2>2
<1> QED
  BY <1>7, <1>8 DEF x, y, s

\* What a part says of an end is what the text says, if the end is in the part.
Local(p, n, x, y) == /\ x.ok => y.ok /\ y.next = x.next + p - 1
                     /\ y.ok => x.ok \/ y.next > p + n

LEMMA DollarBrace ==
    ASSUME NEW text, NEW k
    PROVE  Begins(text, k) <=> k + 1 <= Len(text) /\ text[k] = "$" /\ text[k + 1] = "{"
BY DEF Begins, At2

LEMMA ClosingInText ==
    ASSUME NEW text \in Seq(STRING), NEW p \in 1..Len(text),
           NEW n \in 1..(End(text) - p),
           NEW f, Closing(Cut(text, p, n), f), NEW g, Closing(text, g)
    PROVE  \A k \in 1..(n + 2) : \A d \in Depths : Local(p, n, f[k][d], g[p + k - 1][d])
<1> DEFINE s == Cut(text, p, n)
           N == n + 2
           m == Len(text)
           P == {k \in 1..N : \A d \in Depths : Local(p, n, f[k][d], g[p + k - 1][d])}
<1>1. m \in Nat /\ End(text) = m + 1 /\ Len(s) = n /\ p + n - 1 <= m
  BY CutProperties
<1>0. n \in Nat /\ p \in Nat /\ Len(text) \in Nat
  BY CutProperties
<1>2. \A k \in 1..n : s[k] = text[p + k - 1] /\ p + k - 1 \in 1..m
  BY CutProperties
<1>3. ~Failed.ok /\ \A out, next : Read(out, next).ok /\ Read(out, next).next = next
  BY DEF Failed, Read
<1>4. \A k \in 1..(n + 2), d \in Depths :
          /\ f[k][d] = ClosingFrom(s, k, d, f)
          /\ f[k][d].ok => f[k][d].next \in (k + 1)..(n + 1)
  BY <1>1, ClosingEnds, ClosingValue
<1>5. \A k \in 1..(m + 2), d \in Depths :
          /\ g[k][d] = ClosingFrom(text, k, d, g)
          /\ g[k][d].ok => g[k][d].next \in (k + 1)..(m + 1)
  BY <1>1, ClosingEnds, ClosingValue
<1>6. \A k \in (n + 1)..(n + 2), d \in Depths : ~f[k][d].ok
  <2> TAKE k \in (n + 1)..(n + 2), d \in Depths
  <2> SUFFICES ASSUME f[k][d].ok PROVE FALSE
    OBVIOUS
  <2>1. k \in 1..(n + 2) /\ (k + 1)..(n + 1) = {}
    OBVIOUS
  <2> QED
    BY <1>4, <2>1
<1>7. \A k \in 1..(m + 2), d \in Depths : k >= p + n /\ g[k][d].ok => g[k][d].next > p + n
  <2> SUFFICES ASSUME NEW k \in 1..(m + 2), NEW d \in Depths, k >= p + n, g[k][d].ok
               PROVE  g[k][d].next > p + n
    OBVIOUS
  <2>1. g[k][d].next \in (k + 1)..(m + 1)
    BY <1>5
  <2> QED
    BY <1>1, <2>1
<1> HIDE DEF s
<1>8. ASSUME NEW k \in 1..N, \A q \in (k + 1)..N : q \in P
      PROVE  k \in P
  <2> DEFINE K == p + k - 1
  <2> SUFFICES ASSUME NEW d \in Depths
               PROVE  Local(p, n, f[k][d], g[K][d])
    OBVIOUS
  <2>1. K \in 1..(m + 2)
    BY <1>1
  <2>2. ASSUME NEW q \in (k + 1)..N, NEW e \in Depths
        PROVE  Local(p, n, f[q][e], g[p + q - 1][e])
    BY <1>8
  <2>3. CASE k > n
    <3>1. ~f[k][d].ok
      BY <1>6, <2>3
    <3>2. K >= p + n
      BY <2>3
    <3> HIDE DEF K
    <3>3. g[K][d].ok => g[K][d].next > p + n
      BY <1>7, <2>1, <3>2
    <3> QED
      BY <3>1, <3>3 DEF Local
  <2>4. CASE k <= n
    <3>1. /\ k \in 1..n /\ K \in 1..m /\ s[k] = text[K]
          /\ k + 1 \in (k + 1)..N /\ k + 2 \in (k + 1)..N
          /\ p + (k + 1) - 1 = K + 1 /\ p + (k + 2) - 1 = K + 2
      BY <1>2, <2>4
    <3>2. f[k][d] = ClosingFrom(s, k, d, f) /\ g[K][d] = ClosingFrom(text, K, d, g)
      BY <1>4, <1>5, <2>1
    <3> HIDE DEF K, P, N, m
    <3>3. Arms(s, k, d, f) /\ Arms(text, K, d, g)
      <4>1. Len(s) \in Nat /\ k \in 1..Len(s) /\ Len(text) \in Nat /\ K \in 1..Len(text)
        BY <1>1, <3>1 DEF m
      <4> QED
        BY <4>1, ClosingArms
    <3>4. CASE text[K] = "\\"
      <4>1. f[k][d] = f[k + 2][d] /\ g[K][d] = g[K + 2][d]
        BY <3>1, <3>2, <3>3, <3>4 DEF Arms
      <4> QED
        BY <2>2, <3>1, <4>1
    <3>5. CASE text[K] \in Quotes
      <4> DEFINE x == SkipQuoted(s, k)
                 y == SkipQuoted(text, K)
      <4>1. /\ f[k][d] = IF x.ok THEN f[x.next][d] ELSE Failed
            /\ g[K][d] = IF y.ok THEN g[y.next][d] ELSE Failed
        BY <3>1, <3>2, <3>3, <3>5, Zenon DEF Arms
      <4>2. text[K] # "\\"
        BY <3>5, Zenon DEF Quotes
      <4>3. /\ x.ok => y.ok /\ y.next = x.next + p - 1
            /\ y.ok => x.ok \/ y.next > p + n
        BY <3>1, <4>2, QuotedInText DEF K, s
      <4>4. x.ok => x.next \in (k + 2)..(n + 1)
        <5>1. Len(s) \in Nat /\ k \in 1..Len(s)
          BY <1>1, <3>1
        <5> QED
          BY <1>1, <1>3, <5>1, QuotedEnds
      <4>5. y.ok => y.next \in (K + 2)..(m + 1)
        <5>1. Len(text) \in Nat /\ K \in 1..Len(text)
          BY <1>1, <3>1 DEF m
        <5> QED
          BY <1>3, <5>1, QuotedEnds DEF m
      <4> HIDE DEF x, y
      <4>6. CASE x.ok
        <5>1. x.next \in (k + 1)..N /\ y.next = p + x.next - 1
          BY <3>1, <4>3, <4>4, <4>6 DEF N
        <5>2. f[k][d] = f[x.next][d] /\ g[K][d] = g[p + x.next - 1][d]
          BY <4>1, <4>3, <4>6, <5>1
        <5> QED
          BY <2>2, <5>1, <5>2
      <4>7. CASE ~x.ok
        <5>1. ~f[k][d].ok
          BY <1>3, <4>1, <4>7
        <5>2. ASSUME g[K][d].ok PROVE g[K][d].next > p + n
          <6>1. y.ok /\ g[K][d] = g[y.next][d]
            BY <1>3, <4>1, <5>2
          <6>2. y.next \in 1..(m + 2) /\ y.next >= p + n
            BY <1>1, <3>1, <4>3, <4>5, <4>7, <6>1
          <6> QED
            BY <1>7, <5>2, <6>1, <6>2
        <5> QED
          BY <5>1, <5>2 DEF Local
      <4> QED
        BY <4>6, <4>7
    <3>6. CASE Begins(text, K)
      <4>1. g[K][d] = g[K + 2][d + 1]
        BY <3>2, <3>3, <3>6, Zenon DEF Arms
      <4>a. d + 1 \in Depths
        BY DEF Depths
      <4>2. CASE k < n
        <5>1. k + 1 \in 1..n /\ p + (k + 1) - 1 = K + 1
          BY <3>1, <4>2
        <5>b. s[k + 1] = text[p + (k + 1) - 1]
          BY <1>2, <5>1, Zenon
        <5>2. s[k + 1] = text[K + 1]
          BY <5>b, <5>1, Zenon
        <5>3. k + 1 <= Len(s)
          BY <1>1, <4>2
        <5>a. text[K] = "$" /\ text[K + 1] = "{"
          BY <3>6, DollarBrace
        <5>4. Begins(s, k)
          BY <3>1, <5>a, <5>2, <5>3, DollarBrace
        <5>5. f[k][d] = f[k + 2][d + 1]
          BY <3>2, <3>3, <5>4 DEF Arms
        <5> QED
          BY <2>2, <3>1, <4>1, <4>a, <5>5
      <4>3. CASE k = n
        <5>1. ~Begins(s, k)
          <6>1. ~(k + 1 <= Len(s))
            BY <1>0, <1>1, <4>3
          <6> QED
            BY <6>1, DollarBrace
        <5>2. s[k] \notin Quotes \cup {"\\", "}"}
          BY <3>1, <3>6 DEF Begins, At2, Quotes
        <5>3. f[k][d] = f[k + 1][d]
          BY <3>2, <3>3, <5>1, <5>2 DEF Arms
        <5>4. k + 1 \in (n + 1)..(n + 2)
          BY <4>3
        <5>5. ~f[k][d].ok
          BY <1>6, <5>3, <5>4
        <5>6. K + 2 \in 1..(m + 2) /\ K + 2 >= p + n
          BY <1>1, <3>1, <4>3 DEF K
        <5>7. g[K][d].ok => g[K][d].next > p + n
          BY <1>7, <4>1, <4>a, <5>6
        <5> QED
          BY <5>5, <5>7 DEF Local
      <4> QED
        BY <3>1, <4>2, <4>3
    <3>7. CASE text[K] = "}"
      <4>1. /\ f[k][d] = IF d = 1 THEN Read(<<>>, k + 1) ELSE f[k + 1][d - 1]
            /\ g[K][d] = IF d = 1 THEN Read(<<>>, K + 1) ELSE g[K + 1][d - 1]
        BY <3>1, <3>2, <3>3, <3>7 DEF Arms
      <4>2. CASE d = 1
        <5>1. f[k][d].next = k + 1 /\ g[K][d].next = K + 1 /\ f[k][d].ok /\ g[K][d].ok
          BY <1>3, <4>1, <4>2
        <5>2. K + 1 = k + 1 + p - 1
          BY <3>1 DEF K
        <5> QED
          BY <5>1, <5>2 DEF Local
      <4>3. CASE d # 1
        <5>1. d - 1 \in Depths
          BY <4>3 DEF Depths
        <5> QED
          BY <2>2, <3>1, <4>1, <4>3, <5>1
      <4> QED
        BY <4>2, <4>3
    <3>8. CASE text[K] \notin Quotes \cup {"\\", "}"} /\ ~Begins(text, K)
      <4>1. ~Begins(s, k)
        <5> SUFFICES ASSUME Begins(s, k) PROVE FALSE
          OBVIOUS
        <5>1. s[k] = "$" /\ s[k + 1] = "{"
          BY DollarBrace
        <5>0. k + 1 <= Len(s)
          BY DollarBrace
        <5>2. k + 1 \in 1..n
          <6>1. k + 1 <= n
            BY <1>1, <5>0
          <6> QED
            BY <1>0, <3>1, <6>1
        <5>3. s[k + 1] = text[p + (k + 1) - 1] /\ p + (k + 1) - 1 \in 1..m
          BY <1>2, <5>2
        <5>4. text[K + 1] = "{" /\ text[K] = "$"
          BY <3>1, <5>1, <5>3
        <5>5. K + 1 <= Len(text)
          <6>1. K + 1 \in 1..Len(text)
            BY <3>1, <5>3 DEF m
          <6> QED
            BY <1>0, <6>1
        <5> QED
          BY <3>8, <5>4, <5>5, DollarBrace
      <4>2. f[k][d] = f[k + 1][d] /\ g[K][d] = g[K + 1][d]
        BY <3>1, <3>2, <3>3, <3>8, <4>1 DEF Arms
      <4> QED
        BY <2>2, <3>1, <4>2
    <3> QED
      BY <3>4, <3>5, <3>6, <3>7, <3>8
  <2> QED
    BY <2>3, <2>4
<1>9. \A k \in 1..N : k \in P
  <2>1. N \in Nat
    OBVIOUS
  <2> HIDE DEF P, N
  <2> QED
    BY <1>8, <2>1, ScanInduction
<1> QED
  BY <1>9

\* The brace that closes, in the part and in the text.
LEMMA BraceInText ==
    ASSUME NEW text \in Seq(STRING), NEW p \in 1..Len(text),
           NEW n \in 1..(End(text) - p), NEW k \in 1..(n + 2)
    PROVE  Local(p, n, ClosingBrace(Cut(text, p, n), k), ClosingBrace(text, p + k - 1))
<1> DEFINE s == Cut(text, p, n)
           f == CHOOSE h : Closing(s, h)
           g == CHOOSE h : Closing(text, h)
<1>1. Len(s) \in Nat /\ Len(text) \in Nat
  BY CutProperties
<1>2. Closing(s, f) /\ Closing(text, g)
  BY <1>1, ClosingsExist
<1>3. ClosingBrace(s, k) = f[k][1]
  BY Zenon DEF ClosingBrace, Closing
<1>4. ClosingBrace(text, p + k - 1) = g[p + k - 1][1]
  BY Zenon DEF ClosingBrace, Closing
<1>5. 1 \in Depths
  BY DEF Depths
<1> HIDE DEF f, g
<1> QED
  BY <1>2, <1>3, <1>4, <1>5, ClosingInText

LEMMA NameInText ==
    ASSUME NEW text \in Seq(STRING), NEW p \in 1..Len(text),
           NEW n \in 2..(End(text) - p)
    PROVE  /\ NameEnd(Cut(text, p, n), 1) = n + 1 => p + n <= NameEnd(text, p)
           /\ NameEnd(text, p) = p + n => NameEnd(Cut(text, p, n), 1) = n + 1
<1> DEFINE S == Letters \cup Digits \cup {"."}
           s == Cut(text, p, n)
           x == NameEnd(s, 1)
           y == NameEnd(text, p)
<1>1. /\ Len(text) \in Nat /\ End(text) = Len(text) + 1 /\ Len(s) = n
      /\ \A i \in 1..n : s[i] = text[p + i - 1] /\ p + i - 1 \in 1..Len(text)
  <2>1. n \in 1..(End(text) - p)
    OBVIOUS
  <2> QED
    BY <2>1, CutProperties
<1>2. p \in Nat /\ n \in Nat /\ n >= 2 /\ p + n <= Len(text) + 1
  BY <1>1
<1>3. /\ x \in 3..(n + 1)
      /\ x < n + 1 => s[x] \notin S
      /\ \A j \in 3..(x - 1) : s[j] \in S
  <2>1. 1 + 2 = 3 /\ 3 \in Nat /\ n + 1 \in Nat /\ 3 <= n + 1
    BY <1>2
  <2>2. x = After(s, 3, n + 1, S)
    BY <1>1, <2>1 DEF NameEnd
  <2> HIDE DEF S, s, x
  <2> QED
    BY <2>1, <2>2, AfterScan
<1>4. /\ y \in (p + 2)..(Len(text) + 1)
      /\ y < Len(text) + 1 => text[y] \notin S
      /\ \A j \in (p + 2)..(y - 1) : text[j] \in S
  <2>1. p + 2 \in Nat /\ Len(text) + 1 \in Nat /\ p + 2 <= Len(text) + 1
    BY <1>1, <1>2
  <2>2. y = After(text, p + 2, Len(text) + 1, S)
    BY DEF NameEnd
  <2> HIDE DEF S, y
  <2> QED
    BY <2>1, <2>2, AfterScan
<1> HIDE DEF S, s, x, y
<1>5. ASSUME x = n + 1, y < p + n PROVE FALSE
  <2>1. y - p + 1 \in 3..(x - 1) /\ y - p + 1 \in 1..n /\ p + (y - p + 1) - 1 = y
    BY <1>2, <1>4, <1>5
  <2>2. y < Len(text) + 1
    BY <1>1, <1>2, <1>4, <1>5
  <2> QED
    BY <1>1, <1>3, <1>4, <2>1, <2>2
<1>6. ASSUME y = p + n, x # n + 1 PROVE FALSE
  <2>1. x \in 1..n /\ p + x - 1 \in (p + 2)..(y - 1) /\ x < n + 1
    BY <1>2, <1>3, <1>6
  <2> QED
    BY <1>1, <1>3, <1>4, <2>1
<1>7. x = n + 1 => p + n <= y
  BY <1>1, <1>2, <1>4, <1>5
<1> QED
  BY <1>6, <1>7 DEF x, y, s

LEMMA ShellLexemes ==
    ASSUME NEW text \in Seq(STRING), NEW p \in 1..Len(text), text[p] = "$",
           NEW n \in 1..(End(text) - p)
    PROVE  LET t == ReadShell(text, p)
           IN  /\ IsShell(Cut(text, p, n)) => t.type = "SHELL" /\ p + n <= t.next
               /\ t.type = "SHELL" /\ t.next = p + n => IsShell(Cut(text, p, n))
<1> DEFINE s == Cut(text, p, n)
           x == ReadExpansion(s, 1)
           y == ReadExpansion(text, p)
           t == ReadShell(text, p)
           a == ClosingBrace(s, 3)
           b == ClosingBrace(text, p + 2)
<1>1. /\ Len(text) \in Nat /\ End(text) = Len(text) + 1 /\ Len(s) = n
      /\ \A i \in 1..n : s[i] = text[p + i - 1] /\ p + i - 1 \in 1..Len(text)
  BY CutProperties
<1>2. p \in Nat /\ n \in Nat /\ n >= 1 /\ p + n <= Len(text) + 1
  BY <1>1
<1>3. s[1] = text[p]
  <2>1. 1 \in 1..n /\ p + 1 - 1 = p
    BY <1>2
  <2> QED
    BY <1>1, <2>1
<1>4. IsShell(s) <=> x.ok /\ x.next = n + 1
  BY <1>1, <1>3, Zenon DEF IsShell, End
<1>5. /\ y.ok => t.type = "SHELL" /\ t.next = y.next
      /\ ~y.ok => t.type # "SHELL"
  <2> HIDE DEF y
  <2> QED
    BY DEF ReadShell, Tok, y
<1>6. /\ Named(s, 1) => x.ok /\ x.next = NameEnd(s, 1)
      /\ Begins(s, 1) /\ a.ok => x.ok /\ x.next = a.next
      /\ Begins(s, 1) /\ ~a.ok => ~x.ok
      /\ ~Named(s, 1) /\ ~Begins(s, 1) => ~x.ok
  <2>1. Len(s) \in Nat /\ 1 \in 1..Len(s) /\ 1 + 2 = 3
    BY <1>1, <1>2
  <2> HIDE DEF s
  <2> QED
    BY <2>1, ExpansionIs
<1>7. /\ Named(text, p) => y.ok /\ y.next = NameEnd(text, p)
      /\ Begins(text, p) /\ b.ok => y.ok /\ y.next = b.next
      /\ Begins(text, p) /\ ~b.ok => ~y.ok
      /\ ~Named(text, p) /\ ~Begins(text, p) => ~y.ok
  BY <1>1, ExpansionIs
<1>8. y.ok => y.next \in (p + 2)..(Len(text) + 1)
  BY <1>1, ExpansionEnds
<1>a. x.ok => x.next \in 3..(n + 1)
  <2>1. Len(s) \in Nat /\ 1 \in 1..Len(s) /\ 1 + 2 = 3
    BY <1>1, <1>2
  <2> HIDE DEF s
  <2> QED
    BY <1>1, <2>1, ExpansionEnds
<1>9. Local(p, n, a, b)
  <2>1. 3 \in 1..(n + 2) /\ p + 3 - 1 = p + 2
    BY <1>2
  <2> QED
    BY <2>1, BraceInText
<1>10. n >= 2 /\ NameEnd(s, 1) = n + 1 => p + n <= NameEnd(text, p)
  BY <1>2, NameInText
<1>11. n >= 2 /\ NameEnd(text, p) = p + n => NameEnd(s, 1) = n + 1
  BY <1>2, NameInText
<1> HIDE DEF s, x, y, t, a, b
<1>12. n = 1 => ~Named(s, 1) /\ ~Begins(s, 1)
  <2> SUFFICES ASSUME n = 1 PROVE ~Named(s, 1) /\ ~Begins(s, 1)
    OBVIOUS
  <2>1. ~(1 + 1 <= Len(s))
    BY <1>1
  <2> QED
    BY <2>1, DollarBrace DEF Named
<1>13. n >= 2 => (Named(s, 1) <=> Named(text, p)) /\ (Begins(s, 1) <=> Begins(text, p))
  <2> SUFFICES ASSUME n >= 2
               PROVE  (Named(s, 1) <=> Named(text, p)) /\ (Begins(s, 1) <=> Begins(text, p))
    OBVIOUS
  <2>1. 2 \in 1..n /\ p + 2 - 1 = p + 1 /\ 1 + 1 = 2
    BY <1>2
  <2>2. s[1 + 1] = text[p + 1]
    BY <1>1, <2>1
  <2>3. 1 + 1 <= Len(s) /\ p + 1 <= Len(text)
    BY <1>1, <1>2
  <2> QED
    BY <1>3, <2>2, <2>3, DollarBrace, Zenon DEF Named
<1>14. CASE n = 1
  <2>1. ~x.ok
    BY <1>6, <1>12, <1>14
  <2>2. y.ok => y.next # p + n
    BY <1>2, <1>8, <1>14
  <2> QED
    BY <1>4, <1>5, <2>1, <2>2 DEF s, t
<1>15. CASE n >= 2
  <2>1. CASE Named(text, p)
    <3>1. x.ok /\ y.ok /\ x.next = NameEnd(s, 1) /\ y.next = NameEnd(text, p)
      BY <1>6, <1>7, <1>13, <1>15, <2>1
    <3> QED
      BY <1>4, <1>5, <1>10, <1>11, <1>15, <3>1 DEF s, t
  <2>2. CASE Begins(text, p)
    <3>1. /\ x.ok => a.ok /\ x.next = a.next
          /\ a.ok => x.ok
          /\ y.ok => b.ok /\ y.next = b.next
          /\ b.ok => y.ok
      BY <1>6, <1>7, <1>13, <1>15, <2>2
    <3>2. /\ x.ok => y.ok /\ y.next = x.next + p - 1
          /\ y.ok => x.ok \/ y.next > p + n
      BY <1>9, <3>1 DEF Local
    <3>3. x.ok /\ x.next = n + 1 => y.ok /\ y.next = p + n
      BY <1>2, <3>2
    <3>4. y.ok /\ y.next = p + n => x.ok
      BY <1>2, <3>2
    <3>5. x.ok /\ y.ok /\ y.next = p + n => x.next = n + 1
      <4> SUFFICES ASSUME x.ok, y.ok, y.next = p + n PROVE x.next = n + 1
        OBVIOUS
      <4>1. x.next \in 3..(n + 1)
        BY <1>a
      <4> QED
        BY <1>2, <3>2, <4>1
    <3>6. x.ok /\ x.next = n + 1 => p + n <= y.next
      BY <1>2, <3>3
    <3> QED
      BY <1>4, <1>5, <3>3, <3>4, <3>5, <3>6 DEF s, t
  <2>3. CASE ~Named(text, p) /\ ~Begins(text, p)
    <3>1. ~x.ok /\ ~y.ok
      BY <1>6, <1>7, <1>13, <1>15, <2>3
    <3> QED
      BY <1>4, <1>5, <3>1 DEF s, t
  <2> QED
    BY <2>1, <2>2, <2>3
<1> QED
  BY <1>2, <1>14, <1>15

-----------------------------------------------------------------------------
(* Every token                                                             *)

LEMMA FirstCharacters ==
    ASSUME NEW s, Len(s) \in Nat \ {0}
    PROVE  /\ IsName(s) => IsStart(s[1])
           /\ AllIn(s, Digits) => s[1] \in Digits
           /\ IsString(s) => s[1] \in Quotes
           /\ IsRegex(s) => s[1] = "/"
           /\ IsOperator(s) => s[1] \in OperatorCharacters
           /\ IsShell(s) => s[1] = "$"
<1>1. IsName(s) => IsStart(s[1])
  BY DEF IsName
<1>2. AllIn(s, Digits) => s[1] \in Digits
  BY DEF AllIn
<1>3. IsString(s) => s[1] \in Quotes
  BY Zenon DEF IsString
<1>4. IsRegex(s) => s[1] = "/"
  BY Zenon DEF IsRegex
<1>5. IsOperator(s) => s[1] \in OperatorCharacters
  <2>1. \A x \in Pairs : x[1] \in OperatorCharacters
    <3>1. \A x \in Pairs : x[1] \in {"=", "!", "&", "|"}
      BY DEF Pairs
    <3> QED
      BY <3>1, Zenon DEF OperatorCharacters
  <2>2. Singles \subseteq OperatorCharacters
    BY DEF Singles, OperatorCharacters
  <2> QED
    BY <2>1, <2>2 DEF IsOperator
<1>6. IsShell(s) => s[1] = "$"
  BY Zenon DEF IsShell
<1> QED
  BY <1>1, <1>2, <1>3, <1>4, <1>5, <1>6

\* The first character decides which kind of lexeme a text may be.
LEMMA KindOfLexeme ==
    ASSUME NEW s, Len(s) \in Nat \ {0}
    PROVE  /\ IsStart(s[1]) =>
                  LexemeType(s) = IF IsName(s)
                                  THEN IF s \in Keywords THEN "KEYWORD" ELSE "IDENT"
                                  ELSE "ILLEGAL"
           /\ s[1] \in Digits =>
                  LexemeType(s) = IF AllIn(s, Digits) THEN "INT" ELSE "ILLEGAL"
           /\ s[1] \in Quotes =>
                  LexemeType(s) = IF IsString(s) THEN "STRING" ELSE "ILLEGAL"
           /\ s[1] = "/" => LexemeType(s) = IF IsRegex(s) THEN "REGEXP" ELSE "ILLEGAL"
           /\ s[1] = "$" => LexemeType(s) = IF IsShell(s) THEN "SHELL" ELSE "ILLEGAL"
           /\ ~IsStart(s[1]) /\ s[1] \notin Digits \cup Quotes \cup {"/", "$"} =>
                  LexemeType(s) = IF IsOperator(s) THEN "OPERATOR" ELSE "ILLEGAL"
<1> DEFINE c == s[1]
<1>0. s # <<>>
  <2>1. Len(<<>>) = 0
    OBVIOUS
  <2> QED
    BY <2>1
<1>1. /\ IsStart(c) => c \notin Digits \cup Quotes \cup OperatorCharacters \cup {"/", "$"}
      /\ c \in Digits => c \notin Quotes \cup OperatorCharacters \cup {"/", "$"}
  <2> HIDE DEF c
  <2>1. /\ IsStart(c) => c \notin Digits \cup Quotes \cup OperatorCharacters \cup {"/"}
        /\ c \in Digits => c \notin Quotes \cup OperatorCharacters \cup {"/"}
    BY CharactersAssumption DEF IsStart
  <2>2. c = "$" => ~IsStart(c) /\ c \notin Digits
    BY CharactersAssumption DEF IsStart
  <2> QED
    BY <2>1, <2>2
<1>2. /\ c \in Quotes => c \notin OperatorCharacters \cup {"/", "$"}
      /\ c = "/" => c # "$" /\ c \notin OperatorCharacters
      /\ c = "$" => c \notin OperatorCharacters
  <2> HIDE DEF c
  <2> QED
    BY Zenon DEF Quotes, OperatorCharacters
<1>3. /\ IsName(s) => IsStart(c)
      /\ AllIn(s, Digits) => c \in Digits
      /\ IsString(s) => c \in Quotes
      /\ IsRegex(s) => c = "/"
      /\ IsOperator(s) => c \in OperatorCharacters
      /\ IsShell(s) => c = "$"
  BY FirstCharacters
<1> HIDE DEF c
<1>4. ASSUME IsStart(c)
      PROVE  LexemeType(s) = IF IsName(s)
                             THEN IF s \in Keywords THEN "KEYWORD" ELSE "IDENT"
                             ELSE "ILLEGAL"
  <2>1. ~AllIn(s, Digits) /\ ~IsString(s) /\ ~IsRegex(s) /\ ~IsOperator(s) /\ ~IsShell(s)
    BY <1>1, <1>3, <1>4
  <2> QED
    BY <1>0, <2>1, Zenon DEF LexemeType
<1>5. ASSUME c \in Digits
      PROVE  LexemeType(s) = IF AllIn(s, Digits) THEN "INT" ELSE "ILLEGAL"
  <2>1. ~IsName(s) /\ ~IsString(s) /\ ~IsRegex(s) /\ ~IsOperator(s) /\ ~IsShell(s)
    BY <1>1, <1>3, <1>5
  <2> QED
    BY <1>0, <2>1, Zenon DEF LexemeType
<1>6. ASSUME c \in Quotes
      PROVE  LexemeType(s) = IF IsString(s) THEN "STRING" ELSE "ILLEGAL"
  <2>1. ~IsName(s) /\ ~AllIn(s, Digits) /\ ~IsRegex(s) /\ ~IsOperator(s) /\ ~IsShell(s)
    BY <1>1, <1>2, <1>3, <1>6
  <2> QED
    BY <1>0, <2>1, Zenon DEF LexemeType
<1>7. ASSUME c = "/"
      PROVE  LexemeType(s) = IF IsRegex(s) THEN "REGEXP" ELSE "ILLEGAL"
  <2>1. ~IsName(s) /\ ~AllIn(s, Digits) /\ ~IsString(s) /\ ~IsOperator(s) /\ ~IsShell(s)
    BY <1>1, <1>2, <1>3, <1>7
  <2> QED
    BY <1>0, <2>1, Zenon DEF LexemeType
<1>8. ASSUME c = "$"
      PROVE  LexemeType(s) = IF IsShell(s) THEN "SHELL" ELSE "ILLEGAL"
  <2>1. ~IsName(s) /\ ~AllIn(s, Digits) /\ ~IsString(s) /\ ~IsOperator(s) /\ ~IsRegex(s)
    BY <1>1, <1>2, <1>3, <1>8
  <2> QED
    BY <1>0, <2>1, Zenon DEF LexemeType
<1>9. ASSUME ~IsStart(c), c \notin Digits \cup Quotes \cup {"/", "$"}
      PROVE  LexemeType(s) = IF IsOperator(s) THEN "OPERATOR" ELSE "ILLEGAL"
  <2>1. ~IsName(s) /\ ~AllIn(s, Digits) /\ ~IsString(s) /\ ~IsRegex(s) /\ ~IsShell(s)
    BY <1>3, <1>9
  <2> QED
    BY <1>0, <2>1, Zenon DEF LexemeType
<1> QED
  BY <1>4, <1>5, <1>6, <1>7, <1>8, <1>9 DEF c

\* A part that is a lexeme is in the token, and the token is such a part.
Longest(p, n, type, t) ==
    /\ type # "ILLEGAL" => t.type # "ILLEGAL" /\ p + n <= t.next
    /\ t.type # "ILLEGAL" /\ t.next = p + n => type = t.type

LEMMA TokensAndLexemes ==
    ASSUME NEW text \in Seq(STRING), NEW p \in 1..Len(text), text[p] # NUL,
           ~IsComment(text, p), NEW n \in 1..(End(text) - p)
    PROVE  Longest(p, n, LexemeType(Cut(text, p, n)), TokenAt(text, p))
<1> DEFINE s == Cut(text, p, n)
           c == text[p]
           t == TokenAt(text, p)
<1>1. Len(text) \in Nat /\ p \in 1..End(text) /\ c = Char(text, p)
  BY DEF End, Char
<1>2. Len(s) \in Nat \ {0} /\ s[1] = c
  <2>1. 1 \in 1..n /\ p + 1 - 1 = p
    OBVIOUS
  <2> QED
    BY <2>1, CutProperties
<1>3. /\ c = "$" => t = ReadShell(text, p)
      /\ c \in Quotes => t = ReadString(text, p)
      /\ c = "/" => t = ReadRegex(text, p)
      /\ IsStart(c) => t = ReadIdentifier(text, p)
      /\ c \in Digits => t = ReadNumber(text, p)
      /\ c \in Quotes \cup Digits \cup {"$", "/"} \/ IsStart(c) \/ t = ReadOperator(text, p)
  BY <1>1, TokenAtCases
<1> HIDE DEF t, c, s
<1>4. CASE IsStart(c)
  <2>1. LexemeType(s) = IF IsName(s) THEN IF s \in Keywords THEN "KEYWORD" ELSE "IDENT"
                        ELSE "ILLEGAL"
    BY <1>2, <1>4, KindOfLexeme
  <2>2. Token(text, p, t, {"IDENT", "KEYWORD"})
    BY <1>1, <1>3, <1>4, IdentifierIsAToken DEF c
  <2>3. /\ IsName(s) => p + n <= t.next
        /\ t.next = p + n => /\ IsName(s)
                             /\ t.type = IF s \in Keywords THEN "KEYWORD" ELSE "IDENT"
    BY <1>3, <1>4, NameLexemes DEF c, s
  <2> QED
    BY <2>1, <2>2, <2>3 DEF Longest, Token, s, t
<1>5. CASE c \in Digits
  <2>1. LexemeType(s) = IF AllIn(s, Digits) THEN "INT" ELSE "ILLEGAL"
    BY <1>2, <1>5, KindOfLexeme
  <2>2. /\ AllIn(s, Digits) => p + n <= t.next
        /\ t.next = p + n => AllIn(s, Digits)
        /\ t.type = "INT"
    BY <1>3, <1>5, NumberLexemes DEF s
  <2> QED
    BY <2>1, <2>2 DEF Longest, s, t
<1>6. CASE c \in Quotes
  <2>1. LexemeType(s) = IF IsString(s) THEN "STRING" ELSE "ILLEGAL"
    BY <1>2, <1>6, KindOfLexeme
  <2>2. IsString(s) <=> t.type = "STRING" /\ t.next = p + n
    BY <1>3, <1>6, StringLexemes DEF s, c
  <2>3. t.type \in {"STRING", "ILLEGAL"}
    BY <1>1, <1>3, <1>6, StringEnds DEF Token, c
  <2> QED
    BY <2>1, <2>2, <2>3 DEF Longest, s, t
<1>7. CASE c = "/"
  <2>1. LexemeType(s) = IF IsRegex(s) THEN "REGEXP" ELSE "ILLEGAL"
    BY <1>2, <1>7, KindOfLexeme
  <2>2. /\ IsRegex(s) => t.type = "REGEXP" /\ p + n <= t.next
        /\ t.type = "REGEXP" /\ t.next = p + n => IsRegex(s)
    BY <1>3, <1>7, RegexLexemes DEF s, c
  <2>3. t.type \in {"REGEXP", "ILLEGAL"}
    BY <1>1, <1>3, <1>7, RegexIsAToken DEF Token
  <2> QED
    BY <2>1, <2>2, <2>3 DEF Longest, s, t
<1>8. CASE c = "$"
  <2>1. LexemeType(s) = IF IsShell(s) THEN "SHELL" ELSE "ILLEGAL"
    BY <1>2, <1>8, KindOfLexeme
  <2>2. /\ IsShell(s) => t.type = "SHELL" /\ p + n <= t.next
        /\ t.type = "SHELL" /\ t.next = p + n => IsShell(s)
    BY <1>3, <1>8, ShellLexemes DEF s, c
  <2>3. t.type \in {"SHELL", "ILLEGAL"}
    BY <1>1, <1>3, <1>8, ShellIsAToken DEF Token
  <2> QED
    BY <2>1, <2>2, <2>3 DEF Longest, s, t
<1>9. CASE ~IsStart(c) /\ c \notin Digits \cup Quotes \cup {"/", "$"}
  <2>1. LexemeType(s) = IF IsOperator(s) THEN "OPERATOR" ELSE "ILLEGAL"
    BY <1>2, <1>9, KindOfLexeme
  <2>2. t = ReadOperator(text, p)
    BY <1>3, <1>9
  <2>3. /\ IsOperator(s) => t.type = "OPERATOR" /\ p + n <= t.next
        /\ t.type = "OPERATOR" /\ t.next = p + n => IsOperator(s)
    BY <2>2, OperatorLexemes DEF s
  <2>4. t.type \in {"OPERATOR", "ILLEGAL"}
    BY <1>1, <2>2, OperatorIsAToken DEF Token
  <2> QED
    BY <2>1, <2>3, <2>4 DEF Longest, s, t
<1> QED
  BY <1>4, <1>5, <1>6, <1>7, <1>8, <1>9

-----------------------------------------------------------------------------
(* The theorem                                                             *)

\* No token but the end of the text begins at a NUL or at a comment.
LEMMA TokenIsRead ==
    ASSUME LInv, token.type \notin {"none", "EOF"}
    PROVE  /\ input \in Seq(STRING)
           /\ token.first \in 1..Len(input) /\ token.next \in (token.first + 1)..End(input)
           /\ token = TokenAt(input, token.first)
           /\ input[token.first] # NUL /\ ~IsComment(input, token.first)
<1> DEFINE p == Start(input, before)
<1>1. /\ input \in Seq(STRING) /\ Len(input) \in Nat
      /\ before \in 1..End(input) /\ End(input) = Len(input) + 1
  BY InputsAreTexts DEF LInv, End
<1>2. token = TokenFrom(input, before)
  BY DEF LInv, NoToken, Tok
<1>3. token = TokenAt(input, p)
  BY <1>2, Zenon DEF TokenFrom, Start
<1>4. p \in 1..End(input)
  BY <1>1, StartIsSkipped
<1>5. ~IsComment(input, p)
  <2>1. SkipWhitespace(input, before) \in before..End(input)
    BY <1>1, WhitespaceSkipped
  <2>2. SkipWhitespace(input, before) \in 1..End(input)
    BY <1>1, <2>1
  <2> QED
    BY <1>1, <2>2, CommentsSkipped DEF Start
<1> HIDE DEF p
<1>6. /\ token.first = p /\ token.next \in p..End(input)
      /\ p < token.next \/ p = End(input)
      /\ token.type = "EOF" <=> Char(input, p) = NUL
  BY <1>1, <1>3, <1>4, TokenEnds
<1>7. p \in 1..Len(input) /\ Char(input, p) = input[p]
  BY <1>1, <1>4, <1>6, CharacterAt
<1> QED
  BY <1>1, <1>3, <1>5, <1>6, <1>7

\* A token is the longest lexeme that begins where it begins, and it is illegal
\* only where no lexeme begins: NextToken of lexer.go with all of its readers,
\* against the lexemes declared without a scanner.
THEOREM ATokenIsTheLongestLexeme == LexerSpec => []LongestLexeme
<1>1. LInv => LongestLexeme
  <2> SUFFICES ASSUME LInv, token.type \notin {"none", "EOF"}
               PROVE  /\ token.type = LexemeType(TokenText)
                      /\ \A n \in (token.next - token.first + 1)..(Len(input) - token.first + 1) :
                             LexemeType(Prefix(n)) = "ILLEGAL"
                      /\ token.type = "ILLEGAL" =>
                             \A n \in 1..Len(TokenText) : LexemeType(Prefix(n)) = "ILLEGAL"
    BY DEF LongestLexeme
  <2> DEFINE p == token.first
             N == token.next - token.first
  <2>1. /\ input \in Seq(STRING)
        /\ p \in 1..Len(input) /\ token.next \in (p + 1)..End(input)
        /\ token = TokenAt(input, p)
        /\ input[p] # NUL /\ ~IsComment(input, p)
    BY TokenIsRead
  <2>2. Len(input) \in Nat /\ End(input) = Len(input) + 1
    BY <2>1 DEF End
  <2>3. N \in 1..(End(input) - p) /\ p + N = token.next /\ p + N - 1 = token.next - 1
    BY <2>1, <2>2
  <2>4. \A n \in 1..(End(input) - p) : Longest(p, n, LexemeType(Prefix(n)), token)
    <3> TAKE n \in 1..(End(input) - p)
    <3>1. Prefix(n) = Cut(input, p, n)
      BY DEF Prefix, Cut
    <3> QED
      BY <2>1, <3>1, TokensAndLexemes
  <2>5. TokenText = Prefix(N) /\ Len(TokenText) = N
    <3>1. TokenText = Prefix(N)
      BY <2>3, Zenon DEF TokenText, Prefix
    <3>2. Prefix(N) = Cut(input, p, N)
      BY DEF Prefix, Cut
    <3> HIDE DEF N, p
    <3>3. Len(Cut(input, p, N)) = N
      BY <2>1, <2>3, CutProperties
    <3> QED
      BY <3>1, <3>2, <3>3
  <2>6. Longest(p, N, LexemeType(TokenText), token)
    BY <2>3, <2>4, <2>5
  <2>7. token.type = LexemeType(TokenText)
    BY <2>3, <2>6 DEF Longest
  <2>8. ASSUME NEW n \in (token.next - token.first + 1)..(Len(input) - token.first + 1)
        PROVE  LexemeType(Prefix(n)) = "ILLEGAL"
    <3>1. n \in 1..(End(input) - p) /\ ~(p + n <= token.next)
      BY <2>1, <2>2
    <3> QED
      BY <2>4, <3>1 DEF Longest
  <2>9. ASSUME token.type = "ILLEGAL", NEW n \in 1..Len(TokenText)
        PROVE  LexemeType(Prefix(n)) = "ILLEGAL"
    <3>1. n \in 1..(End(input) - p)
      BY <2>1, <2>2, <2>3, <2>5
    <3> QED
      BY <2>4, <2>9, <3>1 DEF Longest
  <2> QED
    BY <2>7, <2>8, <2>9
<1> QED
  BY <1>1, LInvInvariant, PTL
=============================================================================

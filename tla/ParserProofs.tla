---------------------------- MODULE ParserProofs ----------------------------
(***************************************************************************)
(* Proofs about the parser, for any texts of any tokens, any literals the  *)
(* parser refuses and any number of goroutines that parse at once.         *)
(*                                                                         *)
(* The nodes made so far are a forest.  Its roots are held by the calls    *)
(* that wait on the stack, each by one of them and once, but for the       *)
(* leftExp of the call that runs.  What makes a node takes its operands    *)
(* from there, so in the end the leftExp is the only root.  None of this   *)
(* need hold once an error has been reported: a nil is then an operand.    *)
(***************************************************************************)
EXTENDS Parser, TLAPS

Callers == {"Parse", "Prefix", "Group", "Infix", "Consequence", "Alternative",
            "Call", "Array"}

Frame == [at : Callers, prec : LOWEST..DOT, tok : STRING, kids : Seq(Nat)]

State == [pc : Locations, text : Seq(Token), prec : LOWEST..DOT, left : Nat,
          stack : Seq(Frame), nodes : Seq(Node), errors : SUBSET Errors,
          loaded : Int, words : Words, reads : 0..2]

\* The end of a text is one of its tokens.
Ends(s) == EOF \in s.words.tokens

-----------------------------------------------------------------------------
(* The forest.                                                             *)

In(kids, n) == \E k \in 1..Len(kids) : kids[k] = n

Distinct(kids) == \A j, k \in 1..Len(kids) : kids[j] = kids[k] => j = k

Held(stack, n) == \E i \in 1..Len(stack) : In(stack[i].kids, n)

\* A node is known to its operands, and a node with a parent to its parent.
Linked(nodes) ==
    \A n \in 1..Len(nodes) :
        /\ Len(nodes[n].kids) = Arity(nodes[n])
        /\ Distinct(nodes[n].kids)
        /\ \A k \in 1..Len(nodes[n].kids) :
               /\ nodes[n].kids[k] \in 1..(n - 1)
               /\ nodes[nodes[n].kids[k]].up = n
        /\ nodes[n].up # 0 => /\ nodes[n].up \in (n + 1)..Len(nodes)
                              /\ In(nodes[nodes[n].up].kids, n)

\* The roots are what the stack holds and what is in kids, each of them once.
Roots(nodes, stack, kids) ==
    /\ Distinct(kids)
    /\ \A i \in 1..Len(stack) : Distinct(stack[i].kids)
    /\ \A n \in Nat :
         /\ \A i, j \in 1..Len(stack) :
                In(stack[i].kids, n) /\ In(stack[j].kids, n) => i = j
         /\ ~(Held(stack, n) /\ In(kids, n))
         /\ Held(stack, n) \/ In(kids, n)
                <=> n \in 1..Len(nodes) /\ nodes[n].up = 0

Forest(nodes, stack, kids) == Linked(nodes) /\ Roots(nodes, stack, kids)

-----------------------------------------------------------------------------
(* The invariant of one goroutine's parser.                                *)

\* How many operands a caller has when it calls parseExpression.
Waiting(at, kids) ==
    /\ at \in {"Parse", "Prefix", "Group"} => kids = <<>>
    /\ at \in {"Infix", "Consequence"} => Len(kids) = 1
    /\ at = "Alternative" => Len(kids) = 2

\* The outermost call is that of Parse.
Calls(stack) ==
    \A i \in 1..Len(stack) : /\ stack[i].at = "Parse" <=> i = 1
                             /\ Waiting(stack[i].at, stack[i].kids)

\* While kids are in the hands of the step that runs.
Sound(s, kids) ==
    /\ s \in State
    /\ s.left <= Len(s.nodes)
    /\ Len(s.text) + s.reads >= 2 /\ Ends(s)
    /\ Calls(s.stack)
    /\ s.errors = {} => Forest(s.nodes, s.stack, kids)

\* The leftExp is the last node made.
Live(s) == s.errors = {} => s.left # 0 /\ s.left = Len(s.nodes)

Running == Locations \ {"new", "parse", "expression", "done"}

PInv(s) ==
    /\ s.pc = "new" => /\ s \in State /\ s.left = 0 /\ s.reads = 0 /\ Ends(s)
                       /\ s.text = <<>> /\ s.nodes = <<>> /\ s.stack = <<>>
    /\ s.pc = "parse" => Sound(s, <<>>) /\ s.stack = <<>>
    /\ s.pc = "expression" => Sound(s, <<>>) /\ s.stack # <<>>
    /\ s.pc \in Running => Sound(s, <<s.left>>) /\ Live(s) /\ s.stack # <<>>
    /\ s.pc = "done" => Sound(s, <<s.left>>) /\ Live(s) /\ s.stack = <<>>
    /\ s.pc \in Locations

Inv == /\ traceLevel \in Int
       /\ DOMAIN parser \subseteq Goroutines
       /\ parser \in [DOMAIN parser -> State]
       /\ \A g \in DOMAIN parser : PInv(parser[g])

-----------------------------------------------------------------------------
(* What the steps of a parser do to the forest.                            *)

LEMMA InAppend ==
    ASSUME NEW kids \in Seq(Nat), NEW x \in Nat, NEW n \in Nat
    PROVE  In(Append(kids, x), n) <=> In(kids, n) \/ n = x
<1>1. /\ Len(Append(kids, x)) = Len(kids) + 1 /\ Len(kids) \in Nat
      /\ \A k \in 1..Len(kids) : Append(kids, x)[k] = kids[k]
      /\ Append(kids, x)[Len(kids) + 1] = x
  OBVIOUS
<1>2. In(kids, n) => In(Append(kids, x), n)
  BY <1>1 DEF In
<1>3. n = x => In(Append(kids, x), n)
  BY <1>1 DEF In
<1>4. In(Append(kids, x), n) => In(kids, n) \/ n = x
  BY <1>1 DEF In
<1> QED
  BY <1>2, <1>3, <1>4

LEMMA DistinctAppend ==
    ASSUME NEW kids \in Seq(Nat), NEW x \in Nat, Distinct(kids), ~In(kids, x)
    PROVE  Distinct(Append(kids, x))
<1>1. /\ Len(Append(kids, x)) = Len(kids) + 1 /\ Len(kids) \in Nat
      /\ \A k \in 1..Len(kids) : Append(kids, x)[k] = kids[k]
      /\ Append(kids, x)[Len(kids) + 1] = x
  OBVIOUS
<1>2. \A k \in 1..Len(kids) : kids[k] # x
  BY DEF In
<1>3. \A j, k \in 1..Len(kids) : kids[j] = kids[k] => j = k
  BY DEF Distinct
<1>4. \A k \in 1..(Len(kids) + 1) : k \in 1..Len(kids) \/ k = Len(kids) + 1
  BY <1>1
<1> QED
  BY <1>1, <1>2, <1>3, <1>4 DEF Distinct

\* A caller that waits for its next operand holds the ones it has.
LEMMA PushRoots ==
    ASSUME NEW nodes, NEW stack \in Seq(Frame), NEW f \in Frame,
           Roots(nodes, stack, f.kids)
    PROVE  Roots(nodes, Append(stack, f), <<>>)
<1> DEFINE new == Append(stack, f)
<1>1. /\ Len(new) = Len(stack) + 1 /\ Len(stack) \in Nat
      /\ \A i \in 1..Len(stack) : new[i] = stack[i]
      /\ new[Len(stack) + 1] = f
  OBVIOUS
<1>2. \A i \in 1..(Len(stack) + 1) : i \in 1..Len(stack) \/ i = Len(stack) + 1
  BY <1>1
<1> HIDE DEF new
<1>3. \A i \in 1..Len(new) : Distinct(new[i].kids)
  BY <1>1, <1>2 DEF Roots
<1>4. Distinct(<<>>) /\ \A n \in Nat : ~In(<<>>, n)
  BY DEF Distinct, In
<1>5. ASSUME NEW n \in Nat
      PROVE  Held(new, n) <=> Held(stack, n) \/ In(f.kids, n)
  BY <1>1, <1>2 DEF Held
<1>6. ASSUME NEW n \in Nat, NEW i \in 1..Len(new), NEW j \in 1..Len(new),
             In(new[i].kids, n), In(new[j].kids, n)
      PROVE  i = j
  <2>1. CASE i \in 1..Len(stack) /\ j \in 1..Len(stack)
    BY <1>1, <1>6, <2>1 DEF Roots
  <2>2. CASE i \in 1..Len(stack) /\ j = Len(stack) + 1
    BY <1>1, <1>6, <2>2 DEF Roots, Held
  <2>3. CASE i = Len(stack) + 1 /\ j \in 1..Len(stack)
    BY <1>1, <1>6, <2>3 DEF Roots, Held
  <2> QED
    BY <1>1, <1>2, <2>1, <2>2, <2>3
<1>7. ASSUME NEW n \in Nat
      PROVE  Held(stack, n) \/ In(f.kids, n)
                <=> n \in 1..Len(nodes) /\ nodes[n].up = 0
  BY DEF Roots
<1>8. Roots(nodes, new, <<>>)
  BY <1>3, <1>4, <1>5, <1>6, <1>7 DEF Roots
<1> QED
  BY <1>8 DEF new

\* A caller whose operand has been parsed has it with the ones it held.
LEMMA PopRoots ==
    ASSUME NEW nodes, NEW stack \in Seq(Frame), stack # <<>>, NEW left \in Nat,
           Roots(nodes, stack, <<left>>)
    PROVE  Roots(nodes, SubSeq(stack, 1, Len(stack) - 1),
                 Append(stack[Len(stack)].kids, left))
<1> DEFINE len == Len(stack)
           new == SubSeq(stack, 1, len - 1)
           top == stack[len].kids
<1>1. /\ len \in Nat \ {0} /\ Len(new) = len - 1
      /\ \A i \in 1..(len - 1) : new[i] = stack[i]
      /\ stack[len] \in Frame /\ len \in 1..len
  OBVIOUS
<1>2. \A i \in 1..len : i \in 1..(len - 1) \/ i = len
  BY <1>1
<1>3. top \in Seq(Nat)
  BY <1>1 DEF Frame
<1>4. \A n \in Nat : In(<<left>>, n) <=> n = left
  BY DEF In
<1> HIDE DEF new, top
<1>5. ASSUME NEW n \in Nat
      PROVE  Held(stack, n) <=> Held(new, n) \/ In(top, n)
  BY <1>1, <1>2 DEF Held, top
<1>6. ASSUME NEW n \in Nat
      PROVE  /\ ~(Held(new, n) /\ In(top, n))
             /\ Held(stack, n) => n # left
             /\ Held(stack, n) \/ n = left
                    <=> n \in 1..Len(nodes) /\ nodes[n].up = 0
    <2>1. ~(Held(new, n) /\ In(top, n))
      BY <1>1 DEF Roots, Held, top
    <2> QED
      BY <1>4, <2>1 DEF Roots
<1>7. Distinct(Append(top, left))
  <2>1. Distinct(top)
    BY <1>1 DEF Roots, top
  <2>2. ~In(top, left)
    BY <1>5, <1>6
  <2> QED
    BY <1>3, <2>1, <2>2, DistinctAppend
<1>8. ASSUME NEW n \in Nat
      PROVE  In(Append(top, left), n) <=> In(top, n) \/ n = left
  BY <1>3, InAppend
<1>9. \A i \in 1..Len(new) : Distinct(new[i].kids)
  BY <1>1 DEF Roots
<1>10. ASSUME NEW n \in Nat
       PROVE  \A i, j \in 1..Len(new) :
                  In(new[i].kids, n) /\ In(new[j].kids, n) => i = j
  BY <1>1 DEF Roots
<1>11. Roots(nodes, new, Append(top, left))
  BY <1>5, <1>6, <1>7, <1>8, <1>9, <1>10 DEF Roots
<1> QED
  BY <1>11 DEF new, top

LEMMA AdoptType ==
    ASSUME NEW nodes \in Seq(Node), NEW kids \in Seq(Nat), NEW n \in Nat
    PROVE  /\ Adopt(nodes, kids, n) \in Seq(Node)
           /\ Len(Adopt(nodes, kids, n)) = Len(nodes)
           /\ \A k \in 1..Len(nodes) :
                  /\ Adopt(nodes, kids, n)[k].op = nodes[k].op
                  /\ Adopt(nodes, kids, n)[k].tok = nodes[k].tok
                  /\ Adopt(nodes, kids, n)[k].kids = nodes[k].kids
                  /\ Adopt(nodes, kids, n)[k].up
                         = IF In(kids, k) THEN n ELSE nodes[k].up
<1>1. ASSUME NEW k \in 1..Len(nodes)
      PROVE  /\ nodes[k] \in Node
             /\ [nodes[k] EXCEPT !.up = n] \in Node
             /\ [nodes[k] EXCEPT !.up = n].op = nodes[k].op
             /\ [nodes[k] EXCEPT !.up = n].tok = nodes[k].tok
             /\ [nodes[k] EXCEPT !.up = n].kids = nodes[k].kids
             /\ [nodes[k] EXCEPT !.up = n].up = n
  <2>1. nodes[k] \in Node
    OBVIOUS
  <2> QED
    BY <2>1 DEF Node
<1>2. ASSUME NEW k \in 1..Len(nodes)
      PROVE  Adopt(nodes, kids, n)[k] = IF In(kids, k)
                                        THEN [nodes[k] EXCEPT !.up = n]
                                        ELSE nodes[k]
  BY DEF Adopt, In
<1>3. Len(nodes) \in Nat /\ DOMAIN Adopt(nodes, kids, n) = 1..Len(nodes)
  BY DEF Adopt
<1>4. Adopt(nodes, kids, n) \in [1..Len(nodes) -> Node]
  <2>1. \A k \in 1..Len(nodes) : Adopt(nodes, kids, n)[k] \in Node
    BY <1>1, <1>2
  <2> QED
    BY <2>1 DEF Adopt
<1>5. Adopt(nodes, kids, n) \in Seq(Node)
  BY <1>3, <1>4
<1>6. Len(Adopt(nodes, kids, n)) = Len(nodes)
  BY <1>3, <1>5
<1> QED
  BY <1>1, <1>2, <1>5, <1>6

\* A node that is made of the roots in kids takes their place.
LEMMA BuildForest ==
    ASSUME NEW nodes \in Seq(Node), NEW stack \in Seq(Frame), NEW node \in Node,
           node.up = 0, Len(node.kids) = Arity(node),
           Forest(nodes, stack, node.kids)
    PROVE  LET n == Len(nodes) + 1
           IN  Forest(Append(Adopt(nodes, node.kids, n), node), stack, <<n>>)
<1> DEFINE n == Len(nodes) + 1
           kids == node.kids
           old == Adopt(nodes, kids, n)
           new == Append(old, node)
<1>1. kids \in Seq(Nat) /\ n \in Nat /\ Len(nodes) \in Nat /\ n # 0
  BY DEF Node
<1>2. /\ old \in Seq(Node) /\ Len(old) = Len(nodes)
      /\ \A k \in 1..Len(nodes) :
             /\ old[k].op = nodes[k].op /\ old[k].tok = nodes[k].tok
             /\ old[k].kids = nodes[k].kids
             /\ old[k].up = IF In(kids, k) THEN n ELSE nodes[k].up
  BY <1>1, AdoptType
<1> HIDE DEF old
<1>3. /\ Len(new) = n
      /\ \A k \in 1..Len(nodes) : new[k] = old[k]
      /\ new[n] = node
  BY <1>1, <1>2
<1>4. \A k \in 1..n : k \in 1..Len(nodes) \/ k = n
  BY <1>1
<1> HIDE DEF new, n, kids
<1>5. ASSUME NEW k \in Nat, In(kids, k)
      PROVE  k \in 1..Len(nodes) /\ nodes[k].up = 0 /\ ~Held(stack, k)
  BY <1>5 DEF Forest, Roots, kids
<1>6. \A i \in 1..Len(kids) : kids[i] \in Nat /\ In(kids, kids[i])
  BY <1>1 DEF In
<1>7. Linked(new)
  <2>1. ASSUME NEW k \in 1..Len(nodes)
        PROVE  /\ Len(new[k].kids) = Arity(new[k])
               /\ Distinct(new[k].kids)
               /\ \A i \in 1..Len(new[k].kids) :
                      /\ new[k].kids[i] \in 1..(k - 1)
                      /\ new[new[k].kids[i]].up = k
               /\ new[k].up # 0 => /\ new[k].up \in (k + 1)..Len(new)
                                   /\ In(new[new[k].up].kids, k)
    <3>1. /\ Len(nodes[k].kids) = Arity(nodes[k])
          /\ Distinct(nodes[k].kids)
          /\ \A i \in 1..Len(nodes[k].kids) :
                 /\ nodes[k].kids[i] \in 1..(k - 1)
                 /\ nodes[nodes[k].kids[i]].up = k
          /\ nodes[k].up # 0 => /\ nodes[k].up \in (k + 1)..Len(nodes)
                                /\ In(nodes[nodes[k].up].kids, k)
      BY DEF Forest, Linked
    <3>2. /\ new[k].op = nodes[k].op /\ new[k].kids = nodes[k].kids
          /\ new[k].up = IF In(kids, k) THEN n ELSE nodes[k].up
      BY <1>2, <1>3
    <3>3. Arity(new[k]) = Arity(nodes[k])
      BY <3>2 DEF Arity
    <3>4. ASSUME NEW i \in 1..Len(nodes[k].kids)
          PROVE  new[nodes[k].kids[i]].up = k
      <4> DEFINE m == nodes[k].kids[i]
      <4>1. m \in 1..Len(nodes) /\ nodes[m].up = k /\ k # 0
        BY <1>1, <3>1
      <4>2. ~In(kids, m)
        BY <1>5, <4>1
      <4> QED
        BY <1>2, <1>3, <4>1, <4>2
    <3>5. CASE In(kids, k)
      <4>1. new[k].up = n /\ n \in (k + 1)..Len(new)
        BY <1>1, <1>3, <3>2, <3>5 DEF n
      <4>2. In(new[n].kids, k)
        BY <1>3, <3>5 DEF kids
      <4> QED
        BY <3>1, <3>2, <3>3, <3>4, <4>1, <4>2
    <3>6. CASE ~In(kids, k) /\ nodes[k].up # 0
      <4> DEFINE m == nodes[k].up
      <4>1. m \in (k + 1)..Len(nodes) /\ m \in 1..Len(nodes) /\ In(nodes[m].kids, k)
        BY <1>1, <3>1, <3>6
      <4>2. new[m].kids = nodes[m].kids
        BY <1>2, <1>3, <4>1
      <4>3. m \in (k + 1)..Len(new)
        BY <1>1, <1>3, <4>1 DEF n
      <4> QED
        BY <3>1, <3>2, <3>3, <3>4, <3>6, <4>1, <4>2, <4>3
    <3>7. CASE ~In(kids, k) /\ nodes[k].up = 0
      BY <3>1, <3>2, <3>3, <3>4, <3>7
    <3> QED
      BY <3>5, <3>6, <3>7
  <2>2. /\ Len(new[n].kids) = Arity(new[n])
        /\ Distinct(new[n].kids)
        /\ \A i \in 1..Len(new[n].kids) :
               /\ new[n].kids[i] \in 1..(n - 1)
               /\ new[new[n].kids[i]].up = n
        /\ new[n].up = 0
    <3>1. Distinct(kids)
      BY DEF Forest, Roots, kids
    <3>2. ASSUME NEW i \in 1..Len(kids)
          PROVE  kids[i] \in 1..(n - 1) /\ new[kids[i]].up = n
      BY <1>1, <1>2, <1>3, <1>5, <1>6 DEF n
    <3> QED
      BY <1>3, <3>1, <3>2 DEF kids
  <2> QED
    BY <1>3, <1>4, <2>1, <2>2 DEF Linked
<1>8. Roots(new, stack, <<n>>)
  <2>1. \A k \in Nat : In(<<n>>, k) <=> k = n
    BY DEF In
  <2>2. Distinct(<<n>>)
    BY DEF Distinct
  <2>3. ASSUME NEW k \in Nat
        PROVE  /\ ~(Held(stack, k) /\ k = n)
               /\ Held(stack, k) \/ k = n
                      <=> k \in 1..Len(new) /\ new[k].up = 0
    <3>1. /\ Held(stack, k) \/ In(kids, k)
                 <=> k \in 1..Len(nodes) /\ nodes[k].up = 0
          /\ ~(Held(stack, k) /\ In(kids, k))
      BY DEF Forest, Roots, kids
    <3>2. n \notin 1..Len(nodes)
      BY <1>1 DEF n
    <3>3. CASE k \in 1..Len(nodes)
      <4>1. new[k].up = (IF In(kids, k) THEN n ELSE nodes[k].up) /\ k # n
        BY <1>2, <1>3, <3>2, <3>3
      <4>2. k \in 1..Len(new)
        BY <1>1, <1>3, <3>3 DEF n
      <4> QED
        BY <1>1, <3>1, <3>3, <4>1, <4>2
    <3>4. CASE k = n
      <4>1. k \in 1..Len(new) /\ new[k].up = 0
        BY <1>1, <1>3, <3>4
      <4> QED
        BY <3>1, <3>2, <3>4, <4>1
    <3>5. CASE k \notin 1..n
      BY <1>1, <1>3, <1>4, <3>1, <3>5 DEF n
    <3> QED
      BY <1>4, <3>3, <3>4, <3>5
  <2> QED
    BY <2>1, <2>2, <2>3 DEF Forest, Roots
<1>9. Forest(new, stack, <<n>>)
  BY <1>7, <1>8 DEF Forest
<1> QED
  BY <1>9 DEF new, old, n, kids

\* A leaf that was made last can be taken off again.
LEMMA DropForest ==
    ASSUME NEW nodes \in Seq(Node), NEW stack \in Seq(Frame), nodes # <<>>,
           nodes[Len(nodes)].op \in LeafOps,
           Forest(nodes, stack, <<Len(nodes)>>)
    PROVE  Forest(SubSeq(nodes, 1, Len(nodes) - 1), stack, <<>>)
<1> DEFINE len == Len(nodes)
           new == SubSeq(nodes, 1, len - 1)
<1>1. /\ len \in Nat \ {0} /\ Len(new) = len - 1
      /\ \A k \in 1..(len - 1) : new[k] = nodes[k] /\ k \in 1..len
  OBVIOUS
<1> HIDE DEF new
<1>2. Len(nodes[len].kids) = 0 /\ \A k \in Nat : ~In(nodes[len].kids, k)
  <2>1. Len(nodes[len].kids) = Arity(nodes[len])
    BY <1>1 DEF Forest, Linked
  <2>2. Arity(nodes[len]) = 0
    BY DEF Arity, LeafOps
  <2>3. Len(nodes[len].kids) = 0
    BY <2>1, <2>2
  <2> QED
    BY <2>3 DEF In
<1>3. ASSUME NEW k \in 1..(len - 1)
      PROVE  /\ Len(new[k].kids) = Arity(new[k])
             /\ Distinct(new[k].kids)
             /\ \A i \in 1..Len(new[k].kids) :
                    /\ new[k].kids[i] \in 1..(k - 1)
                    /\ new[new[k].kids[i]].up = k
             /\ new[k].up # 0 => /\ new[k].up \in (k + 1)..(len - 1)
                                 /\ In(new[new[k].up].kids, k)
  <2>1. /\ Len(nodes[k].kids) = Arity(nodes[k])
        /\ Distinct(nodes[k].kids)
        /\ \A i \in 1..Len(nodes[k].kids) :
               /\ nodes[k].kids[i] \in 1..(k - 1)
               /\ nodes[nodes[k].kids[i]].up = k
        /\ nodes[k].up # 0 => /\ nodes[k].up \in (k + 1)..len
                              /\ In(nodes[nodes[k].up].kids, k)
    BY <1>1 DEF Forest, Linked
  <2>2. nodes[k].up # len
    BY <1>1, <1>2, <2>1
  <2>3. nodes[k].up # 0 => nodes[k].up \in (k + 1)..(len - 1)
    BY <1>1, <2>1, <2>2
  <2>4. nodes[k].up # 0 => new[nodes[k].up] = nodes[nodes[k].up]
    <3>1. nodes[k].up # 0 => nodes[k].up \in 1..(len - 1)
      BY <1>1, <2>3
    <3> QED
      BY <1>1, <3>1
  <2>5. \A i \in 1..Len(nodes[k].kids) :
            new[nodes[k].kids[i]] = nodes[nodes[k].kids[i]]
    <3>1. \A i \in 1..Len(nodes[k].kids) : nodes[k].kids[i] \in 1..(len - 1)
      BY <1>1, <2>1
    <3> QED
      BY <1>1, <3>1
  <2> QED
    BY <1>1, <2>1, <2>3, <2>4, <2>5
<1>4. Linked(new)
  BY <1>1, <1>3 DEF Linked
<1>5. Roots(new, stack, <<>>)
  <2>1. \A k \in Nat : /\ In(<<len>>, k) <=> k = len
                       /\ ~In(<<>>, k)
    BY DEF In
  <2>2. Distinct(<<>>)
    BY DEF Distinct
  <2>3. ASSUME NEW k \in Nat
        PROVE  Held(stack, k) <=> k \in 1..Len(new) /\ new[k].up = 0
    <3>1. /\ Held(stack, k) \/ k = len <=> k \in 1..len /\ nodes[k].up = 0
          /\ ~(Held(stack, k) /\ k = len)
      BY <2>1 DEF Forest, Roots
    <3>2. k \in 1..len <=> k \in 1..(len - 1) \/ k = len
      BY <1>1
    <3>3. k \in 1..(len - 1) => new[k] = nodes[k] /\ k # len
      BY <1>1
    <3> QED
      BY <1>1, <3>1, <3>2, <3>3
  <2> QED
    BY <2>1, <2>2, <2>3 DEF Forest, Roots
<1> QED
  BY <1>4, <1>5 DEF Forest, new

\* A forest whose only root is its last node is a tree.
LEMMA TreeIsWellFormed ==
    ASSUME NEW nodes \in Seq(Node), nodes # <<>>,
           Forest(nodes, <<>>, <<Len(nodes)>>)
    PROVE  WellFormed(nodes)
<1>1. Len(nodes) \in Nat \ {0}
  OBVIOUS
<1>2. ASSUME NEW n \in 1..Len(nodes)
      PROVE  nodes[n].up = 0 <=> n = Len(nodes)
  <2>1. ~Held(<<>>, n) /\ (In(<<Len(nodes)>>, n) <=> n = Len(nodes))
    BY DEF Held, In
  <2> QED
    BY <2>1 DEF Forest, Roots
<1>3. \A n \in 1..Len(nodes) : n < Len(nodes) => nodes[n].up # 0
  BY <1>1, <1>2
<1>4. nodes[Len(nodes)].up = 0
  BY <1>1, <1>2
<1>5. Linked(nodes)
  BY DEF Forest
<1> QED
  BY <1>3, <1>4, <1>5 DEF WellFormed, Linked, Distinct, In

-----------------------------------------------------------------------------
(* What the steps are made of keeps a parser sound.                        *)

Same(r, s) == /\ r.nodes = s.nodes /\ r.stack = s.stack
              /\ r.left = s.left /\ r.errors = s.errors /\ r.words = s.words

LEMMA SameSound ==
    ASSUME NEW s, NEW kids, Sound(s, kids), NEW r \in State, Same(r, s),
           Len(r.text) + r.reads >= 2
    PROVE  Sound(r, kids)
  BY DEF Sound, Same, Ends

LEMMA GotoSound ==
    ASSUME NEW s, NEW kids, Sound(s, kids), NEW pc \in Locations
    PROVE  LET r == Goto(s, pc)
           IN  /\ Sound(r, kids) /\ Same(r, s)
               /\ r.pc = pc /\ r.reads = s.reads /\ r.text = s.text
<1> DEFINE r == Goto(s, pc)
<1>1. r \in State /\ r.pc = pc /\ r.reads = s.reads /\ r.text = s.text
  BY DEF Sound, State, Goto
<1>2. Same(r, s)
  BY DEF Sound, State, Goto, Same
<1>3. Len(r.text) + r.reads >= 2
  BY <1>1 DEF Sound
<1> QED
  BY <1>1, <1>2, <1>3, SameSound

LEMMA ReadSound ==
    ASSUME NEW s, NEW kids, Sound(s, kids), s.reads = 0,
           NEW r, r = NextToken(s) \/ r = NextTwoTokens(s)
    PROVE  Sound(r, kids) /\ Same(r, s) /\ r.pc = s.pc
<1>1. r \in State /\ r.text = s.text /\ r.reads \in Nat
  <2>1. s \in State
    BY DEF Sound
  <2>2. NextToken(s) \in State
    BY <2>1 DEF State, NextToken
  <2>5. NextTwoTokens(s) \in State
    BY <2>1 DEF State, NextTwoTokens
  <2>3. r \in State
    BY <2>2, <2>5
  <2>4. r.text = s.text
    BY <2>1 DEF State, NextToken, NextTwoTokens
  <2> QED
    BY <2>3, <2>4 DEF State
<1>2. Same(r, s) /\ r.pc = s.pc
  BY DEF Sound, State, NextToken, NextTwoTokens, Same
<1>3. Len(s.text) \in Nat /\ Len(s.text) >= 2
  BY DEF Sound, State
<1>4. Len(r.text) + r.reads >= 2
  BY <1>1, <1>3
<1> QED
  BY <1>1, <1>2, <1>4, SameSound

\* Once an error is reported the operands do not matter.
LEMMA ReportSound ==
    ASSUME NEW s, NEW kids, Sound(s, kids), NEW e \in Errors, NEW any
    PROVE  LET r == Report(s, e)
           IN  /\ Sound(r, any) /\ Sound(Nil(r), any)
               /\ r.errors # {} /\ Nil(r).errors # {}
               /\ r.stack = s.stack /\ Nil(r).stack = s.stack
               /\ r.reads = s.reads /\ Nil(r).reads = s.reads
               /\ r.pc = s.pc /\ Nil(r).pc = s.pc
<1> DEFINE r == Report(s, e)
<1>1. /\ r \in State /\ r.errors = s.errors \cup {e} /\ r.left = s.left
      /\ r.nodes = s.nodes /\ r.stack = s.stack /\ r.text = s.text
      /\ r.reads = s.reads /\ r.pc = s.pc /\ r.words = s.words
  BY DEF Sound, State, Report
<1>2. r.errors # {}
  BY <1>1
<1> HIDE DEF r
<1>3. /\ Nil(r) \in State /\ Nil(r).errors = r.errors /\ Nil(r).left = 0
      /\ Nil(r).nodes = r.nodes /\ Nil(r).stack = r.stack
      /\ Nil(r).text = r.text /\ Nil(r).reads = r.reads /\ Nil(r).pc = r.pc
      /\ Nil(r).words = r.words
  BY <1>1 DEF State, Nil
<1>4. Len(s.nodes) \in Nat
  BY DEF Sound, State
<1>5. Sound(r, any)
  BY <1>1, <1>2 DEF Sound, Ends
<1>6. Sound(Nil(r), any)
  BY <1>1, <1>2, <1>3, <1>4 DEF Sound, Ends
<1> QED
  BY <1>1, <1>2, <1>3, <1>5, <1>6 DEF r

\* parseExpression is called with operands in hand.
LEMMA PushSound ==
    ASSUME NEW s, NEW kids \in Seq(Nat), Sound(s, kids), NEW prec \in LOWEST..DOT,
           NEW at \in Callers, NEW tok \in STRING, Waiting(at, kids),
           at = "Parse" <=> s.stack = <<>>
    PROVE  LET r == ParseExpression(s, prec, at, tok, kids)
           IN  /\ Sound(r, <<>>) /\ r.stack # <<>> /\ r.pc = "expression"
               /\ r.reads = s.reads
<1> DEFINE f == [at |-> at, prec |-> s.prec, tok |-> tok, kids |-> kids]
           r == ParseExpression(s, prec, at, tok, kids)
<1>1. s \in State /\ s.stack \in Seq(Frame) /\ Calls(s.stack)
  BY DEF Sound, State
<1>2. f \in Frame /\ f.kids = kids
  BY <1>1 DEF State, Frame
<1>3. /\ Append(s.stack, f) \in Seq(Frame)
      /\ Len(Append(s.stack, f)) = Len(s.stack) + 1
      /\ \A i \in 1..Len(s.stack) : Append(s.stack, f)[i] = s.stack[i]
      /\ Append(s.stack, f)[Len(s.stack) + 1] = f
      /\ Len(s.stack) \in Nat
  BY <1>1, <1>2
<1>4. r.stack = Append(s.stack, f) /\ r.pc = "expression" /\ r.reads = s.reads
  BY <1>1 DEF ParseExpression, State
<1>5. /\ r.errors = s.errors /\ r.nodes = s.nodes /\ r.left = s.left
      /\ r.text = s.text /\ r.words = s.words
  BY <1>1 DEF ParseExpression, State
<1>6. r \in State
  BY <1>1, <1>3 DEF ParseExpression, State, Locations
<1> HIDE DEF f, r
<1>7. Calls(r.stack)
  <2>1. \A i \in 1..(Len(s.stack) + 1) :
            i \in 1..Len(s.stack) \/ i = Len(s.stack) + 1
    BY <1>3
  <2>2. f.at = at
    BY DEF f
  <2>3. at = "Parse" <=> Len(s.stack) + 1 = 1
    BY <1>1, <1>3
  <2> QED
    BY <1>1, <1>2, <1>3, <1>4, <2>1, <2>2, <2>3 DEF Calls
<1>8. s.errors = {} => Forest(s.nodes, r.stack, <<>>)
  BY <1>1, <1>2, <1>4, PushRoots DEF Sound, Forest
<1>9. r.stack # <<>>
  BY <1>3, <1>4
<1> QED
  BY <1>4, <1>5, <1>6, <1>7, <1>8, <1>9 DEF Sound, Ends, r

\* A parseExpression returns to a caller that is called from one.
LEMMA PopSound ==
    ASSUME NEW s, Sound(s, <<s.left>>), s.stack # <<>>, Top(s).at # "Parse",
           NEW pc \in Locations
    PROVE  LET r    == Resume(s, pc)
               kids == Append(Top(s).kids, s.left)
           IN  /\ Sound(r, kids) /\ kids \in Seq(Nat)
               /\ Len(kids) = Len(Top(s).kids) + 1
               /\ Top(s) \in Frame /\ Waiting(Top(s).at, Top(s).kids)
               /\ r.stack # <<>> /\ r.pc = pc /\ r.left = s.left
               /\ r.nodes = s.nodes /\ r.errors = s.errors
               /\ r.reads = s.reads
<1> DEFINE r == Resume(s, pc)
           len == Len(s.stack)
           kids == Append(Top(s).kids, s.left)
<1>1. s \in State /\ s.stack \in Seq(Frame) /\ Calls(s.stack) /\ s.left \in Nat
  BY DEF Sound, State
<1>2. /\ len \in Nat \ {0} /\ Top(s) \in Frame /\ Top(s) = s.stack[len]
      /\ SubSeq(s.stack, 1, len - 1) \in Seq(Frame)
      /\ Len(SubSeq(s.stack, 1, len - 1)) = len - 1
      /\ \A i \in 1..(len - 1) : SubSeq(s.stack, 1, len - 1)[i] = s.stack[i]
  BY <1>1 DEF Top
<1>3. len # 1 /\ Waiting(Top(s).at, Top(s).kids)
  <2>1. len \in 1..Len(s.stack)
    BY <1>2
  <2> QED
    BY <1>1, <1>2, <2>1 DEF Calls
<1>4. Top(s).kids \in Seq(Nat) /\ Top(s).prec \in LOWEST..DOT
  BY <1>2 DEF Frame
<1>5. kids \in Seq(Nat) /\ Len(kids) = Len(Top(s).kids) + 1
  BY <1>1, <1>4
<1>6. /\ r.pc = pc /\ r.stack = SubSeq(s.stack, 1, len - 1)
      /\ r.left = s.left /\ r.nodes = s.nodes /\ r.errors = s.errors
      /\ r.text = s.text /\ r.reads = s.reads /\ r.words = s.words
  BY <1>1 DEF Resume, State
<1>7. r \in State
  BY <1>1, <1>2, <1>4 DEF Resume, State
<1> HIDE DEF r
<1>8. r.stack # <<>>
  <2>1. Len(r.stack) = len - 1 /\ len - 1 # 0
    BY <1>2, <1>3, <1>6
  <2> QED
    BY <2>1
<1>9. Calls(r.stack)
  <2>1. \A i \in 1..(len - 1) : i \in 1..Len(s.stack)
    BY <1>2
  <2>2. \A i \in 1..(len - 1) : /\ s.stack[i].at = "Parse" <=> i = 1
                                /\ Waiting(s.stack[i].at, s.stack[i].kids)
    BY <1>1, <2>1 DEF Calls
  <2>3. /\ Len(r.stack) = len - 1
        /\ \A i \in 1..(len - 1) : r.stack[i] = s.stack[i]
    BY <1>2, <1>6
  <2>4. \A i \in 1..Len(r.stack) : /\ r.stack[i].at = "Parse" <=> i = 1
                                   /\ Waiting(r.stack[i].at, r.stack[i].kids)
    BY <2>2, <2>3
  <2> QED
    BY <2>4 DEF Calls
<1>10. s.errors = {} => Forest(s.nodes, r.stack, kids)
  BY <1>1, <1>2, <1>6, PopRoots DEF Sound, Forest
<1>11. Sound(r, kids)
  BY <1>6, <1>7, <1>9, <1>10 DEF Sound, Ends
<1> QED
  BY <1>2, <1>3, <1>5, <1>6, <1>8, <1>11 DEF r

\* A node is made of the operands in hand.
LEMMA BuildSound ==
    ASSUME NEW s, NEW kids \in Seq(Nat), Sound(s, kids), NEW op \in Ops,
           NEW tok \in STRING,
           Len(kids) = Arity([op |-> op, tok |-> tok, kids |-> kids, up |-> 0])
    PROVE  LET r == Build(s, op, tok, kids)
           IN  /\ Sound(r, <<r.left>>) /\ Live(r) /\ r.stack = s.stack
               /\ r.pc = s.pc /\ r.reads = s.reads
<1> DEFINE r == Build(s, op, tok, kids)
           n == Len(s.nodes) + 1
           node == [op |-> op, tok |-> tok, kids |-> kids, up |-> 0]
           new == Append(Adopt(s.nodes, kids, n), node)
<1>1. s \in State /\ s.nodes \in Seq(Node) /\ s.stack \in Seq(Frame)
  BY DEF Sound, State
<1>2. node \in Node /\ node.kids = kids /\ node.up = 0
  BY DEF Node
<1>3. n \in Nat /\ n # 0
  BY <1>1
<1>4. new \in Seq(Node) /\ Len(new) = n
  <2>1. /\ Adopt(s.nodes, kids, n) \in Seq(Node)
        /\ Len(Adopt(s.nodes, kids, n)) = Len(s.nodes)
    BY <1>1, <1>3, AdoptType
  <2> QED
    BY <1>2, <2>1
<1>5. r = [s EXCEPT !.left = n, !.nodes = new]
  BY DEF Build
<1> HIDE DEF r, n, new
<1>6. /\ r.left = n /\ r.nodes = new /\ r.stack = s.stack /\ r.pc = s.pc
      /\ r.reads = s.reads /\ r.errors = s.errors /\ r.text = s.text
      /\ r.words = s.words
  BY <1>1, <1>5 DEF State
<1>7. r \in State
  BY <1>1, <1>3, <1>4, <1>5 DEF State
<1>8. s.errors = {} => Forest(new, s.stack, <<n>>)
  BY <1>1, <1>2, BuildForest DEF Sound, new, n
<1>9. Sound(r, <<r.left>>)
  BY <1>3, <1>4, <1>6, <1>7, <1>8 DEF Sound, Ends
<1>10. Live(r)
  BY <1>3, <1>4, <1>6 DEF Live
<1> QED
  BY <1>6, <1>9, <1>10 DEF r

\* A callee is the last node, and a leaf.
LEMMA DropSound ==
    ASSUME NEW s, Sound(s, <<s.left>>), Live(s), IsFunctionName(s)
    PROVE  LET r == DropCallee(s)
           IN  /\ Sound(r, <<>>) /\ r.stack = s.stack /\ r.reads = s.reads
               /\ s.nodes[s.left].tok \in STRING
<1> DEFINE r == DropCallee(s)
           new == SubSeq(s.nodes, 1, Len(s.nodes) - 1)
<1>1. /\ s \in State /\ s.nodes \in Seq(Node) /\ s.stack \in Seq(Frame)
      /\ s.left \in 1..Len(s.nodes) /\ s.nodes[s.left].op = "Identifier"
  BY DEF Sound, State, IsFunctionName
<1>2. s.nodes[s.left].tok \in STRING
  <2>1. s.nodes[s.left] \in Node
    BY <1>1
  <2> QED
    BY <2>1 DEF Node
<1>3. Len(s.nodes) \in Nat \ {0} /\ new \in Seq(Node) /\ Len(new) \in Nat
  BY <1>1
<1>4. r = [s EXCEPT !.left = 0, !.nodes = new]
  BY <1>1 DEF DropCallee, State
<1> HIDE DEF r, new
<1>5. /\ r.left = 0 /\ r.nodes = new /\ r.stack = s.stack
      /\ r.reads = s.reads /\ r.errors = s.errors /\ r.text = s.text
      /\ r.words = s.words
  BY <1>1, <1>4 DEF State
<1>6. r \in State
  BY <1>1, <1>3, <1>4 DEF State
<1>7. s.errors = {} => Forest(new, s.stack, <<>>)
  <2>1. SUFFICES ASSUME s.errors = {} PROVE Forest(new, s.stack, <<>>)
    OBVIOUS
  <2>2. s.left = Len(s.nodes) /\ Forest(s.nodes, s.stack, <<Len(s.nodes)>>)
    BY <2>1 DEF Live, Sound
  <2>3. s.nodes[Len(s.nodes)].op \in LeafOps
    BY <1>1, <2>2 DEF LeafOps
  <2> QED
    BY <1>1, <1>3, <2>2, <2>3, DropForest DEF new
<1>8. Sound(r, <<>>)
  BY <1>3, <1>5, <1>6, <1>7 DEF Sound, Ends
<1> QED
  BY <1>2, <1>5, <1>8 DEF r

-----------------------------------------------------------------------------
(* The steps of a goroutine.                                               *)

LEMMA ToExpression ==
    ASSUME NEW r, Sound(r, <<>>), r.stack # <<>>, r.pc = "expression"
    PROVE  PInv(r)
  BY DEF PInv, Running, Locations

LEMMA ToRunning ==
    ASSUME NEW r, Sound(r, <<r.left>>), Live(r), r.stack # <<>>,
           r.pc \in Running
    PROVE  PInv(r)
  BY DEF PInv, Running, Locations

\* What a goroutine moves to has only to keep its own invariant.
LEMMA ToInv ==
    ASSUME Inv, NEW g \in DOMAIN parser, NEW r, PInv(r),
           parser' = [parser EXCEPT ![g] = r], traceLevel' \in Int
    PROVE  Inv'
<1>1. r \in State
  BY DEF PInv, Sound, Running
<1>2. /\ DOMAIN parser' = DOMAIN parser
      /\ parser' \in [DOMAIN parser -> State]
      /\ \A h \in DOMAIN parser : parser'[h] = IF h = g THEN r ELSE parser[h]
  BY <1>1 DEF Inv
<1> QED
  BY <1>2 DEF Inv

\* The state a goroutine is in when it takes a step of its own.
LEMMA AtState ==
    ASSUME Inv, NEW g \in DOMAIN parser, NEW pc, At(g, pc)
    PROVE  /\ parser[g] \in State /\ PInv(parser[g])
           /\ parser[g].pc = pc /\ parser[g].reads = 0
           /\ pc = "expression" => /\ Sound(parser[g], <<>>)
                                   /\ parser[g].stack # <<>>
           /\ pc \in Running => /\ Sound(parser[g], <<parser[g].left>>)
                                /\ Live(parser[g]) /\ parser[g].stack # <<>>
  BY DEF Inv, At, PInv

\* The last two tokens that have been read.
LEMMA Tokens ==
    ASSUME NEW s, NEW kids, Sound(s, kids), s.reads = 0
    PROVE  Cur(s) \in Token /\ Peek(s) \in Token
  BY DEF Sound, State, Cur, Peek

LEMMA PrecedenceType ==
    ASSUME NEW type
    PROVE  Precedence(type) \in LOWEST..DOT
  BY DEF Precedence, LOWEST, TERNARY, OR, AND, EQUALS, PREFIX, CALL, DOT,
         BinaryTypes, InfixOperators, LogicalOperators

LEMMA NewStep ==
    ASSUME Inv, NEW g \in DOMAIN parser, New(g)
    PROVE  Inv'
<1> DEFINE s == parser[g]
           r == NextTwoTokens(Goto(s, "parse"))
<1>1. /\ s \in State /\ s.left = 0 /\ s.reads = 0 /\ s.text = <<>>
      /\ s.nodes = <<>> /\ s.stack = <<>> /\ Ends(s)
  BY DEF Inv, New, At, PInv
<1>2. /\ r \in State /\ r.left = 0 /\ r.reads = 2 /\ r.text = <<>>
      /\ r.nodes = <<>> /\ r.stack = <<>> /\ r.pc = "parse"
      /\ r.words = s.words
  <2>1. r = [s EXCEPT !.pc = "parse", !.reads = 2]
    BY DEF NextTwoTokens, Goto
  <2> HIDE DEF r, s
  <2>2. r \in State
    <3>1. "parse" \in Locations /\ 2 \in 0..2
      BY DEF Locations
    <3> QED
      BY <1>1, <2>1, <3>1 DEF State
  <2> QED
    BY <1>1, <2>1, <2>2 DEF State
<1> HIDE DEF r
<1>3. Forest(<<>>, <<>>, <<>>)
  BY DEF Forest, Linked, Roots, Distinct, Held, In
<1>4. Sound(r, <<>>)
  BY <1>1, <1>2, <1>3 DEF Sound, Calls, Ends
<1>5. PInv(r)
  BY <1>2, <1>4 DEF PInv, Running, Locations
<1> QED
  BY <1>5, ToInv DEF New, To, Inv, r

\* The lexer's answer makes the text longer.
LEMMA ReadTokenStep ==
    ASSUME Inv, NEW g \in DOMAIN parser, ReadToken(g)
    PROVE  Inv'
<1> DEFINE s == parser[g]
<1>1. PICK t \in Offered(s, s.text) :
          To(g, [s EXCEPT !.text = Append(s.text, t), !.reads = s.reads - 1])
  BY DEF ReadToken
<1> DEFINE r == [s EXCEPT !.text = Append(s.text, t), !.reads = s.reads - 1]
<1>2. s \in State /\ PInv(s) /\ s.reads > 0 /\ Ends(s)
  BY DEF Inv, ReadToken, PInv, Sound, Running
<1>3. t \in Token
  <2>1. s.words.tokens \subseteq Token
    BY <1>2 DEF State, Words
  <2>2. t \in s.words.tokens
    BY <1>2 DEF Offered, Ends
  <2> QED
    BY <2>1, <2>2
<1>4. /\ Append(s.text, t) \in Seq(Token)
      /\ Len(Append(s.text, t)) = Len(s.text) + 1
      /\ s.reads - 1 \in 0..2 /\ Len(s.text) \in Nat /\ s.reads \in Nat
  BY <1>2, <1>3 DEF State
<1>5. /\ r \in State /\ Same(r, s) /\ r.pc = s.pc
      /\ r.text = Append(s.text, t) /\ r.reads = s.reads - 1
  BY <1>2, <1>4 DEF State, Same
<1> HIDE DEF r
<1>6. Len(r.text) + r.reads = Len(s.text) + s.reads
  BY <1>4, <1>5
<1>7. ASSUME NEW kids, Sound(s, kids)
      PROVE  Sound(r, kids)
  BY <1>5, <1>6, <1>7, SameSound DEF Sound
<1>8. s.pc # "new"
  BY <1>2 DEF PInv
<1>9. PInv(r)
  BY <1>2, <1>5, <1>7, <1>8 DEF PInv, Same, Live
<1> QED
  BY <1>1, <1>9, ToInv DEF To, Inv, r

LEMMA ParseStart ==
    ASSUME Inv, NEW g \in DOMAIN parser, Parse(g)
    PROVE  Inv'
<1> DEFINE s == parser[g]
<1>1. Sound(s, <<>>) /\ s.stack = <<>>
  BY DEF Inv, Parse, At, PInv
<1>2. CASE Cur(s) = EOF
  <2> DEFINE e == Report(s, "empty expression")
             r == Goto(e, "done")
  <2>1. Sound(e, <<s.left>>) /\ e.errors # {} /\ e.stack = <<>>
    <3>1. "empty expression" \in Errors
      BY DEF Errors
    <3> HIDE DEF s
    <3> QED
      BY <1>1, <3>1, ReportSound
  <2>2. Sound(r, <<s.left>>) /\ Same(r, e) /\ r.pc = "done"
    BY <2>1, GotoSound DEF Locations
  <2> HIDE DEF e, r
  <2>3. Sound(r, <<r.left>>) /\ Live(r) /\ r.stack = <<>>
    BY <2>1, <2>2 DEF Sound, Same, Live
  <2>4. PInv(r)
    BY <2>2, <2>3 DEF PInv, Running, Locations
  <2> QED
    BY <1>2, <2>4, ToInv DEF Parse, To, Inv, e, r
<1>3. CASE Cur(s) # EOF
  <2> DEFINE r == ParseExpression(s, LOWEST, "Parse", Cur(s).lit, <<>>)
  <2>1. Sound(r, <<>>) /\ r.stack # <<>> /\ r.pc = "expression"
    <3>1. <<>> \in Seq(Nat)
      OBVIOUS
    <3>2. LOWEST \in LOWEST..DOT /\ "Parse" \in Callers
      BY DEF LOWEST, DOT, Callers
    <3>4. Cur(s).lit \in STRING
      BY <1>1, Tokens DEF Token, Parse, At
    <3>3. Waiting("Parse", <<>>)
      BY DEF Waiting
    <3> HIDE DEF s
    <3> QED
      BY <1>1, <3>1, <3>2, <3>3, <3>4, PushSound
  <2> HIDE DEF r
  <2>2. PInv(r)
    BY <2>1, ToExpression
  <2> QED
    BY <1>3, <2>2, ToInv DEF Parse, To, Inv, r
<1> QED
  BY <1>2, <1>3

\* An error was reported and nil is returned.
LEMMA NilInv ==
    ASSUME NEW s, NEW kids, Sound(s, kids), s.stack # <<>>, NEW e \in Errors,
           NEW pc \in Running
    PROVE  PInv(Goto(Nil(Report(s, e)), pc))
<1> DEFINE n == Nil(Report(s, e))
           r == Goto(n, pc)
<1>1. Sound(n, <<0>>) /\ n.errors # {} /\ n.stack = s.stack
  BY ReportSound
<1>2. n.left = 0
  BY DEF Nil, Sound, State, Report
<1>3. Sound(r, <<0>>) /\ Same(r, n) /\ r.pc = pc
  BY <1>1, GotoSound DEF Running
<1> HIDE DEF n, r
<1>4. r.left = 0 /\ r.errors # {} /\ r.stack # <<>>
  BY <1>1, <1>2, <1>3 DEF Same
<1>5. PInv(r)
  BY <1>3, <1>4, ToRunning DEF Live
<1> QED
  BY <1>5 DEF n, r

\* A node is made, and the loop of its parseExpression goes on.
LEMMA BuildInv ==
    ASSUME NEW s, NEW kids \in Seq(Nat), Sound(s, kids), s.stack # <<>>,
           s.reads = 0, NEW op \in Ops, NEW tok \in STRING,
           Len(kids) = Arity([op |-> op, tok |-> tok, kids |-> kids, up |-> 0])
    PROVE  LET r == Build(s, op, tok, kids)
           IN  /\ s.pc \in Running => PInv(r) /\ PInv(NextToken(r))
               /\ \A pc \in Running : /\ PInv(Goto(r, pc))
                                      /\ PInv(NextToken(Goto(r, pc)))
<1> DEFINE r == Build(s, op, tok, kids)
<1>1. /\ Sound(r, <<r.left>>) /\ Live(r) /\ r.stack = s.stack /\ r.pc = s.pc
      /\ r.reads = s.reads
  BY BuildSound
<1> HIDE DEF r
<1>2. ASSUME NEW q, Sound(q, <<r.left>>), Same(q, r), q.pc \in Running
      PROVE  PInv(q)
  BY <1>1, <1>2, ToRunning DEF Same, Live
<1>3. Same(r, r)
  BY DEF Same
<1>4. Sound(NextToken(r), <<r.left>>) /\ Same(NextToken(r), r)
         /\ NextToken(r).pc = r.pc
  BY <1>1, ReadSound
<1>5. ASSUME NEW pc \in Running
      PROVE  PInv(Goto(r, pc)) /\ PInv(NextToken(Goto(r, pc)))
  <2> DEFINE q == Goto(r, pc)
  <2>1. /\ Sound(q, <<r.left>>) /\ Same(q, r) /\ q.pc = pc
        /\ q.reads = r.reads
    BY <1>1, GotoSound DEF Running
  <2> HIDE DEF q
  <2>2. Sound(NextToken(q), <<r.left>>) /\ Same(NextToken(q), q)
           /\ NextToken(q).pc = pc
    BY <1>1, <2>1, ReadSound
  <2>3. Same(NextToken(q), r)
    BY <2>1, <2>2 DEF Same
  <2>4. PInv(q) /\ PInv(NextToken(q))
    BY <1>2, <2>1, <2>2, <2>3
  <2> QED
    BY <2>4 DEF q
<1> QED
  BY <1>1, <1>2, <1>3, <1>4, <1>5 DEF r

\* parseExpression is called after one or two calls of nextToken.
LEMMA CallInv ==
    ASSUME NEW s, NEW kids \in Seq(Nat), Sound(s, kids), s.reads = 0,
           NEW prec \in LOWEST..DOT, NEW at \in Callers \ {"Parse"},
           NEW tok \in STRING, Waiting(at, kids), s.stack # <<>>
    PROVE  LET r == ParseExpression(s, prec, at, tok, kids)
           IN  PInv(NextToken(r)) /\ PInv(NextTwoTokens(r))
<1> DEFINE r == ParseExpression(s, prec, at, tok, kids)
<1>1. /\ Sound(r, <<>>) /\ r.stack # <<>> /\ r.pc = "expression"
      /\ r.reads = 0
  BY PushSound
<1> HIDE DEF r
<1>2. ASSUME NEW q, q = NextToken(r) \/ q = NextTwoTokens(r)
      PROVE  PInv(q)
  BY <1>1, <1>2, ReadSound, ToExpression DEF Same
<1> QED
  BY <1>2 DEF r

\* A list that has no element, or is yet to be read.
LEMMA StartListInv ==
    ASSUME NEW s, Sound(s, <<>>), s.stack # <<>>, s.reads = 0,
           NEW at \in {"Call", "Array"}, NEW tok \in STRING
    PROVE  PInv(StartList(s, at, tok))
<1>1. <<>> \in Seq(Nat) /\ AfterOf(at) \in Running /\ at \in Ops
         /\ at \in Callers \ {"Parse"} /\ LOWEST \in LOWEST..DOT
  BY DEF AfterOf, Running, Locations, Ops, Callers, LOWEST, DOT
<1>2. Len(<<>>) = Arity([op |-> at, tok |-> tok, kids |-> <<>>, up |-> 0])
  BY DEF Arity, LeafOps
<1>3. Waiting(at, <<>>)
  BY DEF Waiting
<1>4. PInv(NextToken(Goto(Build(s, at, tok, <<>>), AfterOf(at))))
  BY <1>1, <1>2, BuildInv
<1>5. PInv(NextToken(ParseExpression(s, LOWEST, at, tok, <<>>)))
  BY <1>1, <1>3, CallInv
<1> QED
  BY <1>4, <1>5 DEF StartList

\* The step of an action that goes on from parser[g] to r.
LEMMA GoesTo ==
    ASSUME Inv, NEW g \in DOMAIN parser, NEW r, To(g, r), PInv(r)
    PROVE  Inv'
  BY ToInv DEF To, Inv

LEMMA NoPrefixParseFnStep ==
    ASSUME Inv, NEW g \in DOMAIN parser, NoPrefixParseFn(g)
    PROVE  Inv'
<1> DEFINE s == parser[g]
           e == "no prefix parse function"
<1>1. Sound(s, <<>>) /\ s.stack # <<>>
  BY AtState DEF NoPrefixParseFn
<1>2. e \in Errors /\ "returned" \in Running
  BY DEF Errors, Running, Locations
<1>3. PInv(Goto(Nil(Report(s, e)), "returned"))
  BY <1>1, <1>2, NilInv
<1> QED
  BY <1>3, GoesTo DEF NoPrefixParseFn

LEMMA ParseLiteralStep ==
    ASSUME Inv, NEW g \in DOMAIN parser, ParseLiteral(g)
    PROVE  Inv'
<1> DEFINE s == parser[g]
           op == LeafOf(Cur(s).type)
           tok == Cur(s).lit
<1>1. Sound(s, <<>>) /\ s.stack # <<>> /\ s.reads = 0
  BY AtState DEF ParseLiteral
<1>2. "invalid literal" \in Errors /\ "loop" \in Running
  BY DEF Errors, Running, Locations
<1>3. PInv(Goto(Nil(Report(s, "invalid literal")), "loop"))
  BY <1>1, <1>2, NilInv
<1>4. op \in LeafOps /\ op \in Ops
  BY DEF ParseLiteral, LeafOf, LeafTypes, LeafOps, Ops
<1>5. tok \in STRING
  BY <1>1, Tokens DEF Token
<1>6. PInv(Goto(Build(s, op, tok, <<>>), "loop"))
  <2> HIDE DEF op, tok, s
  <2>1. <<>> \in Seq(Nat)
    OBVIOUS
  <2>2. Len(<<>>) = Arity([op |-> op, tok |-> tok, kids |-> <<>>, up |-> 0])
    BY <1>4 DEF Arity, LeafOps
  <2> QED
    BY <1>1, <1>2, <1>4, <1>5, <2>1, <2>2, BuildInv
<1> QED
  BY <1>3, <1>6, GoesTo DEF ParseLiteral

LEMMA ParsePrefixExpressionStep ==
    ASSUME Inv, NEW g \in DOMAIN parser, ParsePrefixExpression(g)
    PROVE  Inv'
<1> DEFINE s == parser[g]
           tok == Cur(s).lit
<1>1. Sound(s, <<>>) /\ s.stack # <<>> /\ s.reads = 0
  BY AtState DEF ParsePrefixExpression
<1>2. tok \in STRING
  BY <1>1, Tokens DEF Token
<1>3. /\ PREFIX \in LOWEST..DOT /\ "Prefix" \in Callers \ {"Parse"}
      /\ <<>> \in Seq(Nat) /\ Waiting("Prefix", <<>>)
  BY DEF PREFIX, LOWEST, DOT, Callers, Waiting
<1>4. PInv(NextToken(ParseExpression(s, PREFIX, "Prefix", tok, <<>>)))
  BY <1>1, <1>2, <1>3, CallInv
<1> QED
  BY <1>4, GoesTo DEF ParsePrefixExpression

LEMMA ParseGroupedExpressionStep ==
    ASSUME Inv, NEW g \in DOMAIN parser, ParseGroupedExpression(g)
    PROVE  Inv'
<1> DEFINE s == parser[g]
           tok == Cur(s).lit
<1>1. Sound(s, <<>>) /\ s.stack # <<>> /\ s.reads = 0
  BY AtState DEF ParseGroupedExpression
<1>2. tok \in STRING
  BY <1>1, Tokens DEF Token
<1>3. /\ LOWEST \in LOWEST..DOT /\ "Group" \in Callers \ {"Parse"}
      /\ <<>> \in Seq(Nat) /\ Waiting("Group", <<>>)
  BY DEF LOWEST, DOT, Callers, Waiting
<1>4. PInv(NextToken(ParseExpression(s, LOWEST, "Group", tok, <<>>)))
  BY <1>1, <1>2, <1>3, CallInv
<1> QED
  BY <1>4, GoesTo DEF ParseGroupedExpression

LEMMA ParseArrayLiteralStep ==
    ASSUME Inv, NEW g \in DOMAIN parser, ParseArrayLiteral(g)
    PROVE  Inv'
<1> DEFINE s == parser[g]
           tok == Cur(s).lit
<1>1. Sound(s, <<>>) /\ s.stack # <<>> /\ s.reads = 0
  BY AtState DEF ParseArrayLiteral
<1>2. tok \in STRING
  BY <1>1, Tokens DEF Token
<1>3. PInv(StartList(s, "Array", tok))
  BY <1>1, <1>2, StartListInv
<1> QED
  BY <1>3, GoesTo DEF ParseArrayLiteral

\* The leftExp becomes the operand a caller waits with.
LEMMA ParseOperand ==
    ASSUME Inv, NEW g \in DOMAIN parser, At(g, "loop"),
           NEW prec \in LOWEST..DOT, NEW at \in {"Infix", "Consequence"}
    PROVE  LET s == parser[g]
           IN  PInv(NextTwoTokens(ParseExpression(s, prec, at, Peek(s).lit,
                                                  <<s.left>>)))
<1> DEFINE s == parser[g]
           tok == Peek(s).lit
<1>1. /\ Sound(s, <<s.left>>) /\ s.stack # <<>> /\ s.reads = 0
      /\ s.left \in Nat
  <2>1. "loop" \in Running
    BY DEF Running, Locations
  <2>2. Sound(s, <<s.left>>) /\ s.stack # <<>> /\ s.reads = 0 /\ s \in State
    BY <2>1, AtState
  <2> QED
    BY <2>2 DEF State
<1>2. tok \in STRING
  BY <1>1, Tokens DEF Token
<1>3. /\ at \in Callers \ {"Parse"} /\ <<s.left>> \in Seq(Nat)
      /\ Waiting(at, <<s.left>>)
  BY <1>1 DEF Callers, Waiting
<1> QED
  BY <1>1, <1>2, <1>3, CallInv

LEMMA ParseInfixExpressionStep ==
    ASSUME Inv, NEW g \in DOMAIN parser, ParseInfixExpression(g)
    PROVE  Inv'
<1> DEFINE s == parser[g]
           prec == RightPrecedence(Peek(s).type)
<1>1. prec \in LOWEST..DOT
  BY PrecedenceType DEF RightPrecedence
<1>2. PInv(NextTwoTokens(ParseExpression(s, prec, "Infix", Peek(s).lit,
                                         <<s.left>>)))
  BY <1>1, ParseOperand DEF ParseInfixExpression
<1> QED
  BY <1>2, GoesTo DEF ParseInfixExpression

LEMMA ParseConditionalExpressionStep ==
    ASSUME Inv, NEW g \in DOMAIN parser, ParseConditionalExpression(g)
    PROVE  Inv'
<1> DEFINE s == parser[g]
<1>1. LOWEST \in LOWEST..DOT
  BY DEF LOWEST, DOT
<1>2. PInv(NextTwoTokens(ParseExpression(s, LOWEST, "Consequence",
                                         Peek(s).lit, <<s.left>>)))
  BY <1>1, ParseOperand DEF ParseConditionalExpression
<1> QED
  BY <1>2, GoesTo DEF ParseConditionalExpression

\* A goroutine goes on with the leftExp it has.
LEMMA GotoInv ==
    ASSUME Inv, NEW g \in DOMAIN parser, NEW at \in Running, At(g, at),
           NEW pc \in Running
    PROVE  LET r == Goto(parser[g], pc)
           IN  PInv(r) /\ PInv(NextToken(r))
<1> DEFINE s == parser[g]
           r == Goto(s, pc)
<1>1. Sound(s, <<s.left>>) /\ Live(s) /\ s.stack # <<>> /\ s.reads = 0
  BY AtState
<1>2. Sound(r, <<s.left>>) /\ Same(r, s) /\ r.pc = pc /\ r.reads = 0
  BY <1>1, GotoSound DEF Running
<1> HIDE DEF r
<1>3. Sound(NextToken(r), <<s.left>>) /\ Same(NextToken(r), r)
         /\ NextToken(r).pc = pc
  BY <1>2, ReadSound
<1>4. ASSUME NEW q, Sound(q, <<s.left>>), Same(q, s), q.pc = pc
      PROVE  PInv(q)
  BY <1>1, <1>4, ToRunning DEF Same, Live
<1>5. Same(NextToken(r), s)
  BY <1>2, <1>3 DEF Same
<1> QED
  BY <1>2, <1>3, <1>4, <1>5 DEF r

LEMMA LeaveLoopStep ==
    ASSUME Inv, NEW g \in DOMAIN parser, LeaveLoop(g)
    PROVE  Inv'
<1>1. "loop" \in Running /\ "returned" \in Running
  BY DEF Running, Locations
<1>2. PInv(Goto(parser[g], "returned"))
  BY <1>1, GotoInv DEF LeaveLoop
<1> QED
  BY <1>2, GoesTo DEF LeaveLoop

-----------------------------------------------------------------------------
(* A call of parseExpression returns.                                      *)

LEMMA ReturnedState ==
    ASSUME Inv, NEW g \in DOMAIN parser, At(g, "returned")
    PROVE  LET s == parser[g]
           IN  /\ Sound(s, <<s.left>>) /\ Live(s) /\ s.stack # <<>>
               /\ s.reads = 0 /\ s.left \in Nat
<1>1. "returned" \in Running
  BY DEF Running, Locations
<1>2. parser[g] \in State
  BY AtState
<1> QED
  BY <1>1, <1>2, AtState DEF State

\* The caller that waits gets its operand.
LEMMA ResumedState ==
    ASSUME Inv, NEW g \in DOMAIN parser, NEW at, Returned(g, at), at # "Parse",
           NEW pc \in Running
    PROVE  LET s    == parser[g]
               r    == Resume(s, pc)
               kids == Append(Top(s).kids, s.left)
           IN  /\ Sound(r, kids) /\ kids \in Seq(Nat)
               /\ Len(kids) = Len(Top(s).kids) + 1
               /\ Top(s).tok \in STRING /\ Waiting(at, Top(s).kids)
               /\ r.stack # <<>> /\ r.pc = pc /\ r.reads = 0
               /\ r.left = s.left /\ r.nodes = s.nodes /\ r.errors = s.errors
<1> DEFINE s == parser[g]
<1>1. /\ Sound(s, <<s.left>>) /\ s.stack # <<>> /\ s.reads = 0
      /\ Top(s).at = at
  BY ReturnedState DEF Returned
<1>2. pc \in Locations
  BY DEF Running
<1> HIDE DEF s
<1>3. Top(s).tok \in STRING
  BY <1>1, <1>2, PopSound DEF Frame
<1> QED
  BY <1>1, <1>2, <1>3, PopSound DEF s

LEMMA ReturnToParseStep ==
    ASSUME Inv, NEW g \in DOMAIN parser, ReturnToParse(g)
    PROVE  Inv'
<1> DEFINE s == parser[g]
           u == [s EXCEPT !.stack = <<>>]
           r == Goto(u, "done")
           x == Report(r, "unexpected token after expression")
<1>1. /\ Sound(s, <<s.left>>) /\ Live(s) /\ s.stack # <<>>
      /\ s.reads = 0 /\ s.left \in Nat /\ Top(s).at = "Parse"
  BY ReturnedState DEF ReturnToParse, Returned
<1>2. s \in State /\ s.stack \in Seq(Frame) /\ Calls(s.stack)
  BY <1>1 DEF Sound, State
<1> HIDE DEF s
<1>3. Len(s.stack) = 1 /\ s.stack[1].kids = <<>>
  <2>1. Len(s.stack) \in 1..Len(s.stack)
    BY <1>1, <1>2
  <2> QED
    BY <1>1, <1>2, <2>1 DEF Top, Calls, Waiting
<1>4. /\ u \in State /\ u.stack = <<>> /\ u.left = s.left
      /\ u.nodes = s.nodes /\ u.errors = s.errors /\ u.text = s.text
      /\ u.reads = s.reads /\ u.words = s.words
  <2>1. <<>> \in Seq(Frame)
    OBVIOUS
  <2>2. u \in State
    BY <1>2, <2>1 DEF State
  <2> QED
    BY <1>2, <2>2 DEF State
<1>5. s.errors = {} => Forest(s.nodes, <<>>, <<s.left>>)
  <2>1. SubSeq(s.stack, 1, 0) = <<>> /\ Append(<<>>, s.left) = <<s.left>>
    BY <1>2
  <2>2. Len(s.stack) - 1 = 0
    BY <1>3
  <2>3. s.errors = {} =>
            Roots(s.nodes, SubSeq(s.stack, 1, Len(s.stack) - 1),
                  Append(s.stack[Len(s.stack)].kids, s.left))
    BY <1>1, <1>2, PopRoots DEF Sound, Forest
  <2>4. s.errors = {} => Roots(s.nodes, <<>>, <<s.left>>)
    BY <1>3, <2>1, <2>2, <2>3
  <2> QED
    BY <1>1, <2>4 DEF Sound, Forest
<1> HIDE DEF u
<1>6. Sound(u, <<s.left>>) /\ Live(u)
  BY <1>1, <1>4, <1>5 DEF Sound, Calls, Live, Ends
<1>7. Sound(r, <<s.left>>) /\ Same(r, u) /\ r.pc = "done"
  BY <1>6, GotoSound DEF Locations
<1> HIDE DEF r
<1>8. r.left = s.left /\ r.stack = <<>> /\ Live(r)
  BY <1>4, <1>6, <1>7 DEF Same, Live
<1>9. PInv(r)
  BY <1>7, <1>8 DEF PInv, Running, Locations
<1>10. PInv(x)
  <2>1. "unexpected token after expression" \in Errors
    BY DEF Errors
  <2>2. /\ Sound(x, <<s.left>>) /\ x.errors # {} /\ x.stack = <<>>
        /\ x.pc = "done"
    BY <1>7, <1>8, <2>1, ReportSound
  <2>3. x.left = r.left
    BY <1>7 DEF Sound, State, Report
  <2> HIDE DEF x
  <2>4. Sound(x, <<x.left>>) /\ Live(x)
    BY <1>8, <2>2, <2>3 DEF Live
  <2> QED
    BY <2>2, <2>4 DEF PInv, Running, Locations
<1>11. PInv(EndParse(s))
  BY <1>9, <1>10 DEF EndParse, r, u, x
<1> QED
  BY <1>11, GoesTo DEF ReturnToParse, s

\* A node is made of what the caller held and the operand.
LEMMA BuildReturned ==
    ASSUME Inv, NEW g \in DOMAIN parser, NEW at, Returned(g, at),
           NEW op \in {"Prefix", "Infix", "Ternary"},
           \/ at = "Prefix" /\ op = "Prefix"
           \/ at = "Infix" /\ op = "Infix"
           \/ at = "Alternative" /\ op = "Ternary"
    PROVE  LET s == parser[g]
           IN  PInv(Build(Resume(s, "loop"), op, Top(s).tok,
                          Append(Top(s).kids, s.left)))
<1> DEFINE s == parser[g]
           r == Resume(s, "loop")
           kids == Append(Top(s).kids, s.left)
           tok == Top(s).tok
<1>1. "loop" \in Running
  BY DEF Running, Locations
<1>2. /\ Sound(r, kids) /\ kids \in Seq(Nat)
      /\ Len(kids) = Len(Top(s).kids) + 1
      /\ tok \in STRING /\ Waiting(at, Top(s).kids)
      /\ r.stack # <<>> /\ r.pc = "loop" /\ r.reads = 0
  BY <1>1, ResumedState
<1>3. op \in Ops
  BY DEF Ops
<1>4. Len(kids) = IF op = "Prefix" THEN 1 ELSE IF op = "Infix" THEN 2 ELSE 3
  <2>1. /\ at = "Prefix" => Len(Top(s).kids) = 0
        /\ at = "Infix" => Len(Top(s).kids) = 1
        /\ at = "Alternative" => Len(Top(s).kids) = 2
    BY <1>2 DEF Waiting
  <2>2. Len(kids) = Len(Top(s).kids) + 1
    BY <1>2
  <2> HIDE DEF s, kids
  <2>3. CASE at = "Prefix" /\ op = "Prefix"
    BY <2>1, <2>2, <2>3
  <2>4. CASE at = "Infix" /\ op = "Infix"
    <3>1. Len(Top(s).kids) = 1
      BY <2>1, <2>4
    <3>2. Len(kids) = 2
      BY <2>2, <3>1
    <3> QED
      BY <2>4, <3>2
  <2>5. CASE at = "Alternative" /\ op = "Ternary"
    <3>1. Len(Top(s).kids) = 2
      BY <2>1, <2>5
    <3>2. Len(kids) = 3
      BY <2>2, <3>1
    <3> QED
      BY <2>5, <3>2
  <2> QED
    BY <2>3, <2>4, <2>5
<1>5. Len(kids) = Arity([op |-> op, tok |-> tok, kids |-> kids, up |-> 0])
  <2> HIDE DEF kids, tok
  <2> QED
    BY <1>4 DEF Arity, LeafOps
<1> HIDE DEF r, kids, tok
<1>6. PInv(Build(r, op, tok, kids))
  BY <1>1, <1>2, <1>3, <1>5, BuildInv
<1> QED
  BY <1>6 DEF r, kids, tok

LEMMA ReturnToPrefixStep ==
    ASSUME Inv, NEW g \in DOMAIN parser, ReturnToPrefix(g)
    PROVE  Inv'
<1> DEFINE s == parser[g]
<1>1. PInv(Build(Resume(s, "loop"), "Prefix", Top(s).tok,
                 Append(Top(s).kids, s.left)))
  BY BuildReturned DEF ReturnToPrefix
<1>2. Append(Top(s).kids, s.left) = <<s.left>>
  <2>1. "loop" \in Running
    BY DEF Running, Locations
  <2>2. Waiting("Prefix", Top(s).kids)
    BY <2>1, ResumedState DEF ReturnToPrefix
  <2>3. Top(s).kids = <<>> /\ s.left \in Nat
    BY <2>2, ReturnedState DEF Waiting, ReturnToPrefix, Returned
  <2> HIDE DEF s
  <2> QED
    BY <2>3
<1> QED
  BY <1>1, <1>2, GoesTo DEF ReturnToPrefix

LEMMA ReturnToInfixStep ==
    ASSUME Inv, NEW g \in DOMAIN parser, ReturnToInfix(g)
    PROVE  Inv'
<1>1. LET s == parser[g]
      IN  PInv(Build(Resume(s, "loop"), "Infix", Top(s).tok,
                     Append(Top(s).kids, s.left)))
  BY BuildReturned DEF ReturnToInfix
<1> QED
  BY <1>1, GoesTo DEF ReturnToInfix

LEMMA ReturnToAlternativeStep ==
    ASSUME Inv, NEW g \in DOMAIN parser, ReturnToAlternative(g)
    PROVE  Inv'
<1>1. LET s == parser[g]
      IN  PInv(Build(Resume(s, "loop"), "Ternary", Top(s).tok,
                     Append(Top(s).kids, s.left)))
  BY BuildReturned DEF ReturnToAlternative
<1> QED
  BY <1>1, GoesTo DEF ReturnToAlternative

\* expectPeek fails: the caller reports it and its leftExp is nil.
LEMMA UnexpectedInv ==
    ASSUME Inv, NEW g \in DOMAIN parser, NEW at, Returned(g, at), at # "Parse"
    PROVE  PInv(Unexpected(parser[g]))
<1> DEFINE s == parser[g]
           r == Resume(s, "loop")
           kids == Append(Top(s).kids, s.left)
           e == Nil(Report(r, "expected"))
<1>1. "loop" \in Running /\ "expected" \in Errors
  BY DEF Running, Locations, Errors
<1>2. Sound(r, kids) /\ r.stack # <<>> /\ r.pc = "loop"
  BY <1>1, ResumedState
<1> HIDE DEF r
<1>3. /\ Sound(e, <<0>>) /\ e.errors # {} /\ e.stack = r.stack
      /\ e.pc = "loop"
  BY <1>1, <1>2, ReportSound
<1>4. e.left = 0
  BY <1>2 DEF Nil, Sound, State, Report
<1> HIDE DEF e
<1>5. PInv(e)
  BY <1>1, <1>2, <1>3, <1>4, ToRunning DEF Live
<1> QED
  BY <1>5 DEF Unexpected, e, r

LEMMA ReturnToConsequenceStep ==
    ASSUME Inv, NEW g \in DOMAIN parser, ReturnToConsequence(g)
    PROVE  Inv'
<1> DEFINE s == parser[g]
           r == Resume(s, "loop")
           kids == Append(Top(s).kids, s.left)
           tok == Top(s).tok
<1>1. Returned(g, "Consequence") /\ "loop" \in Running
  BY DEF Running, Locations, ReturnToConsequence
<1>2. /\ Sound(r, kids) /\ kids \in Seq(Nat)
      /\ Len(kids) = Len(Top(s).kids) + 1
      /\ tok \in STRING /\ Waiting("Consequence", Top(s).kids)
      /\ r.stack # <<>> /\ r.reads = 0
  BY <1>1, ResumedState
<1>3. PInv(Unexpected(s))
  BY <1>1, UnexpectedInv
<1>4. Waiting("Alternative", kids)
  <2>1. Len(Top(s).kids) = 1
    BY <1>2 DEF Waiting
  <2>2. Len(kids) = 2
    BY <1>2, <2>1
  <2> HIDE DEF kids
  <2> QED
    BY <2>2 DEF Waiting
<1>5. /\ AlternativePrecedence \in LOWEST..DOT
      /\ "Alternative" \in Callers \ {"Parse"}
  BY DEF AlternativePrecedence, TERNARY, LOWEST, DOT, Callers
<1> HIDE DEF kids, tok, r
<1>6. PInv(NextTwoTokens(ParseExpression(r, AlternativePrecedence,
                                         "Alternative", tok, kids)))
  BY <1>2, <1>4, <1>5, CallInv
<1> QED
  BY <1>3, <1>6, GoesTo DEF ReturnToConsequence, kids, tok, r

LEMMA ReturnToGroupStep ==
    ASSUME Inv, NEW g \in DOMAIN parser, ReturnToGroup(g)
    PROVE  Inv'
<1> DEFINE s == parser[g]
           r == Resume(s, "loop")
           kids == Append(Top(s).kids, s.left)
<1>1. Returned(g, "Group") /\ "loop" \in Running
  BY DEF Running, Locations, ReturnToGroup
<1>2. /\ Sound(r, kids) /\ Waiting("Group", Top(s).kids)
      /\ r.stack # <<>> /\ r.pc = "loop" /\ r.reads = 0
      /\ r.left = s.left /\ r.nodes = s.nodes /\ r.errors = s.errors
  BY <1>1, ResumedState
<1>3. PInv(Unexpected(s))
  BY <1>1, UnexpectedInv
<1>4. Live(s) /\ s.left \in Nat
  BY <1>1, ReturnedState DEF Returned
<1>5. kids = <<s.left>>
  <2>1. Top(s).kids = <<>>
    BY <1>2 DEF Waiting
  <2> HIDE DEF s
  <2> QED
    BY <1>4, <2>1
<1> HIDE DEF r, kids
<1>6. /\ Sound(NextToken(r), kids) /\ Same(NextToken(r), r)
      /\ NextToken(r).pc = "loop"
  BY <1>2, ReadSound
<1>7. PInv(NextToken(r))
  BY <1>1, <1>2, <1>4, <1>5, <1>6, ToRunning DEF Same, Live
<1> QED
  BY <1>3, <1>7, GoesTo DEF ReturnToGroup, r

LEMMA ReportBuild ==
    ASSUME NEW s \in State, NEW op, NEW tok, NEW kids, NEW e
    PROVE  Report(Build(s, op, tok, kids), e) = Build(Report(s, e), op, tok, kids)
<1> DEFINE n == Len(s.nodes) + 1
           new == Append(Adopt(s.nodes, kids, n),
                         [op |-> op, tok |-> tok, kids |-> kids, up |-> 0])
<1>1. Report(s, e).nodes = s.nodes
  BY DEF Report, State
<1>2. Build(s, op, tok, kids) = [s EXCEPT !.left = n, !.nodes = new]
  BY DEF Build
<1>3. Build(Report(s, e), op, tok, kids)
          = [Report(s, e) EXCEPT !.left = n, !.nodes = new]
  BY <1>1 DEF Build
<1> HIDE DEF n, new
<1> QED
  BY <1>2, <1>3 DEF Report, State

LEMMA ReturnToListStep ==
    ASSUME Inv, NEW g \in DOMAIN parser, ReturnToList(g)
    PROVE  Inv'
<1> DEFINE s == parser[g]
           at == Top(s).at
           tok == Top(s).tok
           kids == Append(Top(s).kids, s.left)
<1>1. at \in {"Call", "Array"} /\ Returned(g, at) /\ at # "Parse"
  BY DEF ReturnToList, Returned
<1>2. /\ at \in Callers \ {"Parse"} /\ at \in Ops
      /\ AfterOf(at) \in Running /\ "loop" \in Running
      /\ LOWEST \in LOWEST..DOT /\ "expected" \in Errors
  <2> HIDE DEF at
  <2> QED
    BY <1>1 DEF Callers, Ops, AfterOf, Running, Locations, LOWEST, DOT, Errors
<1>3. kids \in Seq(Nat) /\ tok \in STRING
  BY <1>1, <1>2, ResumedState
<1>4. ASSUME NEW pc \in Running
      PROVE  LET r == Resume(s, pc)
             IN  /\ Sound(r, kids) /\ r.stack # <<>> /\ r.reads = 0
                 /\ r.pc = pc
  BY <1>1, <1>2, ResumedState
<1>5. /\ Waiting(at, kids) /\ <<>> \in Seq(Nat)
      /\ Len(kids) = Arity([op |-> at, tok |-> tok, kids |-> kids, up |-> 0])
      /\ Len(<<>>) = Arity([op |-> at, tok |-> tok, kids |-> <<>>, up |-> 0])
  <2> HIDE DEF at, kids, tok
  <2> QED
    BY <1>1 DEF Waiting, Arity, LeafOps
<1>6. PInv(NextTwoTokens(ParseExpression(Resume(s, "loop"), LOWEST, at, tok,
                                         kids)))
  <2> HIDE DEF s, at, kids, tok
  <2> QED
    BY <1>2, <1>3, <1>4, <1>5, CallInv
<1> DEFINE after == Resume(s, AfterOf(at))
<1>7. PInv(NextToken(Build(after, at, tok, kids)))
  <2>1. /\ Sound(after, kids) /\ after.stack # <<>> /\ after.reads = 0
        /\ after.pc \in Running
    BY <1>2, <1>4
  <2> HIDE DEF after, at, kids, tok
  <2> QED
    BY <1>2, <1>3, <1>5, <2>1, BuildInv
<1>8. PInv(Report(Build(after, at, tok, <<>>), "expected"))
  <2>1. /\ Sound(after, kids) /\ after.stack # <<>> /\ after.reads = 0
        /\ after.pc \in Running
    BY <1>2, <1>4
  <2> HIDE DEF after, at, kids, tok
  <2> DEFINE r == Report(after, "expected")
  <2>2. /\ Sound(r, <<>>) /\ r.stack # <<>> /\ r.reads = 0
        /\ r.pc \in Running
    BY <1>2, <2>1, ReportSound
  <2> HIDE DEF r
  <2>3. PInv(Build(r, at, tok, <<>>))
    BY <1>2, <1>3, <1>5, <2>2, BuildInv
  <2>4. after \in State
    BY <2>1 DEF Sound
  <2>5. Report(Build(after, at, tok, <<>>), "expected")
            = Build(r, at, tok, <<>>)
    BY <2>4, ReportBuild DEF r
  <2> QED
    BY <2>3, <2>5
<1>9. PInv(ContinueList(s, at, tok, kids))
  BY <1>6, <1>7, <1>8 DEF ContinueList
<1> QED
  BY <1>9, GoesTo DEF ReturnToList

-----------------------------------------------------------------------------
(* parseCallExpression.                                                    *)

LEMMA BeginCallStep ==
    ASSUME Inv, NEW g \in DOMAIN parser, BeginCall(g)
    PROVE  Inv'
<1>1. "loop" \in Running /\ "trace" \in Running
  BY DEF Running, Locations
<1>2. PInv(NextToken(Goto(parser[g], "trace")))
  BY <1>1, GotoInv DEF BeginCall
<1> QED
  BY <1>2, GoesTo DEF BeginCall

LEMMA LoadTraceLevelStep ==
    ASSUME Inv, NEW g \in DOMAIN parser, LoadTraceLevel(g)
    PROVE  Inv'
<1> DEFINE s == parser[g]
           pc == IF At(g, "trace") THEN "increment" ELSE "decrement"
           r == [s EXCEPT !.loaded = traceLevel, !.pc = pc]
<1>1. /\ "trace" \in Running /\ "untrace" \in Running /\ pc \in Running
      /\ pc \in Locations
  BY DEF Running, Locations
<1>2. Sound(s, <<s.left>>) /\ Live(s) /\ s.stack # <<>> /\ s \in State
  BY <1>1, AtState DEF LoadTraceLevel
<1>3. traceLevel \in Int
  BY DEF Inv
<1>4. To(g, r)
  BY DEF LoadTraceLevel
<1> HIDE DEF pc, s
<1>5. /\ r \in State /\ Same(r, s) /\ r.pc = pc /\ r.text = s.text
      /\ r.reads = s.reads
  BY <1>1, <1>2, <1>3 DEF State, Same
<1> HIDE DEF r
<1>6. Sound(r, <<s.left>>)
  <2>1. Len(r.text) + r.reads >= 2
    BY <1>2, <1>5 DEF Sound
  <2> QED
    BY <1>2, <1>5, <2>1, SameSound
<1>7. PInv(r)
  BY <1>1, <1>2, <1>5, <1>6, ToRunning DEF Same, Live
<1> QED
  BY <1>4, <1>7, GoesTo

LEMMA StoreTraceLevelStep ==
    ASSUME Inv, NEW g \in DOMAIN parser, StoreTraceLevel(g)
    PROVE  Inv'
<1> DEFINE s == parser[g]
           pc == IF At(g, "increment") THEN "call" ELSE "loop"
           r == Goto(s, pc)
<1>1. /\ "increment" \in Running /\ "decrement" \in Running
      /\ pc \in Running
  BY DEF Running, Locations
<1>2. PInv(r)
  BY <1>1, GotoInv DEF StoreTraceLevel
<1>3. s.loaded \in Int
  BY DEF Inv, State
<1>4. traceLevel' \in Int
  BY <1>3 DEF StoreTraceLevel
<1>5. parser' = [parser EXCEPT ![g] = r]
  BY DEF StoreTraceLevel, Goto
<1> QED
  BY <1>2, <1>4, <1>5, ToInv

LEMMA ParseCallExpressionStep ==
    ASSUME Inv, NEW g \in DOMAIN parser, ParseCallExpression(g)
    PROVE  Inv'
<1> DEFINE s == parser[g]
           d == DropCallee(s)
           tok == s.nodes[s.left].tok
<1>1. /\ "call" \in Running /\ "untrace" \in Running /\ "callee" \in Errors
      /\ "Call" \in {"Call", "Array"}
  BY DEF Running, Locations, Errors
<1>2. Sound(s, <<s.left>>) /\ Live(s) /\ s.stack # <<>> /\ s.reads = 0
  BY <1>1, AtState DEF ParseCallExpression
<1>3. PInv(RefuseCallee(s))
  <2> HIDE DEF s
  <2>1. PInv(Goto(Nil(Report(s, "callee")), "untrace"))
    BY <1>1, <1>2, NilInv
  <2> QED
    BY <2>1 DEF RefuseCallee
<1>4. IsFunctionName(s) => PInv(StartList(d, "Call", tok))
  <2> HIDE DEF s
  <2>1. SUFFICES ASSUME IsFunctionName(s) PROVE PInv(StartList(d, "Call", tok))
    OBVIOUS
  <2>2. /\ Sound(d, <<>>) /\ d.stack = s.stack /\ d.reads = s.reads
        /\ tok \in STRING
    BY <1>2, <2>1, DropSound
  <2> HIDE DEF d, tok
  <2> QED
    BY <1>1, <1>2, <2>2, StartListInv
<1> QED
  BY <1>3, <1>4, GoesTo DEF ParseCallExpression

-----------------------------------------------------------------------------
(* The invariant and the properties.                                       *)

LEMMA InitInv == Init => Inv
<1> SUFFICES ASSUME Init PROVE Inv
  OBVIOUS
<1>1. PICK words \in Scenarios :
          parser = [g \in DOMAIN words |->
                      [pc |-> "new", text |-> <<>>, prec |-> LOWEST,
                       left |-> 0, stack |-> <<>>, nodes |-> <<>>,
                       errors |-> {}, loaded |-> 0, words |-> words[g],
                       reads |-> 0]]
  BY DEF Init
<1>2. /\ DOMAIN words \subseteq Goroutines
      /\ \A g \in DOMAIN words : words[g] \in Words /\ EOF \in words[g].tokens
  BY ScenariosAssumption
<1>3. DOMAIN parser = DOMAIN words /\ traceLevel \in Int
  BY <1>1 DEF Init
<1>4. ASSUME NEW g \in DOMAIN parser
      PROVE  parser[g] \in State /\ PInv(parser[g])
  <2> DEFINE s == [pc |-> "new", text |-> <<>>, prec |-> LOWEST,
                   left |-> 0, stack |-> <<>>, nodes |-> <<>>,
                   errors |-> {}, loaded |-> 0, words |-> words[g],
                   reads |-> 0]
  <2>1. parser[g] = s
    BY <1>1, <1>3
  <2>2. words[g] \in Words /\ EOF \in words[g].tokens
    BY <1>2, <1>3
  <2>3. /\ <<>> \in Seq(Token) /\ <<>> \in Seq(Frame) /\ <<>> \in Seq(Node)
        /\ LOWEST \in LOWEST..DOT /\ "new" \in Locations
        /\ {} \in SUBSET Errors
    BY DEF LOWEST, DOT, Locations
  <2>4. s \in State
    BY <2>2, <2>3 DEF State
  <2>5. PInv(s)
    BY <2>2, <2>4 DEF PInv, Ends, Running, Locations
  <2> QED
    BY <2>1, <2>4, <2>5
<1>5. parser \in [DOMAIN parser -> State]
  <2>1. parser = [g \in DOMAIN parser |-> parser[g]]
    BY <1>1
  <2> QED
    BY <1>4, <2>1
<1> QED
  BY <1>2, <1>3, <1>4, <1>5 DEF Inv

LEMMA NextInv == Inv /\ [Next]_pvars => Inv'
<1> SUFFICES ASSUME Inv, [Next]_pvars PROVE Inv'
  OBVIOUS
<1>1. ASSUME NEW g \in DOMAIN parser, ParseStep(g)
      PROVE  Inv'
  BY <1>1, ReadTokenStep, NewStep, ParseStart, NoPrefixParseFnStep,
     ParseLiteralStep, ParsePrefixExpressionStep, ParseGroupedExpressionStep,
     ParseArrayLiteralStep, ParseInfixExpressionStep,
     ParseConditionalExpressionStep, LeaveLoopStep, ReturnToParseStep,
     ReturnToPrefixStep, ReturnToInfixStep, ReturnToConsequenceStep,
     ReturnToAlternativeStep, ReturnToGroupStep, ReturnToListStep,
     BeginCallStep, LoadTraceLevelStep, StoreTraceLevelStep,
     ParseCallExpressionStep DEF ParseStep
<1>2. CASE UNCHANGED pvars
  BY <1>2 DEF pvars, Inv
<1> QED
  BY <1>1, <1>2 DEF Next, AllReturned

\* The invariant holds throughout, whatever the texts.
THEOREM ParserInvariant == Spec => []Inv
<1> QED
  BY InitInv, NextInv, PTL DEF Spec

\* Parsers and the trace level have their types throughout.
THEOREM ParserTypes == Spec => []ParserTypeOK
<1>1. Inv => ParserTypeOK
  <2> SUFFICES ASSUME Inv, NEW g \in DOMAIN parser
               PROVE  LET s == parser[g]
                      IN  /\ s.pc \in Locations
                          /\ s.text \in Seq(Token)
                          /\ s.errors \subseteq Errors
                          /\ s.prec \in LOWEST..DOT
                          /\ s.left \in 0..Len(s.nodes)
                          /\ s.nodes \in Seq(Node)
    BY DEF ParserTypeOK, Inv
  <2>1. parser[g] \in State /\ PInv(parser[g])
    BY DEF Inv
  <2>2. parser[g].left <= Len(parser[g].nodes)
    BY <2>1 DEF PInv, Sound, Running
  <2> QED
    BY <2>1, <2>2 DEF State
<1> QED
  BY <1>1, ParserInvariant, PTL

\* What is done without an error is a tree, its root last: the checks and the
\* evaluator (typecheck.go:143), which recurse over it, visit every node once.
THEOREM ParsedTextsAreTrees == Spec => []ParsedIsWellFormed
<1>1. Inv => ParsedIsWellFormed
  <2> SUFFICES ASSUME Inv, NEW g \in DOMAIN parser, At(g, "done"),
                      parser[g].errors = {}
               PROVE  /\ WellFormed(parser[g].nodes)
                      /\ parser[g].left = Len(parser[g].nodes)
    BY DEF ParsedIsWellFormed
  <2> DEFINE s == parser[g]
  <2>1. Sound(s, <<s.left>>) /\ Live(s) /\ s.stack = <<>>
    BY DEF Inv, At, PInv
  <2>2. /\ s.left = Len(s.nodes) /\ s.nodes # <<>> /\ s.nodes \in Seq(Node)
        /\ Forest(s.nodes, <<>>, <<Len(s.nodes)>>)
    BY <2>1 DEF Live, Sound, State
  <2> QED
    BY <2>2, TreeIsWellFormed
<1> QED
  BY <1>1, ParserInvariant, PTL

\* A parse function that returns nil (parser.go:252) has reported it, so no
\* operand of what is returned without an error is nil.
THEOREM NoNilWithoutError == Spec => []NilIsReported
<1>1. ParsedIsWellFormed => NilIsReported
  <2> SUFFICES ASSUME ParsedIsWellFormed, NEW g \in DOMAIN parser, At(g, "done"),
                      parser[g].errors = {}
               PROVE  LET s == parser[g]
                      IN  /\ s.left # 0
                          /\ \A n \in 1..Len(s.nodes) :
                               \A k \in 1..Len(s.nodes[n].kids) :
                                   s.nodes[n].kids[k] # 0
    BY DEF NilIsReported
  <2>1. /\ WellFormed(parser[g].nodes)
        /\ parser[g].left = Len(parser[g].nodes)
    BY DEF ParsedIsWellFormed
  <2> QED
    BY <2>1 DEF WellFormed
<1> QED
  BY <1>1, ParsedTextsAreTrees, PTL
=============================================================================

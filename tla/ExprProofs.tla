----------------------------- MODULE ExprProofs -----------------------------
(***************************************************************************)
(* What the parser of rule expressions reads, for every expression: it     *)
(* gets somewhere, so its recursion is well defined; the value of an       *)
(* expression depends on the variables it is found to refer to and on no   *)
(* other; and it reads the grammar of the package comment, neither more    *)
(* nor less, and gives each expression the one meaning it has there.       *)
(***************************************************************************)
EXTENDS Expr, SetInduction

(* The rules call each other on later words, or on the same words with a   *)
(* smaller cost.                                                           *)
Rank(rule) ==
  CASE rule = "or" -> 4 [] rule = "and" -> 3 [] rule = "not" -> 2
    [] rule = "comparison" -> 1 [] rule = "primary" -> 0

Cost(words, rule, i) == 5 * (Len(words) + 1 - i) + Rank(rule)

(* A parse that succeeds has taken at least one word, and no more than     *)
(* there are.                                                              *)
Advances(x, words, i) == x.ok => x.next \in i + 1 .. Len(words) + 1

(* The calls of a cost below n advance, give the same, ...                 *)
AdvancesBelow(f, words, n) ==
  \A rule \in Nonterminals, i \in 1 .. Len(words) + 1 :
    Cost(words, rule, i) < n => Advances(f[<<rule, i>>], words, i)

AgreeBelow(f, g, words, n) ==
  \A rule \in Nonterminals, i \in 1 .. Len(words) + 1 :
    Cost(words, rule, i) < n => g[<<rule, i>>] = f[<<rule, i>>]

(* A cost is a number.                                                     *)
LEMMA CostCounts ==
  ASSUME NEW words, Len(words) \in Nat,
         NEW rule \in Nonterminals, NEW i \in 1 .. Len(words) + 1
  PROVE  Cost(words, rule, i) \in Nat
<1>1. Rank(rule) \in Nat
  BY DEF Rank, Nonterminals
<1> QED
  BY <1>1 DEF Cost

(* A word that is found is not past the end.                               *)
LEMMA WordFound ==
  ASSUME NEW words, Len(words) \in Nat, NEW i \in Nat, Word(words, i) # "eof"
  PROVE  i <= Len(words)
BY DEF Word

(* Calls for later words cost less, whatever the rule.                     *)
LEMMA LaterIsCheaper ==
  ASSUME NEW words, Len(words) \in Nat,
         NEW rule \in Nonterminals, NEW i \in 1 .. Len(words) + 1,
         NEW called \in Nonterminals, NEW j \in i + 1 .. Len(words) + 1
  PROVE  Cost(words, called, j) < Cost(words, rule, i)
<1>1. Rank(rule) \in 0 .. 4 /\ Rank(called) \in 0 .. 4
  BY DEF Rank, Nonterminals
<1>2. Len(words) + 1 - j \in Nat /\ Len(words) + 1 - i \in Nat
      /\ Len(words) + 1 - j + 1 <= Len(words) + 1 - i
  OBVIOUS
<1>3. \A a, b \in Nat, x, y \in 0 .. 4 : a + 1 <= b => 5 * a + x < 5 * b + y
  OBVIOUS
<1> QED
  BY <1>1, <1>2, <1>3 DEF Cost

(* So do calls for the same words, down the grammar.                       *)
LEMMA LowerIsCheaper ==
  ASSUME NEW words, Len(words) \in Nat, NEW i \in 1 .. Len(words) + 1
  PROVE  /\ Cost(words, "and", i) < Cost(words, "or", i)
         /\ Cost(words, "not", i) < Cost(words, "and", i)
         /\ Cost(words, "comparison", i) < Cost(words, "not", i)
         /\ Cost(words, "primary", i) < Cost(words, "comparison", i)
<1>1. 5 * (Len(words) + 1 - i) \in Nat
  OBVIOUS
<1>2. Rank("or") = 4 /\ Rank("and") = 3 /\ Rank("not") = 2 /\ Rank("comparison") = 1
      /\ Rank("primary") = 0
  BY DEF Rank
<1> QED
  BY <1>1, <1>2 DEF Cost

(* What an operator makes of its operands ends where the last one does.    *)
LEMMA OperatorsEnd ==
  ASSUME NEW op, NEW l, NEW r
  PROVE  /\ Logic(op, l, r).ok => r.ok /\ Logic(op, l, r).next = r.next
         /\ Comparison(op, l, r).ok => r.ok /\ Comparison(op, l, r).next = r.next
         /\ Negation(r).ok => r.ok /\ Negation(r).next = r.next
BY DEF Logic, Comparison, Negation, Node, Error

(* A leaf takes its word.                                                  *)
LEMMA LeafEnds ==
  ASSUME NEW word, NEW env, NEW next
  PROVE  Leaf(word, env, next).ok => word # "eof" /\ Leaf(word, env, next).next = next
<1>1. Error.ok = FALSE
  BY DEF Error
<1>2. \A typ, refs, val : Node(typ, refs, val, next).next = next
  BY DEF Node
<1>3. DOMAIN IntWords = {"0", "1", "2"} /\ DOMAIN StrWords = {"'a'", "'b'"}
  BY DEF IntWords, StrWords
<1> QED
  BY <1>1, <1>2, <1>3 DEF Leaf, Vars, NumericVars

(* What a rule makes of the words advances if what it is told of cheaper   *)
(* calls does, and it asks for nothing else.                               *)
LEMMA DescendAdvances ==
  ASSUME NEW words, Len(words) \in Nat, NEW env,
         NEW rule \in Nonterminals, NEW i \in 1 .. Len(words) + 1,
         NEW f, AdvancesBelow(f, words, Cost(words, rule, i)),
         NEW g, AgreeBelow(f, g, words, Cost(words, rule, i))
  PROVE  /\ Advances(Descend(f, words, env, rule, i), words, i)
         /\ Descend(g, words, env, rule, i) = Descend(f, words, env, rule, i)
<1> DEFINE here == Descend(f, words, env, rule, i)
           there == Descend(g, words, env, rule, i)
           n == Cost(words, rule, i)
<1>1. ASSUME NEW called \in Nonterminals, NEW j \in 1 .. Len(words) + 1,
             Cost(words, called, j) < n
      PROVE  Advances(f[<<called, j>>], words, j) /\ g[<<called, j>>] = f[<<called, j>>]
  BY <1>1 DEF AdvancesBelow, AgreeBelow
<1>2. ASSUME NEW l, Advances(l, words, i), l.ok, Word(words, l.next) # "eof",
             NEW called \in Nonterminals
      PROVE  /\ l.next + 1 \in i + 1 .. Len(words) + 1
             /\ g[<<called, l.next + 1>>] = f[<<called, l.next + 1>>]
             /\ f[<<called, l.next + 1>>].ok =>
                  f[<<called, l.next + 1>>].next \in i + 1 .. Len(words) + 1
  <2>1. l.next \in i + 1 .. Len(words) + 1
    BY <1>2 DEF Advances
  <2>2. l.next <= Len(words)
    BY <1>2, <2>1, WordFound
  <2>3. l.next + 1 \in i + 1 .. Len(words) + 1 /\ l.next + 1 \in 1 .. Len(words) + 1
    BY <2>1, <2>2
  <2>4. Cost(words, called, l.next + 1) < n
    BY <2>3, LaterIsCheaper
  <2>5. Advances(f[<<called, l.next + 1>>], words, l.next + 1)
        /\ g[<<called, l.next + 1>>] = f[<<called, l.next + 1>>]
    BY <1>1, <2>3, <2>4
  <2> QED
    BY <2>3, <2>5 DEF Advances
<1>3. CASE rule \in {"or", "and"}
  <2> DEFINE l == f[<<Operand(rule), i>>]
             r == f[<<rule, l.next + 1>>]
  <2>1. Operand(rule) \in Nonterminals /\ Cost(words, Operand(rule), i) < n
    BY <1>3, LowerIsCheaper DEF Operand, Nonterminals
  <2>2. Advances(l, words, i) /\ g[<<Operand(rule), i>>] = l
    BY <1>1, <2>1
  <2>3. ChainOp(rule) # "eof"
    BY DEF ChainOp
  <2>4. here = IF l.ok /\ Word(words, l.next) = ChainOp(rule)
               THEN Logic(ChainOp(rule), l, r) ELSE l
    BY <1>3 DEF Descend
  <2>5. there = IF l.ok /\ Word(words, l.next) = ChainOp(rule)
                THEN Logic(ChainOp(rule), l, g[<<rule, l.next + 1>>]) ELSE l
    BY <1>3, <2>2 DEF Descend
  <2> HIDE DEF l, here, there, n
  <2>6. CASE l.ok /\ Word(words, l.next) = ChainOp(rule)
    <3>1. g[<<rule, l.next + 1>>] = r
          /\ (r.ok => r.next \in i + 1 .. Len(words) + 1)
      BY <1>2, <2>2, <2>3, <2>6
    <3> QED
      BY <2>4, <2>5, <2>6, <3>1, OperatorsEnd DEF Advances, here, there
  <2>7. CASE ~ (l.ok /\ Word(words, l.next) = ChainOp(rule))
    BY <2>2, <2>4, <2>5, <2>7 DEF here, there
  <2> QED
    BY <2>6, <2>7
<1>4. CASE rule = "not"
  <2> DEFINE r == f[<<"not", i + 1>>]
             c == f[<<"comparison", i>>]
  <2>1. "comparison" \in Nonterminals /\ "not" \in Nonterminals
    BY DEF Nonterminals
  <2>2. Advances(c, words, i) /\ g[<<"comparison", i>>] = c
    BY <1>1, <1>4, <2>1, LowerIsCheaper
  <2>3. here = IF Word(words, i) = "!" THEN Negation(r) ELSE c
    BY <1>4 DEF Descend
  <2>4. there = IF Word(words, i) = "!" THEN Negation(g[<<"not", i + 1>>]) ELSE c
    BY <1>4, <2>2 DEF Descend
  <2>5. CASE Word(words, i) = "!"
    <3>1. i + 1 \in i + 1 .. Len(words) + 1 /\ i + 1 \in 1 .. Len(words) + 1
      BY <2>5, WordFound
    <3>2. Cost(words, "not", i + 1) < n
      BY <2>1, <3>1, LaterIsCheaper
    <3>3. Advances(r, words, i + 1) /\ g[<<"not", i + 1>>] = r
      BY <1>1, <2>1, <3>1, <3>2
    <3>4. r.ok => r.next \in i + 1 .. Len(words) + 1
      BY <3>3 DEF Advances
    <3> HIDE DEF here, there, r
    <3>5. here = Negation(r) /\ there = here
      BY <2>3, <2>4, <2>5, <3>3
    <3>6. here.ok => r.ok /\ here.next = r.next
      BY <3>5, OperatorsEnd
    <3> QED
      BY <3>4, <3>5, <3>6 DEF Advances, here, there
  <2>6. CASE Word(words, i) # "!"
    BY <2>2, <2>3, <2>4, <2>6
  <2> QED
    BY <2>5, <2>6
<1>5. CASE rule = "comparison"
  <2> DEFINE l == f[<<"primary", i>>]
             r == f[<<"primary", l.next + 1>>]
  <2>1. "primary" \in Nonterminals
    BY DEF Nonterminals
  <2>2. Advances(l, words, i) /\ g[<<"primary", i>>] = l
    BY <1>1, <1>5, <2>1, LowerIsCheaper
  <2>3. "eof" \notin CmpOps
    BY DEF CmpOps
  <2>4. here = IF l.ok /\ Word(words, l.next) \in CmpOps
               THEN Comparison(Word(words, l.next), l, r) ELSE l
    BY <1>5 DEF Descend
  <2>5. there = IF l.ok /\ Word(words, l.next) \in CmpOps
                THEN Comparison(Word(words, l.next), l, g[<<"primary", l.next + 1>>]) ELSE l
    BY <1>5, <2>2 DEF Descend
  <2> HIDE DEF l, here, there, n
  <2>6. CASE l.ok /\ Word(words, l.next) \in CmpOps
    <3>1. g[<<"primary", l.next + 1>>] = r
          /\ (r.ok => r.next \in i + 1 .. Len(words) + 1)
      BY <1>2, <2>1, <2>2, <2>3, <2>6
    <3> QED
      BY <2>4, <2>5, <2>6, <3>1, OperatorsEnd DEF Advances, here, there
  <2>7. CASE ~ (l.ok /\ Word(words, l.next) \in CmpOps)
    BY <2>2, <2>4, <2>5, <2>7 DEF here, there
  <2> QED
    BY <2>6, <2>7
<1>6. CASE rule = "primary"
  <2>1. "or" \in Nonterminals
    BY DEF Nonterminals
  <2>2. CASE Word(words, i) # "("
    <3>1. here = Leaf(Word(words, i), env, i + 1) /\ there = here
      BY <1>6, <2>2 DEF Descend
    <3>2. ASSUME here.ok PROVE here.next \in i + 1 .. Len(words) + 1
      <4>1. Word(words, i) # "eof" /\ here.next = i + 1
        BY <3>1, <3>2, LeafEnds
      <4> QED
        BY <4>1, WordFound
    <3> QED
      BY <3>1, <3>2 DEF Advances
  <2>3. CASE Word(words, i) = "("
    <3> DEFINE x == f[<<"or", i + 1>>]
    <3>1. i + 1 \in i + 1 .. Len(words) + 1 /\ i + 1 \in 1 .. Len(words) + 1
      BY <2>3, WordFound
    <3>2. Cost(words, "or", i + 1) < n
      BY <2>1, <3>1, LaterIsCheaper
    <3>3. Advances(x, words, i + 1) /\ g[<<"or", i + 1>>] = x
      BY <1>1, <2>1, <3>1, <3>2
    <3>4. here = IF x.ok /\ Word(words, x.next) = ")"
                 THEN Node(x.typ, x.refs, x.val, x.next + 1) ELSE Error
      BY <1>6, <2>3 DEF Descend
    <3>5. there = here
      BY <1>6, <2>3, <3>3, <3>4 DEF Descend
    <3> HIDE DEF x, here, there
    <3>6. CASE x.ok /\ Word(words, x.next) = ")"
      <4>1. x.next \in i + 2 .. Len(words) + 1
        BY <3>1, <3>3, <3>6 DEF Advances
      <4>2. x.next <= Len(words)
        BY <3>6, <4>1, WordFound
      <4>3. here.next = x.next + 1
        BY <3>4, <3>6 DEF Node
      <4> QED
        BY <3>5, <4>1, <4>2, <4>3 DEF Advances, here, there
    <3>7. CASE ~ (x.ok /\ Word(words, x.next) = ")")
      BY <3>4, <3>5, <3>7 DEF Advances, Error, here, there
    <3> QED
      BY <3>6, <3>7
  <2> QED
    BY <2>2, <2>3
<1> QED
  BY <1>3, <1>4, <1>5, <1>6 DEF Nonterminals

(* The recursion of Parse, over a part D of the calls.                     *)
Parses(f, D, words, env) == f = [s \in D |-> Descend(f, words, env, s[1], s[2])]

(* The calls of a cost below n.                                            *)
Cheap(words, n) == {s \in Spots(words) : Cost(words, s[1], s[2]) < n}

(* The parser's recursion has a solution, ...                              *)
LEMMA ParsesExist ==
  ASSUME NEW words, Len(words) \in Nat, NEW env
  PROVE  \E f : Parses(f, Spots(words), words, env)
<1> DEFINE Good(n, f) == Parses(f, Cheap(words, n), words, env) /\ AdvancesBelow(f, words, n)
           P == {n \in Nat : \E f : Good(n, f)}
<1>1. 0 \in P
  <2>1. \A rule \in Nonterminals, i \in 1 .. Len(words) + 1 : ~ (Cost(words, rule, i) < 0)
    BY CostCounts
  <2>2. Cheap(words, 0) = {}
    BY <2>1 DEF Cheap, Spots
  <2>3. Good(0, [s \in {} |-> 0])
    BY <2>1, <2>2 DEF Parses, AdvancesBelow
  <2> QED
    BY <2>3
<1>2. ASSUME NEW n \in Nat, n \in P PROVE n + 1 \in P
  <2>1. PICK f : Good(n, f)
    BY <1>2
  <2> DEFINE g == [s \in Cheap(words, n + 1) |-> Descend(f, words, env, s[1], s[2])]
  <2>2. ASSUME NEW rule \in Nonterminals, NEW i \in 1 .. Len(words) + 1
        PROVE  /\ Cost(words, rule, i) < n + 1 => g[<<rule, i>>] = Descend(f, words, env, rule, i)
               /\ Cost(words, rule, i) < n => g[<<rule, i>>] = f[<<rule, i>>]
    <3>1. Cost(words, rule, i) \in Nat
      BY CostCounts
    <3>2. <<rule, i>> \in Spots(words) /\ <<rule, i>>[1] = rule /\ <<rule, i>>[2] = i
      BY DEF Spots
    <3>3. Cost(words, rule, i) < n + 1 => <<rule, i>> \in Cheap(words, n + 1)
      BY <3>2 DEF Cheap
    <3>4. Cost(words, rule, i) < n =>
            <<rule, i>> \in Cheap(words, n) /\ Cost(words, rule, i) < n + 1
      BY <3>1, <3>2 DEF Cheap
    <3> QED
      BY <2>1, <3>2, <3>3, <3>4 DEF Parses
  <2> HIDE DEF g
  <2>3. ASSUME NEW rule \in Nonterminals, NEW i \in 1 .. Len(words) + 1,
               Cost(words, rule, i) < n + 1
        PROVE  /\ Advances(Descend(f, words, env, rule, i), words, i)
               /\ Descend(g, words, env, rule, i) = Descend(f, words, env, rule, i)
    <3>1. Cost(words, rule, i) \in Nat
      BY CostCounts
    <3>2. ASSUME NEW called \in Nonterminals, NEW j \in 1 .. Len(words) + 1,
                 Cost(words, called, j) < Cost(words, rule, i)
          PROVE  Advances(f[<<called, j>>], words, j) /\ g[<<called, j>>] = f[<<called, j>>]
      <4>1. Cost(words, called, j) < n
        BY <2>3, <3>1, <3>2, CostCounts
      <4> QED
        BY <2>1, <2>2, <4>1 DEF AdvancesBelow
    <3>3. AdvancesBelow(f, words, Cost(words, rule, i))
          /\ AgreeBelow(f, g, words, Cost(words, rule, i))
      BY <3>2 DEF AdvancesBelow, AgreeBelow
    <3> QED
      BY <3>3, DescendAdvances
  <2>4. AdvancesBelow(g, words, n + 1)
    BY <2>2, <2>3 DEF AdvancesBelow
  <2>5. Parses(g, Cheap(words, n + 1), words, env)
    <3>1. ASSUME NEW s \in Cheap(words, n + 1)
          PROVE  Descend(g, words, env, s[1], s[2]) = Descend(f, words, env, s[1], s[2])
      BY <2>3 DEF Cheap, Spots
    <3> QED
      BY <3>1 DEF Parses, g
  <2> QED
    BY <2>4, <2>5
<1>3. \A n \in Nat : n \in P => n + 1 \in P
  BY <1>2
<1>4. Nat \subseteq P
  <2> HIDE DEF P
  <2> QED
    BY <1>1, <1>3, NumberInduction
<1>5. 5 * Len(words) + 5 \in P
  BY <1>4
<1>6. Cheap(words, 5 * Len(words) + 5) = Spots(words)
  <2>1. ASSUME NEW rule \in Nonterminals, NEW i \in 1 .. Len(words) + 1
        PROVE  Cost(words, rule, i) < 5 * Len(words) + 5
    <3>1. Rank(rule) \in 0 .. 4
      BY DEF Rank, Nonterminals
    <3>2. Len(words) + 1 - i \in Nat /\ Len(words) + 1 - i <= Len(words)
      OBVIOUS
    <3>3. \A a, b \in Nat, x \in 0 .. 4 : a <= b => 5 * a + x < 5 * b + 5
      OBVIOUS
    <3> QED
      BY <3>1, <3>2, <3>3 DEF Cost
  <2> QED
    BY <2>1 DEF Cheap, Spots
<1> QED
  BY <1>5, <1>6

(* ... which Parse is the value of, ...                                    *)
LEMMA ParseParses ==
  ASSUME NEW words, Len(words) \in Nat, NEW env
  PROVE  \E f : Parses(f, Spots(words), words, env) /\ Parse(words, env) = f[<<"or", 1>>]
<1> DEFINE p == CHOOSE f : f = [s \in Spots(words) |-> Descend(f, words, env, s[1], s[2])]
<1>1. Parse(words, env) = p[<<"or", 1>>]
  BY DEF Parse
<1>2. \E f : f = [s \in Spots(words) |-> Descend(f, words, env, s[1], s[2])]
  <2>1. PICK f : Parses(f, Spots(words), words, env)
    BY ParsesExist
  <2> QED
    BY <2>1 DEF Parses
<1>3. Parses(p, Spots(words), words, env)
  BY <1>2 DEF Parses
<1> QED
  BY <1>1, <1>3

(* What two parses of the same words agree on when their environments may  *)
(* differ in the variables of V.                                           *)
Alike(x, y, V) ==
  /\ x.ok = y.ok /\ x.typ = y.typ /\ x.refs = y.refs /\ x.next = y.next
  /\ x.refs \cap V = {} => x.val = y.val

(* Environments that differ in no variable but those of V.                 *)
DifferIn(V, e1, e2) == \A v \in Vars \ V : e1[v] = e2[v]

(* Leaves are alike: only a variable is looked up.                         *)
LEMMA LeavesAlike ==
  ASSUME NEW V, NEW e1, NEW e2, DifferIn(V, e1, e2), NEW word, NEW next
  PROVE  Alike(Leaf(word, e1, next), Leaf(word, e2, next), V)
<1>1. CASE word \in Vars
  <2>1. word \notin V => e1[word] = e2[word]
    BY <1>1 DEF DifferIn
  <2>2. \A typ, x, y : (word \notin V => x = y) =>
          Alike(Node(typ, {word}, x, next), Node(typ, {word}, y, next), V)
    BY DEF Alike, Node
  <2>3. word \notin DOMAIN IntWords /\ word \notin DOMAIN StrWords
        /\ word \notin {"true", "false"}
    BY <1>1 DEF IntWords, StrWords, Vars, NumericVars
  <2>4. word \in NumericVars \/ word \in Vars \ NumericVars
    BY <1>1
  <2>5. CASE word \in NumericVars
    <3>1. \A e : Leaf(word, e, next) = Node("int", {word}, e[word], next)
      BY <2>3, <2>5 DEF Leaf
    <3> QED
      BY <2>1, <2>2, <3>1
  <2>6. CASE word \in Vars \ NumericVars
    <3>1. \A e : Leaf(word, e, next) = Node("str", {word}, e[word], next)
      BY <2>3, <2>6 DEF Leaf
    <3> QED
      BY <2>1, <2>2, <3>1
  <2> QED
    BY <2>4, <2>5, <2>6
<1>2. CASE word \notin Vars
  <2>1. Leaf(word, e1, next) = Leaf(word, e2, next)
    BY <1>2 DEF Leaf, Vars
  <2> QED
    BY <2>1 DEF Alike
<1> QED
  BY <1>1, <1>2

(* What an operator makes of operands that are alike is alike.             *)
LEMMA OperatorsAlike ==
  ASSUME NEW V, NEW op, NEW l, NEW m, Alike(l, m, V), NEW r, NEW q, Alike(r, q, V)
  PROVE  /\ Alike(Logic(op, l, r), Logic(op, m, q), V)
         /\ Alike(Comparison(op, l, r), Comparison(op, m, q), V)
         /\ Alike(Negation(l), Negation(m), V)
<1>1. \A typ, refs, x, y, next : (refs \cap V = {} => x = y) =>
        Alike(Node(typ, refs, x, next), Node(typ, refs, y, next), V)
  BY DEF Alike, Node
<1>2. Alike(Error, Error, V)
  BY DEF Alike
<1>3. (l.refs \cup r.refs) \cap V = {} => l.val = m.val /\ r.val = q.val
  BY DEF Alike
<1>0. /\ l.typ = m.typ /\ l.refs = m.refs
      /\ r.ok = q.ok /\ r.typ = q.typ /\ r.refs = q.refs /\ r.next = q.next
  BY DEF Alike
<1>4. Alike(Logic(op, l, r), Logic(op, m, q), V)
  <2>1. CASE r.ok /\ l.typ = "bool" /\ r.typ = "bool"
    <3> DEFINE Val(x, y) == IF op = "&&" THEN x /\ y ELSE x \/ y
    <3>1. /\ Logic(op, l, r) = Node("bool", l.refs \cup r.refs, Val(l.val, r.val), r.next)
          /\ Logic(op, m, q) = Node("bool", l.refs \cup r.refs, Val(m.val, q.val), r.next)
      BY <1>0, <2>1 DEF Logic
    <3>2. (l.refs \cup r.refs) \cap V = {} => Val(l.val, r.val) = Val(m.val, q.val)
      BY <1>3
    <3> HIDE DEF Val
    <3> QED
      BY <1>1, <3>1, <3>2
  <2>2. CASE ~ (r.ok /\ l.typ = "bool" /\ r.typ = "bool")
    BY <1>0, <1>2, <2>2 DEF Logic
  <2> QED
    BY <2>1, <2>2
<1>5. Alike(Comparison(op, l, r), Comparison(op, m, q), V)
  <2>1. CASE r.ok /\ l.typ = r.typ /\ l.typ # "bool"
    <3>1. /\ Comparison(op, l, r)
               = Node("bool", l.refs \cup r.refs, Compare(op, l.val, r.val), r.next)
          /\ Comparison(op, m, q)
               = Node("bool", l.refs \cup r.refs, Compare(op, m.val, q.val), r.next)
      BY <1>0, <2>1 DEF Comparison
    <3> QED
      BY <1>1, <1>3, <3>1
  <2>2. CASE ~ (r.ok /\ l.typ = r.typ /\ l.typ # "bool")
    BY <1>0, <1>2, <2>2 DEF Comparison
  <2> QED
    BY <2>1, <2>2
<1>6. Alike(Negation(l), Negation(m), V)
  BY <1>1, <1>2, <1>3 DEF Negation, Alike
<1> QED
  BY <1>4, <1>5, <1>6

(* ... or are alike.                                                       *)
AlikeBelow(f, g, words, V, n) ==
  \A rule \in Nonterminals, i \in 1 .. Len(words) + 1 :
    Cost(words, rule, i) < n => Alike(f[<<rule, i>>], g[<<rule, i>>], V)

(* One step of the descent keeps the two parses alike.                     *)
LEMMA DescendAlike ==
  ASSUME NEW words, Len(words) \in Nat,
         NEW V, NEW e1, NEW e2, DifferIn(V, e1, e2),
         NEW rule \in Nonterminals, NEW i \in 1 .. Len(words) + 1,
         NEW f, AdvancesBelow(f, words, Cost(words, rule, i)),
         NEW g, AlikeBelow(f, g, words, V, Cost(words, rule, i))
  PROVE  Alike(Descend(f, words, e1, rule, i), Descend(g, words, e2, rule, i), V)
<1> DEFINE here == Descend(f, words, e1, rule, i)
           there == Descend(g, words, e2, rule, i)
           n == Cost(words, rule, i)
<1>1. ASSUME NEW called \in Nonterminals, NEW j \in 1 .. Len(words) + 1,
             Cost(words, called, j) < n
      PROVE  Advances(f[<<called, j>>], words, j)
             /\ Alike(f[<<called, j>>], g[<<called, j>>], V)
  BY <1>1 DEF AdvancesBelow, AlikeBelow
<1>2. ASSUME NEW l, Advances(l, words, i), l.ok, Word(words, l.next) # "eof",
             NEW called \in Nonterminals
      PROVE  Alike(f[<<called, l.next + 1>>], g[<<called, l.next + 1>>], V)
  <2>1. l.next \in i + 1 .. Len(words) + 1
    BY <1>2 DEF Advances
  <2>2. l.next <= Len(words)
    BY <1>2, <2>1, WordFound
  <2>3. l.next + 1 \in i + 1 .. Len(words) + 1 /\ l.next + 1 \in 1 .. Len(words) + 1
    BY <2>1, <2>2
  <2>4. Cost(words, called, l.next + 1) < n
    BY <2>3, LaterIsCheaper
  <2> QED
    BY <1>1, <2>3, <2>4
<1>3. CASE rule \in {"or", "and"}
  <2> DEFINE l == f[<<Operand(rule), i>>]
             m == g[<<Operand(rule), i>>]
             r == f[<<rule, l.next + 1>>]
             q == g[<<rule, l.next + 1>>]
  <2>1. Operand(rule) \in Nonterminals /\ Cost(words, Operand(rule), i) < n
    BY <1>3, LowerIsCheaper DEF Operand, Nonterminals
  <2>2. Advances(l, words, i) /\ Alike(l, m, V)
    BY <1>1, <2>1
  <2>3. ChainOp(rule) # "eof"
    BY DEF ChainOp
  <2>4. here = IF l.ok /\ Word(words, l.next) = ChainOp(rule)
               THEN Logic(ChainOp(rule), l, r) ELSE l
    BY <1>3 DEF Descend
  <2>5. m.ok = l.ok /\ m.next = l.next
    BY <2>2 DEF Alike
  <2>6. there = IF l.ok /\ Word(words, l.next) = ChainOp(rule)
                THEN Logic(ChainOp(rule), m, q) ELSE m
    BY <1>3, <2>5 DEF Descend
  <2> HIDE DEF l, m, here, there, n
  <2>7. CASE l.ok /\ Word(words, l.next) = ChainOp(rule)
    <3>1. Alike(r, q, V)
      BY <1>2, <2>2, <2>3, <2>7
    <3> QED
      BY <2>2, <2>4, <2>6, <2>7, <3>1, OperatorsAlike DEF here, there
  <2>8. CASE ~ (l.ok /\ Word(words, l.next) = ChainOp(rule))
    BY <2>2, <2>4, <2>6, <2>8 DEF here, there
  <2> QED
    BY <2>7, <2>8
<1>4. CASE rule = "not"
  <2>1. "comparison" \in Nonterminals /\ "not" \in Nonterminals
    BY DEF Nonterminals
  <2>2. Alike(f[<<"comparison", i>>], g[<<"comparison", i>>], V)
    BY <1>1, <1>4, <2>1, LowerIsCheaper
  <2>3. CASE Word(words, i) = "!"
    <3>1. i + 1 \in i + 1 .. Len(words) + 1 /\ i + 1 \in 1 .. Len(words) + 1
      BY <2>3, WordFound
    <3>2. Cost(words, "not", i + 1) < n
      BY <2>1, <3>1, LaterIsCheaper
    <3>3. Alike(f[<<"not", i + 1>>], g[<<"not", i + 1>>], V)
      BY <1>1, <2>1, <3>1, <3>2
    <3>4. here = Negation(f[<<"not", i + 1>>]) /\ there = Negation(g[<<"not", i + 1>>])
      BY <1>4, <2>3 DEF Descend
    <3> QED
      BY <3>3, <3>4, OperatorsAlike
  <2>4. CASE Word(words, i) # "!"
    BY <1>4, <2>2, <2>4 DEF Descend
  <2> QED
    BY <2>3, <2>4
<1>5. CASE rule = "comparison"
  <2> DEFINE l == f[<<"primary", i>>]
             m == g[<<"primary", i>>]
             r == f[<<"primary", l.next + 1>>]
             q == g[<<"primary", l.next + 1>>]
  <2>1. "primary" \in Nonterminals
    BY DEF Nonterminals
  <2>2. Advances(l, words, i) /\ Alike(l, m, V)
    BY <1>1, <1>5, <2>1, LowerIsCheaper
  <2>3. "eof" \notin CmpOps
    BY DEF CmpOps
  <2>4. here = IF l.ok /\ Word(words, l.next) \in CmpOps
               THEN Comparison(Word(words, l.next), l, r) ELSE l
    BY <1>5 DEF Descend
  <2>5. m.ok = l.ok /\ m.next = l.next
    BY <2>2 DEF Alike
  <2>6. there = IF l.ok /\ Word(words, l.next) \in CmpOps
                THEN Comparison(Word(words, l.next), m, q) ELSE m
    BY <1>5, <2>5 DEF Descend
  <2> HIDE DEF l, m, here, there, n
  <2>7. CASE l.ok /\ Word(words, l.next) \in CmpOps
    <3>1. Alike(r, q, V)
      BY <1>2, <2>1, <2>2, <2>3, <2>7
    <3> QED
      BY <2>2, <2>4, <2>6, <2>7, <3>1, OperatorsAlike DEF here, there
  <2>8. CASE ~ (l.ok /\ Word(words, l.next) \in CmpOps)
    BY <2>2, <2>4, <2>6, <2>8 DEF here, there
  <2> QED
    BY <2>7, <2>8
<1>6. CASE rule = "primary"
  <2>1. "or" \in Nonterminals
    BY DEF Nonterminals
  <2>2. CASE Word(words, i) # "("
    <3>1. /\ here = Leaf(Word(words, i), e1, i + 1)
          /\ there = Leaf(Word(words, i), e2, i + 1)
      BY <1>6, <2>2 DEF Descend
    <3> QED
      BY <3>1, LeavesAlike
  <2>3. CASE Word(words, i) = "("
    <3> DEFINE x == f[<<"or", i + 1>>]
               y == g[<<"or", i + 1>>]
    <3>1. i + 1 \in i + 1 .. Len(words) + 1 /\ i + 1 \in 1 .. Len(words) + 1
      BY <2>3, WordFound
    <3>2. Cost(words, "or", i + 1) < n
      BY <2>1, <3>1, LaterIsCheaper
    <3>3. Alike(x, y, V)
      BY <1>1, <2>1, <3>1, <3>2
    <3>4. /\ here = IF x.ok /\ Word(words, x.next) = ")"
                    THEN Node(x.typ, x.refs, x.val, x.next + 1) ELSE Error
          /\ there = IF y.ok /\ Word(words, y.next) = ")"
                     THEN Node(y.typ, y.refs, y.val, y.next + 1) ELSE Error
      BY <1>6, <2>3 DEF Descend
    <3> HIDE DEF x, y, here, there
    <3>5. y.ok = x.ok /\ y.typ = x.typ /\ y.refs = x.refs /\ y.next = x.next
      BY <3>3 DEF Alike
    <3>6. \A typ, refs, a, b, next : (refs \cap V = {} => a = b) =>
            Alike(Node(typ, refs, a, next), Node(typ, refs, b, next), V)
      BY DEF Alike, Node
    <3>7. x.refs \cap V = {} => x.val = y.val
      BY <3>3 DEF Alike
    <3>8. Alike(Error, Error, V)
      BY DEF Alike
    <3> QED
      BY <3>4, <3>5, <3>6, <3>7, <3>8 DEF here, there
  <2> QED
    BY <2>2, <2>3
<1> QED
  BY <1>3, <1>4, <1>5, <1>6 DEF Nonterminals

(* Two parses of the same words are alike.                                 *)
LEMMA ParsesAlike ==
  ASSUME NEW words, Len(words) \in Nat,
         NEW V, NEW e1, NEW e2, DifferIn(V, e1, e2)
  PROVE  Alike(Parse(words, e1), Parse(words, e2), V)
<1>1. PICK f : Parses(f, Spots(words), words, e1) /\ Parse(words, e1) = f[<<"or", 1>>]
  BY ParseParses
<1>2. PICK g : Parses(g, Spots(words), words, e2) /\ Parse(words, e2) = g[<<"or", 1>>]
  BY ParseParses
<1>3. ASSUME NEW rule \in Nonterminals, NEW i \in 1 .. Len(words) + 1
      PROVE  /\ f[<<rule, i>>] = Descend(f, words, e1, rule, i)
             /\ g[<<rule, i>>] = Descend(g, words, e2, rule, i)
  <2>1. <<rule, i>> \in Spots(words) /\ <<rule, i>>[1] = rule /\ <<rule, i>>[2] = i
    BY DEF Spots
  <2> QED
    BY <1>1, <1>2, <2>1 DEF Parses
<1> DEFINE P == {n \in Nat : AdvancesBelow(f, words, n) /\ AlikeBelow(f, g, words, V, n)}
<1>4. 0 \in P
  <2>1. \A rule \in Nonterminals, i \in 1 .. Len(words) + 1 : ~ (Cost(words, rule, i) < 0)
    BY CostCounts
  <2> QED
    BY <2>1 DEF AdvancesBelow, AlikeBelow
<1>5. ASSUME NEW n \in Nat, n \in P PROVE n + 1 \in P
  <2>1. ASSUME NEW rule \in Nonterminals, NEW i \in 1 .. Len(words) + 1,
               Cost(words, rule, i) < n + 1
        PROVE  Advances(f[<<rule, i>>], words, i) /\ Alike(f[<<rule, i>>], g[<<rule, i>>], V)
    <3>1. Cost(words, rule, i) \in Nat
      BY CostCounts
    <3>2. ASSUME NEW called \in Nonterminals, NEW j \in 1 .. Len(words) + 1,
                 Cost(words, called, j) < Cost(words, rule, i)
          PROVE  Advances(f[<<called, j>>], words, j)
                 /\ Alike(f[<<called, j>>], g[<<called, j>>], V)
      <4>1. Cost(words, called, j) < n
        BY <2>1, <3>1, <3>2, CostCounts
      <4> QED
        BY <1>5, <4>1 DEF AdvancesBelow, AlikeBelow
    <3>3. /\ AdvancesBelow(f, words, Cost(words, rule, i))
          /\ AgreeBelow(f, f, words, Cost(words, rule, i))
          /\ AlikeBelow(f, g, words, V, Cost(words, rule, i))
      BY <3>2 DEF AdvancesBelow, AgreeBelow, AlikeBelow
    <3>4. Advances(Descend(f, words, e1, rule, i), words, i)
      BY <3>3, DescendAdvances
    <3>5. Alike(Descend(f, words, e1, rule, i), Descend(g, words, e2, rule, i), V)
      BY <3>3, DescendAlike
    <3> QED
      BY <1>3, <3>4, <3>5
  <2> QED
    BY <2>1 DEF AdvancesBelow, AlikeBelow
<1>6. \A n \in Nat : n \in P => n + 1 \in P
  BY <1>5
<1>7. Nat \subseteq P
  <2> HIDE DEF P
  <2> QED
    BY <1>4, <1>6, NumberInduction
<1>8. "or" \in Nonterminals /\ 1 \in 1 .. Len(words) + 1
  BY DEF Nonterminals
<1>9. Cost(words, "or", 1) \in Nat
  BY <1>8, CostCounts
<1>10. Cost(words, "or", 1) + 1 \in P
  BY <1>7, <1>9
<1>11. AlikeBelow(f, g, words, V, Cost(words, "or", 1) + 1)
  BY <1>10
<1>12. Cost(words, "or", 1) < Cost(words, "or", 1) + 1
  BY <1>9
<1> QED
  BY <1>1, <1>2, <1>8, <1>11, <1>12 DEF AlikeBelow

(* So are the programs: whether a source compiles and what it refers to    *)
(* do not depend on the environment, ...                                   *)
LEMMA ProgramsAlike ==
  ASSUME NEW words, Len(words) \in Nat, NEW V, NEW e1, NEW e2, DifferIn(V, e1, e2)
  PROVE  Alike(Compile(words, e1), Compile(words, e2), V)
<1>1. CASE words = <<>>
  BY <1>1 DEF Compile, Alike, Node
<1>2. CASE words # <<>>
  <2> DEFINE x == Parse(words, e1)
             y == Parse(words, e2)
             good == \A i \in DOMAIN words : words[i] \notin BadWords
  <2>1. Alike(x, y, V)
    BY ParsesAlike
  <2>2. /\ Compile(words, e1) = IF /\ good /\ x.ok /\ x.next = Len(words) + 1
                                   /\ x.typ = "bool" THEN x ELSE Error
        /\ Compile(words, e2) = IF /\ good /\ y.ok /\ y.next = Len(words) + 1
                                   /\ y.typ = "bool" THEN y ELSE Error
    BY <1>2 DEF Compile
  <2> HIDE DEF x, y, good
  <2>3. Alike(Error, Error, V)
    BY DEF Alike
  <2>4. x.ok = y.ok /\ x.next = y.next /\ x.typ = y.typ
    BY <2>1 DEF Alike
  <2> QED
    BY <2>1, <2>2, <2>3, <2>4
<1> QED
  BY <1>1, <1>2

(* ... and its value depends on no other variable than those it refers to. *)
THEOREM ValuesDependOnReferences ==
  ASSUME NEW words, Len(words) \in Nat,
         NEW V, NEW e1, NEW e2, DifferIn(V, e1, e2),
         References(words) \cap V = {}
  PROVE  Eval(words, e1) = Eval(words, e2)
<1>1. ASSUME NEW U, NEW d1, NEW d2, DifferIn(U, d1, d2)
      PROVE  Alike(Compile(words, d1), Compile(words, d2), U)
  BY <1>1, ProgramsAlike
<1>2. Alike(Compile(words, ZeroEnv), Compile(words, e1), Vars)
  BY <1>1 DEF DifferIn
<1>3. Compile(words, e1).refs \cap V = {}
  BY <1>2 DEF Alike, References
<1>4. Alike(Compile(words, e1), Compile(words, e2), V)
  BY <1>1
<1> QED
  BY <1>3, <1>4 DEF Alike, Eval

-----------------------------------------------------------------------------
(* The derivations of the grammar are well defined.                        *)

(* The rules of the grammar, too, are told of shorter spans, or of the     *)
(* same span and a rule further down.                                      *)
SpanCost(rule, i, j) == 5 * (j - i) + Rank(rule)

(* The spans of a cost below n have the same meanings.                     *)
AgreeWithin(d, e, words, n) ==
  \A rule \in Nonterminals, i, j \in 1 .. Len(words) :
    i <= j /\ SpanCost(rule, i, j) < n => e[<<rule, i, j>>] = d[<<rule, i, j>>]

(* What d says of every span is what the rules make of d.                  *)
Derives(d, D, words, env) == d = [s \in D |-> Derive(d, words, env, s[1], s[2], s[3])]

(* The spans of a cost below n.                                            *)
Within(words, n) == {s \in Spans(words) : SpanCost(s[1], s[2], s[3]) < n}

(* The costs of spans are numbers, those of shorter spans lower ones.      *)
LEMMA SpanCosts ==
  ASSUME NEW rule \in Nonterminals, NEW i \in Nat, NEW j \in Nat, i <= j
  PROVE  /\ SpanCost(rule, i, j) \in Nat
         /\ \A called \in Nonterminals, a, b \in Nat :
              a <= b /\ b - a < j - i => SpanCost(called, a, b) < SpanCost(rule, i, j)
<1>1. \A r \in Nonterminals : Rank(r) \in 0 .. 4
  BY DEF Rank, Nonterminals
<1>2. \A a, b \in Nat, x, y \in 0 .. 4 : a < b => 5 * a + x < 5 * b + y
  OBVIOUS
<1>3. ASSUME NEW called \in Nonterminals, NEW a \in Nat, NEW b \in Nat,
             a <= b, b - a < j - i
      PROVE  SpanCost(called, a, b) < SpanCost(rule, i, j)
  <2>1. b - a \in Nat /\ j - i \in Nat
    BY <1>3
  <2> QED
    BY <1>1, <1>2, <1>3, <2>1 DEF SpanCost
<1>4. j - i \in Nat
  OBVIOUS
<1> QED
  BY <1>1, <1>3, <1>4 DEF SpanCost

(* So are those of the rules further down.                                 *)
LEMMA LowerSpansCost ==
  ASSUME NEW i \in Nat, NEW j \in Nat, i <= j
  PROVE  /\ SpanCost("and", i, j) < SpanCost("or", i, j)
         /\ SpanCost("not", i, j) < SpanCost("and", i, j)
         /\ SpanCost("comparison", i, j) < SpanCost("not", i, j)
         /\ SpanCost("primary", i, j) < SpanCost("comparison", i, j)
<1>1. 5 * (j - i) \in Nat
  OBVIOUS
<1>2. Rank("or") = 4 /\ Rank("and") = 3 /\ Rank("not") = 2 /\ Rank("comparison") = 1
      /\ Rank("primary") = 0
  BY DEF Rank
<1> QED
  BY <1>1, <1>2 DEF SpanCost

(* A split leaves two shorter spans.                                       *)
LEMMA SplitsShorten ==
  ASSUME NEW words, Len(words) \in Nat, NEW ops,
         NEW i \in 1 .. Len(words), NEW j \in 1 .. Len(words),
         NEW k \in Splits(words, ops, i, j)
  PROVE  /\ k \in i + 1 .. j - 1 /\ k \in 1 .. Len(words) /\ words[k] \in ops
         /\ k - 1 \in 1 .. Len(words) /\ i <= k - 1 /\ k - 1 - i < j - i
         /\ k + 1 \in 1 .. Len(words) /\ k + 1 <= j /\ j - (k + 1) < j - i
<1>1. k \in i + 1 .. j - 1 /\ words[k] \in ops
  BY DEF Splits
<1> QED
  BY <1>1

(* What a rule makes of a span depends only on cheaper ones.               *)
LEMMA DeriveAgrees ==
  ASSUME NEW words, Len(words) \in Nat, NEW env,
         NEW rule \in Nonterminals,
         NEW i \in 1 .. Len(words), NEW j \in 1 .. Len(words), i <= j,
         NEW d, NEW e, AgreeWithin(d, e, words, SpanCost(rule, i, j))
  PROVE  Derive(e, words, env, rule, i, j) = Derive(d, words, env, rule, i, j)
<1>0. {"or", "and", "not", "comparison", "primary"} = Nonterminals
  BY DEF Nonterminals
<1>1. ASSUME NEW called \in Nonterminals, NEW a \in 1 .. Len(words), NEW b \in 1 .. Len(words),
             a <= b, b - a < j - i
      PROVE  e[<<called, a, b>>] = d[<<called, a, b>>]
  <2>0. 1 .. Len(words) \subseteq Nat
    OBVIOUS
  <2>1. SpanCost(called, a, b) < SpanCost(rule, i, j)
    BY <1>1, <2>0, SpanCosts
  <2> QED
    BY <1>1, <2>1 DEF AgreeWithin
<1>2. ASSUME NEW called \in Nonterminals, SpanCost(called, i, j) < SpanCost(rule, i, j)
      PROVE  e[<<called, i, j>>] = d[<<called, i, j>>]
  BY <1>2 DEF AgreeWithin
<1>3. ASSUME NEW ops, NEW k \in Splits(words, ops, i, j), NEW called \in Nonterminals
      PROVE  e[<<called, i, k - 1>>] = d[<<called, i, k - 1>>]
             /\ e[<<called, k + 1, j>>] = d[<<called, k + 1, j>>]
  <2>1. /\ k - 1 \in 1 .. Len(words) /\ i <= k - 1 /\ k - 1 - i < j - i
        /\ k + 1 \in 1 .. Len(words) /\ k + 1 <= j /\ j - (k + 1) < j - i
    BY SplitsShorten
  <2> QED
    BY <1>1, <2>1
<1>4. CASE rule = "or"
  <2>1. e[<<"and", i, j>>] = d[<<"and", i, j>>]
    BY <1>0, <1>2, <1>4, LowerSpansCost
  <2>2. \A k \in Splits(words, {"||"}, i, j) :
          Either(e[<<"or", i, k - 1>>], e[<<"and", k + 1, j>>])
            = Either(d[<<"or", i, k - 1>>], d[<<"and", k + 1, j>>])
    BY <1>0, <1>3
  <2>3. {Either(e[<<"or", i, k - 1>>], e[<<"and", k + 1, j>>]) : k \in Splits(words, {"||"}, i, j)}
        = {Either(d[<<"or", i, k - 1>>], d[<<"and", k + 1, j>>]) : k \in Splits(words, {"||"}, i, j)}
    BY <2>2
  <2> QED
    BY <1>4, <2>1, <2>3 DEF Derive
<1>5. CASE rule = "and"
  <2>1. e[<<"not", i, j>>] = d[<<"not", i, j>>]
    BY <1>0, <1>2, <1>5, LowerSpansCost
  <2>2. \A k \in Splits(words, {"&&"}, i, j) :
          Both(e[<<"and", i, k - 1>>], e[<<"not", k + 1, j>>])
            = Both(d[<<"and", i, k - 1>>], d[<<"not", k + 1, j>>])
    BY <1>0, <1>3
  <2>3. {Both(e[<<"and", i, k - 1>>], e[<<"not", k + 1, j>>]) : k \in Splits(words, {"&&"}, i, j)}
        = {Both(d[<<"and", i, k - 1>>], d[<<"not", k + 1, j>>]) : k \in Splits(words, {"&&"}, i, j)}
    BY <2>2
  <2> QED
    BY <1>5, <2>1, <2>3 DEF Derive
<1>6. CASE rule = "not"
  <2>1. e[<<"comparison", i, j>>] = d[<<"comparison", i, j>>]
    BY <1>0, <1>2, <1>6, LowerSpansCost
  <2>2. i # j => e[<<"not", i + 1, j>>] = d[<<"not", i + 1, j>>]
    BY <1>0, <1>1
  <2> QED
    BY <1>6, <2>1, <2>2 DEF Derive
<1>7. CASE rule = "comparison"
  <2>1. e[<<"primary", i, j>>] = d[<<"primary", i, j>>]
    BY <1>0, <1>2, <1>7, LowerSpansCost
  <2>2. \A k \in Splits(words, CmpOps, i, j) :
          Compared(words[k], e[<<"primary", i, k - 1>>], e[<<"primary", k + 1, j>>])
            = Compared(words[k], d[<<"primary", i, k - 1>>], d[<<"primary", k + 1, j>>])
    BY <1>0, <1>3
  <2>3. {Compared(words[k], e[<<"primary", i, k - 1>>], e[<<"primary", k + 1, j>>])
           : k \in Splits(words, CmpOps, i, j)}
        = {Compared(words[k], d[<<"primary", i, k - 1>>], d[<<"primary", k + 1, j>>])
             : k \in Splits(words, CmpOps, i, j)}
    BY <2>2
  <2> QED
    BY <1>7, <2>1, <2>3 DEF Derive
<1>8. CASE rule = "primary"
  <2>1. j > i + 1 => e[<<"or", i + 1, j - 1>>] = d[<<"or", i + 1, j - 1>>]
    <3>1. j > i + 1 => i + 1 \in 1 .. Len(words) /\ j - 1 \in 1 .. Len(words) /\ i + 1 <= j - 1
                       /\ j - 1 - (i + 1) < j - i
      OBVIOUS
    <3> QED
      BY <1>0, <1>1, <3>1
  <2> QED
    BY <1>8, <2>1 DEF Derive
<1> QED
  BY <1>4, <1>5, <1>6, <1>7, <1>8 DEF Nonterminals

(* The grammar's recursion has a solution, ...                             *)
LEMMA GrammarExists ==
  ASSUME NEW words, Len(words) \in Nat, NEW env
  PROVE  \E d : Derives(d, Spans(words), words, env)
<1> DEFINE P == {n \in Nat : \E d : Derives(d, Within(words, n), words, env)}
<1>0. ASSUME NEW rule \in Nonterminals, NEW i \in 1 .. Len(words), NEW j \in 1 .. Len(words),
             i <= j
      PROVE  /\ SpanCost(rule, i, j) \in Nat
             /\ <<rule, i, j>> \in Spans(words)
             /\ <<rule, i, j>>[1] = rule /\ <<rule, i, j>>[2] = i /\ <<rule, i, j>>[3] = j
  <2>1. SpanCost(rule, i, j) \in Nat
    BY <1>0, SpanCosts
  <2> QED
    BY <1>0, <2>1 DEF Spans
<1>1. 0 \in P
  <2>1. Within(words, 0) = {}
    <3>1. ASSUME NEW s \in Spans(words) PROVE ~ (SpanCost(s[1], s[2], s[3]) < 0)
      <4>1. s[1] \in Nonterminals /\ s[2] \in 1 .. Len(words) /\ s[3] \in 1 .. Len(words)
            /\ s[2] <= s[3]
        BY DEF Spans
      <4>2. SpanCost(s[1], s[2], s[3]) \in Nat
        BY <1>0, <4>1
      <4> QED
        BY <4>2
    <3> QED
      BY <3>1 DEF Within
  <2>2. Derives([s \in {} |-> 0], {}, words, env)
    BY DEF Derives
  <2> QED
    BY <2>1, <2>2
<1>2. ASSUME NEW n \in Nat, n \in P PROVE n + 1 \in P
  <2>1. PICK d : Derives(d, Within(words, n), words, env)
    BY <1>2
  <2> DEFINE e == [s \in Within(words, n + 1) |-> Derive(d, words, env, s[1], s[2], s[3])]
  <2>2. ASSUME NEW rule \in Nonterminals, NEW i \in 1 .. Len(words), NEW j \in 1 .. Len(words),
               i <= j, SpanCost(rule, i, j) < n
        PROVE  e[<<rule, i, j>>] = d[<<rule, i, j>>]
    <3>1. <<rule, i, j>> \in Within(words, n) /\ <<rule, i, j>> \in Within(words, n + 1)
      BY <1>0, <2>2 DEF Within
    <3> QED
      BY <1>0, <2>1, <2>2, <3>1 DEF Derives
  <2> HIDE DEF e
  <2>3. ASSUME NEW s \in Within(words, n + 1)
        PROVE  Derive(e, words, env, s[1], s[2], s[3]) = Derive(d, words, env, s[1], s[2], s[3])
    <3>1. /\ s[1] \in Nonterminals /\ s[2] \in 1 .. Len(words) /\ s[3] \in 1 .. Len(words)
          /\ s[2] <= s[3] /\ SpanCost(s[1], s[2], s[3]) < n + 1
      BY DEF Within, Spans
    <3>2. SpanCost(s[1], s[2], s[3]) \in Nat
      BY <1>0, <3>1
    <3>3. \A rule \in Nonterminals, i, j \in 1 .. Len(words) :
            i <= j /\ SpanCost(rule, i, j) < SpanCost(s[1], s[2], s[3]) => SpanCost(rule, i, j) < n
      <4>1. \A rule \in Nonterminals, i, j \in 1 .. Len(words) : i <= j => SpanCost(rule, i, j) \in Nat
        BY <1>0
      <4> QED
        BY <3>1, <3>2, <4>1
    <3>4. AgreeWithin(d, e, words, SpanCost(s[1], s[2], s[3]))
      BY <2>2, <3>3 DEF AgreeWithin
    <3> QED
      BY <3>1, <3>4, DeriveAgrees
  <2>4. Derives(e, Within(words, n + 1), words, env)
    BY <2>3 DEF Derives, e
  <2> QED
    BY <2>4
<1>3. \A n \in Nat : n \in P => n + 1 \in P
  BY <1>2
<1>4. Nat \subseteq P
  <2> HIDE DEF P
  <2> QED
    BY <1>1, <1>3, NumberInduction
<1>5. 5 * Len(words) + 5 \in P
  BY <1>4
<1>6. Within(words, 5 * Len(words) + 5) = Spans(words)
  <2>1. ASSUME NEW s \in Spans(words)
        PROVE  SpanCost(s[1], s[2], s[3]) < 5 * Len(words) + 5
    <3>1. s[1] \in Nonterminals /\ s[2] \in 1 .. Len(words) /\ s[3] \in 1 .. Len(words)
          /\ s[2] <= s[3]
      BY DEF Spans
    <3>2. Rank(s[1]) \in 0 .. 4
      BY <3>1 DEF Rank, Nonterminals
    <3>3. s[3] - s[2] \in Nat /\ s[3] - s[2] <= Len(words)
      BY <3>1
    <3>4. \A a, b \in Nat, x \in 0 .. 4 : a <= b => 5 * a + x < 5 * b + 5
      OBVIOUS
    <3> QED
      BY <3>2, <3>3, <3>4 DEF SpanCost
  <2> QED
    BY <2>1 DEF Within
<1> QED
  BY <1>5, <1>6

(* ... which Derivations is the value of.                                  *)
LEMMA GrammarDerives ==
  ASSUME NEW words, Len(words) \in Nat, NEW env
  PROVE  \E d : /\ Derives(d, Spans(words), words, env)
                /\ words # <<>> => Derivations(words, env) = d[<<"or", 1, Len(words)>>]
<1> DEFINE d == CHOOSE f : f = [s \in Spans(words) |->
                                   Derive(f, words, env, s[1], s[2], s[3])]
<1>1. words # <<>> => Derivations(words, env) = d[<<"or", 1, Len(words)>>]
  BY DEF Derivations
<1>2. \E f : f = [s \in Spans(words) |-> Derive(f, words, env, s[1], s[2], s[3])]
  <2>1. PICK f : Derives(f, Spans(words), words, env)
    BY GrammarExists
  <2> QED
    BY <2>1 DEF Derives
<1>3. Derives(d, Spans(words), words, env)
  BY <1>2 DEF Derives
<1> QED
  BY <1>1, <1>3

-----------------------------------------------------------------------------
(* The rules of the grammar, one by one, and what the parser reads.        *)

(* Induction over the spans of a source and the rules, by their cost, ...  *)
LEMMA SpanInduction ==
  ASSUME NEW words, Len(words) \in Nat, NEW P,
         ASSUME NEW rule \in Nonterminals,
                NEW i \in 1 .. Len(words), NEW j \in 1 .. Len(words), i <= j,
                \A called \in Nonterminals, a, b \in 1 .. Len(words) :
                  a <= b /\ SpanCost(called, a, b) < SpanCost(rule, i, j) => <<called, a, b>> \in P
         PROVE  <<rule, i, j>> \in P
  PROVE  \A rule \in Nonterminals, i, j \in 1 .. Len(words) : i <= j => <<rule, i, j>> \in P
<1> DEFINE Q == {n \in Nat : \A rule \in Nonterminals, i, j \in 1 .. Len(words) :
                               i <= j /\ SpanCost(rule, i, j) < n => <<rule, i, j>> \in P}
<1>1. \A rule \in Nonterminals, i, j \in 1 .. Len(words) : i <= j => SpanCost(rule, i, j) \in Nat
  <2>1. 1 .. Len(words) \subseteq Nat
    OBVIOUS
  <2> QED
    BY <2>1, SpanCosts
<1>2. 0 \in Q
  BY <1>1
<1>3. ASSUME NEW n \in Nat, n \in Q PROVE n + 1 \in Q
  <2>1. ASSUME NEW rule \in Nonterminals,
               NEW i \in 1 .. Len(words), NEW j \in 1 .. Len(words),
               i <= j, SpanCost(rule, i, j) < n + 1
        PROVE  <<rule, i, j>> \in P
    <3>1. SpanCost(rule, i, j) \in Nat
      BY <1>1, <2>1
    <3>2. \A called \in Nonterminals, a, b \in 1 .. Len(words) :
            a <= b /\ SpanCost(called, a, b) < SpanCost(rule, i, j) => SpanCost(called, a, b) < n
      BY <1>1, <2>1, <3>1
    <3>3. \A called \in Nonterminals, a, b \in 1 .. Len(words) :
            a <= b /\ SpanCost(called, a, b) < SpanCost(rule, i, j) => <<called, a, b>> \in P
      BY <1>3, <3>2
    <3> QED
      BY <2>1, <3>3
  <2> QED
    BY <2>1
<1>4. Nat \subseteq Q
  <2>1. \A n \in Nat : n \in Q => n + 1 \in Q
    BY <1>3
  <2> HIDE DEF Q
  <2> QED
    BY <1>2, <2>1, NumberInduction
<1> SUFFICES ASSUME NEW rule \in Nonterminals,
                    NEW i \in 1 .. Len(words), NEW j \in 1 .. Len(words), i <= j
             PROVE  <<rule, i, j>> \in P
  OBVIOUS
<1>5. SpanCost(rule, i, j) \in Nat /\ SpanCost(rule, i, j) < SpanCost(rule, i, j) + 1
  BY <1>1
<1>6. SpanCost(rule, i, j) + 1 \in Q
  BY <1>4, <1>5
<1> QED
  BY <1>5, <1>6

(* ... and over the calls of the parser, by theirs.                        *)
LEMMA SpotInduction ==
  ASSUME NEW words, Len(words) \in Nat, NEW P,
         ASSUME NEW rule \in Nonterminals, NEW i \in 1 .. Len(words) + 1,
                \A called \in Nonterminals, j \in 1 .. Len(words) + 1 :
                  Cost(words, called, j) < Cost(words, rule, i) => <<called, j>> \in P
         PROVE  <<rule, i>> \in P
  PROVE  \A rule \in Nonterminals, i \in 1 .. Len(words) + 1 : <<rule, i>> \in P
<1> DEFINE Q == {n \in Nat : \A rule \in Nonterminals, i \in 1 .. Len(words) + 1 :
                               Cost(words, rule, i) < n => <<rule, i>> \in P}
<1>1. \A rule \in Nonterminals, i \in 1 .. Len(words) + 1 : Cost(words, rule, i) \in Nat
  BY CostCounts
<1>2. 0 \in Q
  BY <1>1
<1>3. ASSUME NEW n \in Nat, n \in Q PROVE n + 1 \in Q
  <2>1. ASSUME NEW rule \in Nonterminals, NEW i \in 1 .. Len(words) + 1,
               Cost(words, rule, i) < n + 1
        PROVE  <<rule, i>> \in P
    <3>1. \A called \in Nonterminals, j \in 1 .. Len(words) + 1 :
            Cost(words, called, j) < Cost(words, rule, i) => Cost(words, called, j) < n
      BY <1>1, <2>1
    <3>2. \A called \in Nonterminals, j \in 1 .. Len(words) + 1 :
            Cost(words, called, j) < Cost(words, rule, i) => <<called, j>> \in P
      BY <1>3, <3>1
    <3> QED
      BY <2>1, <3>2
  <2> QED
    BY <2>1
<1>4. Nat \subseteq Q
  <2>1. \A n \in Nat : n \in Q => n + 1 \in Q
    BY <1>3
  <2> HIDE DEF Q
  <2> QED
    BY <1>2, <2>1, NumberInduction
<1> SUFFICES ASSUME NEW rule \in Nonterminals, NEW i \in 1 .. Len(words) + 1
             PROVE  <<rule, i>> \in P
  OBVIOUS
<1>5. Cost(words, rule, i) \in Nat /\ Cost(words, rule, i) < Cost(words, rule, i) + 1
  BY <1>1
<1>6. Cost(words, rule, i) + 1 \in Q
  BY <1>4, <1>5
<1> QED
  BY <1>5, <1>6

(* p is what the parser reads, d what the grammar has.                     *)
Reads(p, words, env) ==
  \A rule \in Nonterminals, i \in 1 .. Len(words) + 1 :
    /\ p[<<rule, i>>] = Descend(p, words, env, rule, i)
    /\ Advances(p[<<rule, i>>], words, i)

(* d has of every span what the rules give it.                             *)
Rules(d, words, env) ==
  \A rule \in Nonterminals, i, j \in 1 .. Len(words) :
    i <= j => d[<<rule, i, j>>] = Derive(d, words, env, rule, i, j)

(* Parse is the value of such a p, and what it reads goes on to later      *)
(* words.                                                                  *)
LEMMA ParserReads ==
  ASSUME NEW words, Len(words) \in Nat, NEW env
  PROVE  \E p : Reads(p, words, env) /\ Parse(words, env) = p[<<"or", 1>>]
<1>1. PICK p : Parses(p, Spots(words), words, env) /\ Parse(words, env) = p[<<"or", 1>>]
  BY ParseParses
<1>2. ASSUME NEW rule \in Nonterminals, NEW i \in 1 .. Len(words) + 1
      PROVE  p[<<rule, i>>] = Descend(p, words, env, rule, i)
  <2>1. <<rule, i>> \in Spots(words) /\ <<rule, i>>[1] = rule /\ <<rule, i>>[2] = i
    BY DEF Spots
  <2> QED
    BY <1>1, <2>1 DEF Parses
<1> DEFINE P == {s \in Spots(words) : Advances(p[s], words, s[2])}
<1>3. ASSUME NEW rule \in Nonterminals, NEW i \in 1 .. Len(words) + 1,
             \A called \in Nonterminals, j \in 1 .. Len(words) + 1 :
               Cost(words, called, j) < Cost(words, rule, i) => <<called, j>> \in P
      PROVE  <<rule, i>> \in P
  <2>1. AdvancesBelow(p, words, Cost(words, rule, i))
        /\ AgreeBelow(p, p, words, Cost(words, rule, i))
    BY <1>3 DEF AdvancesBelow, AgreeBelow
  <2>2. Advances(Descend(p, words, env, rule, i), words, i)
    BY <2>1, DescendAdvances
  <2> QED
    BY <1>2, <2>2 DEF Spots
<1>4. \A rule \in Nonterminals, i \in 1 .. Len(words) + 1 : <<rule, i>> \in P
  <2> HIDE DEF P
  <2> QED
    BY <1>3, SpotInduction
<1> QED
  BY <1>1, <1>2, <1>4 DEF Reads

(* Derivations is the value of such a d.                                   *)
LEMMA DerivesRules ==
  ASSUME NEW words, Len(words) \in Nat, NEW env
  PROVE  \E d : /\ Rules(d, words, env)
                /\ words # <<>> => Derivations(words, env) = d[<<"or", 1, Len(words)>>]
<1>1. PICK d : /\ Derives(d, Spans(words), words, env)
               /\ words # <<>> => Derivations(words, env) = d[<<"or", 1, Len(words)>>]
  BY GrammarDerives
<1>2. ASSUME NEW rule \in Nonterminals, NEW i \in 1 .. Len(words), NEW j \in 1 .. Len(words),
             i <= j
      PROVE  d[<<rule, i, j>>] = Derive(d, words, env, rule, i, j)
  <2>1. <<rule, i, j>> \in Spans(words) /\ <<rule, i, j>>[1] = rule
        /\ <<rule, i, j>>[2] = i /\ <<rule, i, j>>[3] = j
    BY <1>2 DEF Spans
  <2> QED
    BY <1>1, <2>1 DEF Derives
<1> QED
  BY <1>1, <1>2 DEF Rules

(* The rules one by one.  What the chain of a rule joins its operands to.  *)
Joint(rule, x, y) == IF rule = "or" THEN x \/ y ELSE x /\ y

(* m joins a meaning of L and one of R.                                    *)
Joins(rule, L, R, m) ==
  \E x \in L, y \in R :
    x.typ = "bool" /\ y.typ = "bool" /\ m = Meaning("bool", Joint(rule, x.val, y.val))

(* A chain is an operand, or a chain, its operator and an operand.         *)
LEMMA Chains ==
  ASSUME NEW words, Len(words) \in Nat, NEW env, NEW d, Rules(d, words, env),
         NEW rule \in {"or", "and"},
         NEW i \in 1 .. Len(words), NEW j \in 1 .. Len(words), i <= j, NEW m
  PROVE  m \in d[<<rule, i, j>>] <=>
           \/ m \in d[<<Operand(rule), i, j>>]
           \/ \E k \in Splits(words, {ChainOp(rule)}, i, j) :
                Joins(rule, d[<<rule, i, k - 1>>], d[<<Operand(rule), k + 1, j>>], m)
<1>1. CASE rule = "or"
  <2>1. Operand(rule) = "and" /\ ChainOp(rule) = "||"
    BY <1>1 DEF Operand, ChainOp
  <2>2. \A x, y : Joint(rule, x, y) = (x \/ y)
    BY <1>1 DEF Joint
  <2>3. \A L, R : m \in Either(L, R) <=>
          \E x \in L, y \in R : x.typ = "bool" /\ y.typ = "bool" /\ m = Meaning("bool", x.val \/ y.val)
    BY DEF Either, Bools
  <2>4. d[<<"or", i, j>>] = d[<<"and", i, j>>] \cup
         UNION {Either(d[<<"or", i, k - 1>>], d[<<"and", k + 1, j>>])
                  : k \in Splits(words, {"||"}, i, j)}
    BY <1>1 DEF Rules, Derive, Nonterminals
  <2>5. m \in d[<<rule, i, j>>] <=>
          \/ m \in d[<<Operand(rule), i, j>>]
          \/ \E k \in Splits(words, {ChainOp(rule)}, i, j) :
               m \in Either(d[<<rule, i, k - 1>>], d[<<Operand(rule), k + 1, j>>])
    BY <1>1, <2>1, <2>4
  <2>6. \A L, R : m \in Either(L, R) <=> Joins(rule, L, R, m)
    BY <2>2, <2>3 DEF Joins
  <2> QED
    BY <2>5, <2>6
<1>2. CASE rule = "and"
  <2>1. Operand(rule) = "not" /\ ChainOp(rule) = "&&"
    BY <1>2 DEF Operand, ChainOp
  <2>2. \A x, y : Joint(rule, x, y) = (x /\ y)
    BY <1>2 DEF Joint
  <2>3. \A L, R : m \in Both(L, R) <=>
          \E x \in L, y \in R : x.typ = "bool" /\ y.typ = "bool" /\ m = Meaning("bool", x.val /\ y.val)
    BY DEF Both, Bools
  <2>4. d[<<"and", i, j>>] = d[<<"not", i, j>>] \cup
         UNION {Both(d[<<"and", i, k - 1>>], d[<<"not", k + 1, j>>])
                  : k \in Splits(words, {"&&"}, i, j)}
    BY <1>2 DEF Rules, Derive, Nonterminals
  <2>5. m \in d[<<rule, i, j>>] <=>
          \/ m \in d[<<Operand(rule), i, j>>]
          \/ \E k \in Splits(words, {ChainOp(rule)}, i, j) :
               m \in Both(d[<<rule, i, k - 1>>], d[<<Operand(rule), k + 1, j>>])
    BY <1>2, <2>1, <2>4
  <2>6. \A L, R : m \in Both(L, R) <=> Joins(rule, L, R, m)
    BY <2>2, <2>3 DEF Joins
  <2> QED
    BY <2>5, <2>6
<1> QED
  BY <1>1, <1>2

(* A negation is a comparison, or "!" and a negation.                      *)
LEMMA Negations ==
  ASSUME NEW words, Len(words) \in Nat, NEW env, NEW d, Rules(d, words, env),
         NEW i \in 1 .. Len(words), NEW j \in 1 .. Len(words), i <= j, NEW m
  PROVE  m \in d[<<"not", i, j>>] <=>
           \/ m \in d[<<"comparison", i, j>>]
           \/ /\ words[i] = "!" /\ i # j
              /\ \E x \in d[<<"not", i + 1, j>>] : x.typ = "bool" /\ m = Meaning("bool", ~x.val)
<1>1. d[<<"not", i, j>>] = d[<<"comparison", i, j>>] \cup
         (IF words[i] # "!" \/ i = j THEN {}
          ELSE {Meaning("bool", ~x.val) : x \in Bools(d[<<"not", i + 1, j>>])})
  BY DEF Rules, Derive, Nonterminals
<1> QED
  BY <1>1 DEF Bools

(* A comparison is a primary, or two of one type that is not boolean,      *)
(* compared.                                                               *)
LEMMA Comparisons ==
  ASSUME NEW words, Len(words) \in Nat, NEW env, NEW d, Rules(d, words, env),
         NEW i \in 1 .. Len(words), NEW j \in 1 .. Len(words), i <= j, NEW m
  PROVE  m \in d[<<"comparison", i, j>>] <=>
           \/ m \in d[<<"primary", i, j>>]
           \/ \E k \in Splits(words, CmpOps, i, j) :
              \E x \in d[<<"primary", i, k - 1>>], y \in d[<<"primary", k + 1, j>>] :
                x.typ = y.typ /\ x.typ # "bool"
                /\ m = Meaning("bool", Compare(words[k], x.val, y.val))
<1>1. d[<<"comparison", i, j>>] = d[<<"primary", i, j>>] \cup
         UNION {Compared(words[k], d[<<"primary", i, k - 1>>], d[<<"primary", k + 1, j>>])
                  : k \in Splits(words, CmpOps, i, j)}
  BY DEF Rules, Derive, Nonterminals
<1>2. ASSUME NEW op, NEW L, NEW R
      PROVE  m \in Compared(op, L, R) <=>
          \E x \in L, y \in R : x.typ = y.typ /\ x.typ # "bool"
                                /\ m = Meaning("bool", Compare(op, x.val, y.val))
  <2>1. ASSUME m \in Compared(op, L, R)
        PROVE  \E x \in L, y \in R : /\ x.typ = y.typ /\ x.typ # "bool"
                                     /\ m = Meaning("bool", Compare(op, x.val, y.val))
    <3>1. PICK c \in L \X R : /\ c[1].typ = c[2].typ /\ c[1].typ # "bool"
                              /\ m = Meaning("bool", Compare(op, c[1].val, c[2].val))
      BY <2>1 DEF Compared
    <3>2. c[1] \in L /\ c[2] \in R
      OBVIOUS
    <3> QED
      BY <3>1, <3>2
  <2>2. ASSUME NEW x \in L, NEW y \in R, x.typ = y.typ, x.typ # "bool",
               m = Meaning("bool", Compare(op, x.val, y.val))
        PROVE  m \in Compared(op, L, R)
    <3> DEFINE c == <<x, y>>
    <3>1. c \in L \X R /\ c[1] = x /\ c[2] = y
      OBVIOUS
    <3> HIDE DEF c
    <3>2. c \in {b \in L \X R : b[1].typ = b[2].typ /\ b[1].typ # "bool"}
      BY <2>2, <3>1
    <3> QED
      BY <2>2, <3>1, <3>2 DEF Compared
  <2> QED
    BY <2>1, <2>2
<1> QED
  BY <1>1, <1>2

(* A primary is a leaf, or what is between parentheses.                    *)
LEMMA Primaries ==
  ASSUME NEW words, Len(words) \in Nat, NEW env, NEW d, Rules(d, words, env),
         NEW i \in 1 .. Len(words), NEW j \in 1 .. Len(words), i <= j, NEW m
  PROVE  m \in d[<<"primary", i, j>>] <=>
           \/ /\ i = j /\ Leaf(words[i], env, 0).ok
              /\ m = Meaning(Leaf(words[i], env, 0).typ, Leaf(words[i], env, 0).val)
           \/ /\ words[i] = "(" /\ words[j] = ")" /\ j > i + 1
              /\ m \in d[<<"or", i + 1, j - 1>>]
<1>1. d[<<"primary", i, j>>] =
         IF i = j
         THEN {Meaning(x.typ, x.val) : x \in {x \in {Leaf(words[i], env, 0)} : x.ok}}
         ELSE IF words[i] = "(" /\ words[j] = ")" /\ j > i + 1
              THEN d[<<"or", i + 1, j - 1>>] ELSE {}
  BY DEF Rules, Derive, Nonterminals
<1> QED
  BY <1>1

(* What the rules make, one way at a time: of one rule further down, ...   *)
LEMMA Included ==
  ASSUME NEW words, Len(words) \in Nat, NEW env, NEW d, Rules(d, words, env),
         NEW i \in 1 .. Len(words), NEW j \in 1 .. Len(words), i <= j
  PROVE  /\ \A rule \in {"or", "and"} : d[<<Operand(rule), i, j>>] \subseteq d[<<rule, i, j>>]
         /\ d[<<"comparison", i, j>>] \subseteq d[<<"not", i, j>>]
         /\ d[<<"primary", i, j>>] \subseteq d[<<"comparison", i, j>>]
<1>1. \A rule \in {"or", "and"} : \A m : m \in d[<<Operand(rule), i, j>>] => m \in d[<<rule, i, j>>]
  BY Chains
<1>2. \A m : m \in d[<<"comparison", i, j>>] => m \in d[<<"not", i, j>>]
  BY Negations
<1>3. \A m : m \in d[<<"primary", i, j>>] => m \in d[<<"comparison", i, j>>]
  BY Comparisons
<1> QED
  BY <1>1, <1>2, <1>3

(* ... of the two sides of an operator, ...                                *)
LEMMA ChainMade ==
  ASSUME NEW words, Len(words) \in Nat, NEW env, NEW d, Rules(d, words, env),
         NEW rule \in {"or", "and"},
         NEW i \in 1 .. Len(words), NEW j \in 1 .. Len(words),
         NEW k \in Splits(words, {ChainOp(rule)}, i, j), NEW m,
         Joins(rule, d[<<rule, i, k - 1>>], d[<<Operand(rule), k + 1, j>>], m)
  PROVE  m \in d[<<rule, i, j>>]
<1>1. i <= j
  BY SplitsShorten
<1> QED
  BY <1>1, Chains

(* ... and of two that are compared.                                       *)
LEMMA ComparisonMade ==
  ASSUME NEW words, Len(words) \in Nat, NEW env, NEW d, Rules(d, words, env),
         NEW i \in 1 .. Len(words), NEW j \in 1 .. Len(words),
         NEW k \in Splits(words, CmpOps, i, j),
         NEW x \in d[<<"primary", i, k - 1>>], NEW y \in d[<<"primary", k + 1, j>>],
         x.typ = y.typ, x.typ # "bool"
  PROVE  Meaning("bool", Compare(words[k], x.val, y.val)) \in d[<<"comparison", i, j>>]
<1> DEFINE m == Meaning("bool", Compare(words[k], x.val, y.val))
<1>1. i <= j
  BY SplitsShorten
<1>2. m = Meaning("bool", Compare(words[k], x.val, y.val))
  OBVIOUS
<1> HIDE DEF m
<1>3. m \in d[<<"comparison", i, j>>]
  BY <1>1, <1>2, Comparisons
<1> QED
  BY <1>3 DEF m

(* ... and after a "!".                                                    *)
LEMMA NegationMade ==
  ASSUME NEW words, Len(words) \in Nat, NEW env, NEW d, Rules(d, words, env),
         NEW i \in 1 .. Len(words), NEW j \in 1 .. Len(words), i < j, words[i] = "!",
         NEW x \in d[<<"not", i + 1, j>>], x.typ = "bool"
  PROVE  Meaning("bool", ~x.val) \in d[<<"not", i, j>>]
<1> DEFINE m == Meaning("bool", ~x.val)
<1>1. i <= j /\ i # j
  OBVIOUS
<1>2. m = Meaning("bool", ~x.val)
  OBVIOUS
<1> HIDE DEF m
<1>3. m \in d[<<"not", i, j>>]
  BY <1>1, <1>2, Negations
<1> QED
  BY <1>3 DEF m

(* A word is what the leaf it stands for is.                               *)
LEMMA LeafMade ==
  ASSUME NEW words, Len(words) \in Nat, NEW env, NEW d, Rules(d, words, env),
         NEW i \in 1 .. Len(words), Leaf(words[i], env, 0).ok
  PROVE  Meaning(Leaf(words[i], env, 0).typ, Leaf(words[i], env, 0).val)
           \in d[<<"primary", i, i>>]
<1>1. d[<<"primary", i, i>>] = Derive(d, words, env, "primary", i, i)
  BY DEF Rules, Nonterminals
<1>2. d[<<"primary", i, i>>]
        = {Meaning(x.typ, x.val) : x \in {x \in {Leaf(words[i], env, 0)} : x.ok}}
  BY <1>1 DEF Derive
<1> QED
  BY <1>2

-----------------------------------------------------------------------------
(* What the parser accepts, the grammar has.                               *)

(* A leaf is the same wherever it ends; parentheses, negations and words   *)
(* that do not lex are none.                                               *)
LEMMA LeavesRead ==
  ASSUME NEW word, NEW env, NEW a, NEW b
  PROVE  /\ Leaf(word, env, a).ok <=> Leaf(word, env, b).ok
         /\ Leaf(word, env, a).typ = Leaf(word, env, b).typ
         /\ Leaf(word, env, a).val = Leaf(word, env, b).val
         /\ Leaf(word, env, a).ok => word \notin {"(", "!"} \cup BadWords
<1>1. DOMAIN IntWords = {"0", "1", "2"} /\ DOMAIN StrWords = {"'a'", "'b'"}
  BY DEF IntWords, StrWords
<1>2. \A typ, refs, val, n : /\ Node(typ, refs, val, n).ok = TRUE
                             /\ Node(typ, refs, val, n).typ = typ
                             /\ Node(typ, refs, val, n).val = val
  BY DEF Node
<1>3. Error.ok = FALSE
  BY DEF Error
<1> DEFINE Leaves == {"true", "false"} \cup {"0", "1", "2"} \cup {"'a'", "'b'"} \cup Vars
<1>4. CASE word \in Leaves
  <2>1. word \notin {"(", "!"} \cup BadWords
    BY <1>4 DEF Vars, NumericVars, BadWords
  <2>2. CASE word \in {"true", "false"}
    <3>1. \A n : Leaf(word, env, n) = Node("bool", {}, word = "true", n)
      BY <1>1, <2>2 DEF Leaf, NumericVars, Vars
    <3> QED
      BY <1>2, <2>1, <3>1
  <2>3. CASE word \in {"0", "1", "2"}
    <3>1. \A n : Leaf(word, env, n) = Node("int", {}, IntWords[word], n)
      BY <1>1, <2>3 DEF Leaf, NumericVars, Vars
    <3> QED
      BY <1>2, <2>1, <3>1
  <2>4. CASE word \in {"'a'", "'b'"}
    <3>1. \A n : Leaf(word, env, n) = Node("str", {}, StrWords[word], n)
      BY <1>1, <2>4 DEF Leaf, NumericVars, Vars
    <3> QED
      BY <1>2, <2>1, <3>1
  <2>5. CASE word \in NumericVars
    <3>1. \A n : Leaf(word, env, n) = Node("int", {word}, env[word], n)
      BY <1>1, <2>5 DEF Leaf, NumericVars
    <3> QED
      BY <1>2, <2>1, <3>1
  <2>6. CASE word \in Vars \ NumericVars
    <3>1. \A n : Leaf(word, env, n) = Node("str", {word}, env[word], n)
      BY <1>1, <2>6 DEF Leaf, NumericVars, Vars
    <3> QED
      BY <1>2, <2>1, <3>1
  <2> QED
    BY <1>4, <2>2, <2>3, <2>4, <2>5, <2>6
<1>5. CASE word \notin Leaves
  <2>1. \A n : Leaf(word, env, n) = Error
    BY <1>1, <1>5 DEF Leaf, Vars
  <2> QED
    BY <1>3, <2>1
<1> QED
  BY <1>4, <1>5

(* The chains of the grammar associate to the left; an operand before a    *)
(* chain makes a longer one all the same.                                  *)
LEMMA ChainsAssociate ==
  ASSUME NEW words, Len(words) \in Nat, NEW env, NEW d, Rules(d, words, env),
         NEW rule \in {"or", "and"}
  PROVE  \A i, k, j \in 1 .. Len(words) :
           i < k /\ k < j /\ words[k] = ChainOp(rule) =>
             \A x \in d[<<Operand(rule), i, k - 1>>], y \in d[<<rule, k + 1, j>>] :
               x.typ = "bool" /\ y.typ = "bool" =>
                 Meaning("bool", Joint(rule, x.val, y.val)) \in d[<<rule, i, j>>]
<1> DEFINE Good(i, k, j) ==
             i < k /\ k < j /\ words[k] = ChainOp(rule) =>
               \A x \in d[<<Operand(rule), i, k - 1>>], y \in d[<<rule, k + 1, j>>] :
                 x.typ = "bool" /\ y.typ = "bool" =>
                   Meaning("bool", Joint(rule, x.val, y.val)) \in d[<<rule, i, j>>]
           Q == {n \in Nat : \A i, k, j \in 1 .. Len(words) : j - k < n => Good(i, k, j)}
<1>1. 0 \in Q
  OBVIOUS
<1>2. ASSUME NEW n \in Nat, n \in Q PROVE n + 1 \in Q
  <2>1. ASSUME NEW i \in 1 .. Len(words), NEW k \in 1 .. Len(words), NEW j \in 1 .. Len(words),
               j - k < n + 1, i < k, k < j, words[k] = ChainOp(rule),
               NEW x \in d[<<Operand(rule), i, k - 1>>], NEW y \in d[<<rule, k + 1, j>>],
               x.typ = "bool", y.typ = "bool"
        PROVE  Meaning("bool", Joint(rule, x.val, y.val)) \in d[<<rule, i, j>>]
    <3>1. k \in Splits(words, {ChainOp(rule)}, i, j)
      BY <2>1 DEF Splits
    <3>2. k - 1 \in 1 .. Len(words) /\ i <= k - 1 /\ k + 1 \in 1 .. Len(words) /\ k + 1 <= j
          /\ i <= j
      BY <2>1
    <3>3. x \in d[<<rule, i, k - 1>>]
      BY <3>2, Included
    <3>4. CASE y \in d[<<Operand(rule), k + 1, j>>]
      <4>1. Joins(rule, d[<<rule, i, k - 1>>], d[<<Operand(rule), k + 1, j>>],
                  Meaning("bool", Joint(rule, x.val, y.val)))
        BY <2>1, <3>3, <3>4 DEF Joins
      <4> QED
        BY <3>1, <4>1, ChainMade
    <3>5. ASSUME NEW l \in Splits(words, {ChainOp(rule)}, k + 1, j),
                 Joins(rule, d[<<rule, k + 1, l - 1>>], d[<<Operand(rule), l + 1, j>>], y)
          PROVE  Meaning("bool", Joint(rule, x.val, y.val)) \in d[<<rule, i, j>>]
      <4>1. l \in k + 2 .. j - 1 /\ words[l] = ChainOp(rule)
        BY <3>5 DEF Splits
      <4>2. PICK a \in d[<<rule, k + 1, l - 1>>], b \in d[<<Operand(rule), l + 1, j>>] :
              a.typ = "bool" /\ b.typ = "bool" /\ y = Meaning("bool", Joint(rule, a.val, b.val))
        BY <3>5 DEF Joins
      <4> DEFINE c == Meaning("bool", Joint(rule, x.val, a.val))
      <4>3. l - 1 \in 1 .. Len(words) /\ l - 1 - k < n /\ k < l - 1
        <5>1. l \in Int /\ k + 2 <= l /\ l <= j - 1
          BY <4>1
        <5>2. \A a1, b1, c1, e1 \in Int : /\ a1 - b1 < n + 1 /\ 0 < b1 /\ a1 <= c1
                                          /\ b1 + 2 <= e1 /\ e1 <= a1 - 1
                                          => e1 - 1 \in 1 .. c1 /\ e1 - 1 - b1 < n /\ b1 < e1 - 1
          OBVIOUS
        <5>3. j \in Int /\ k \in Int /\ 0 < k /\ j <= Len(words) /\ j - k < n + 1
          BY <2>1
        <5> QED
          BY <5>1, <5>2, <5>3
      <4>4. Good(i, k, l - 1)
        BY <1>2, <4>3
      <4>5. c \in d[<<rule, i, l - 1>>]
        BY <2>1, <4>2, <4>3, <4>4
      <4>6. c.typ = "bool" /\ c.val = Joint(rule, x.val, a.val)
        BY DEF Meaning
      <4>7. y.val = Joint(rule, a.val, b.val)
        BY <4>2 DEF Meaning
      <4>8. Joint(rule, x.val, y.val) = Joint(rule, c.val, b.val)
        BY <4>6, <4>7 DEF Joint
      <4> HIDE DEF c
      <4>9. Joins(rule, d[<<rule, i, l - 1>>], d[<<Operand(rule), l + 1, j>>],
                  Meaning("bool", Joint(rule, x.val, y.val)))
        BY <4>2, <4>5, <4>6, <4>8 DEF Joins
      <4>10. l \in Splits(words, {ChainOp(rule)}, i, j)
        BY <2>1, <4>1 DEF Splits
      <4> QED
        BY <4>9, <4>10, ChainMade
    <3>6. y \in d[<<Operand(rule), k + 1, j>>]
          \/ \E l \in Splits(words, {ChainOp(rule)}, k + 1, j) :
               Joins(rule, d[<<rule, k + 1, l - 1>>], d[<<Operand(rule), l + 1, j>>], y)
      BY <2>1, <3>2, Chains
    <3> QED
      BY <3>4, <3>5, <3>6
  <2> QED
    BY <2>1
<1>3. Nat \subseteq Q
  <2>1. \A n \in Nat : n \in Q => n + 1 \in Q
    BY <1>2
  <2> HIDE DEF Q
  <2> QED
    BY <1>1, <2>1, NumberInduction
<1>4. ASSUME NEW i \in 1 .. Len(words), NEW k \in 1 .. Len(words), NEW j \in 1 .. Len(words)
      PROVE  Good(i, k, j)
  <2> HIDE DEF Good
  <2>1. CASE k < j
    <3>1. j - k + 1 \in Nat /\ j - k < j - k + 1
      BY <2>1
    <3>2. j - k + 1 \in Q
      BY <1>3, <3>1
    <3> QED
      BY <3>1, <3>2
  <2>2. CASE ~ (k < j)
    BY <2>2 DEF Good
  <2> QED
    BY <2>1, <2>2
<1> QED
  BY <1>4

(* What the parser makes of the words from i on is one of the meanings the *)
(* grammar gives to the span it takes.                                     *)
Has(p, d, rule, i) ==
  LET x == p[<<rule, i>>] IN x.ok => Meaning(x.typ, x.val) \in d[<<rule, i, x.next - 1>>]

(* It is, whatever the rule and wherever it starts.                        *)
LEMMA ParserSound ==
  ASSUME NEW words, Len(words) \in Nat, NEW env,
         NEW p, Reads(p, words, env), NEW d, Rules(d, words, env)
  PROVE  \A rule \in Nonterminals, i \in 1 .. Len(words) + 1 : Has(p, d, rule, i)
<1> DEFINE P == {s \in Spots(words) : Has(p, d, s[1], s[2])}
<1>0. {"or", "and", "not", "comparison", "primary"} = Nonterminals
  BY DEF Nonterminals
<1>1. ASSUME NEW rule \in Nonterminals, NEW i \in 1 .. Len(words) + 1,
             \A called \in Nonterminals, j \in 1 .. Len(words) + 1 :
               Cost(words, called, j) < Cost(words, rule, i) => <<called, j>> \in P
      PROVE  <<rule, i>> \in P
  <2> DEFINE here == p[<<rule, i>>]
  <2>1. \A called \in Nonterminals, j \in 1 .. Len(words) + 1 :
          Cost(words, called, j) < Cost(words, rule, i) => Has(p, d, called, j)
    BY <1>1
  <2>2. \A called \in Nonterminals, j \in i + 1 .. Len(words) + 1 : Has(p, d, called, j)
    BY <2>1, LaterIsCheaper
  <2>3. /\ here = Descend(p, words, env, rule, i)
        /\ here.ok => here.next \in i + 1 .. Len(words) + 1
    BY DEF Reads, Advances
  <2>4. \A called \in Nonterminals, j \in 1 .. Len(words) + 1 :
          p[<<called, j>>].ok => p[<<called, j>>].next \in j + 1 .. Len(words) + 1
    BY DEF Reads, Advances
  <2> SUFFICES ASSUME here.ok
               PROVE  Meaning(here.typ, here.val) \in d[<<rule, i, here.next - 1>>]
    BY DEF Has, Spots
  <2> DEFINE j == here.next - 1
  <2>5. j \in 1 .. Len(words) /\ i <= j /\ i \in 1 .. Len(words)
    BY <2>3
  <2> HIDE DEF P
  <2>6. CASE rule \in {"or", "and"}
    <3> DEFINE l == p[<<Operand(rule), i>>]
               r == p[<<rule, l.next + 1>>]
    <3>1. Operand(rule) \in Nonterminals /\ Cost(words, Operand(rule), i) < Cost(words, rule, i)
      BY <2>6, LowerIsCheaper DEF Operand, Nonterminals
    <3>2. l.ok => Meaning(l.typ, l.val) \in d[<<Operand(rule), i, l.next - 1>>]
      BY <2>1, <3>1 DEF Has
    <3>3. here = IF l.ok /\ Word(words, l.next) = ChainOp(rule)
                 THEN Logic(ChainOp(rule), l, r) ELSE l
      BY <2>3, <2>6 DEF Descend
    <3>4. l.ok => l.next \in i + 1 .. Len(words) + 1
      BY <2>4, <3>1
    <3> HIDE DEF l, here
    <3>5. CASE l.ok /\ Word(words, l.next) = ChainOp(rule)
      <4>1. ChainOp(rule) # "eof"
        BY DEF ChainOp
      <4>2. l.next \in i + 1 .. Len(words) /\ words[l.next] = ChainOp(rule)
        BY <3>4, <3>5, <4>1, WordFound DEF Word
      <4>3. l.next + 1 \in i + 1 .. Len(words) + 1 /\ l.next + 1 \in 1 .. Len(words) + 1
        BY <4>2
      <4>4. r.ok => /\ Meaning(r.typ, r.val) \in d[<<rule, l.next + 1, r.next - 1>>]
                    /\ r.next \in l.next + 2 .. Len(words) + 1
        <5>1. Has(p, d, rule, l.next + 1)
          BY <2>2, <4>3
        <5>2. r.ok => r.next \in l.next + 1 + 1 .. Len(words) + 1
          BY <2>4, <4>3
        <5>3. l.next + 1 + 1 = l.next + 2
          BY <4>2
        <5> QED
          BY <5>1, <5>2, <5>3 DEF Has
      <4> HIDE DEF r
      <4>5. here = Logic(ChainOp(rule), l, r)
        BY <3>3, <3>5
      <4>6. r.ok /\ l.typ = "bool" /\ r.typ = "bool"
        BY <4>5 DEF Logic, Error, here
      <4>7. /\ here.typ = "bool" /\ here.next = r.next
            /\ here.val = Joint(rule, l.val, r.val)
        <5>1. here = Node("bool", l.refs \cup r.refs,
                          IF ChainOp(rule) = "&&" THEN l.val /\ r.val ELSE l.val \/ r.val, r.next)
          BY <4>5, <4>6 DEF Logic
        <5>2. Joint(rule, l.val, r.val) = IF ChainOp(rule) = "&&" THEN l.val /\ r.val ELSE l.val \/ r.val
          BY <2>6 DEF Joint, ChainOp
        <5> QED
          BY <5>1, <5>2 DEF Node
      <4> DEFINE a == Meaning(l.typ, l.val)
                 b == Meaning(r.typ, r.val)
      <4>8. a.typ = "bool" /\ a.val = l.val /\ b.typ = "bool" /\ b.val = r.val
        BY <4>6 DEF Meaning
      <4>9. a \in d[<<Operand(rule), i, l.next - 1>>] /\ b \in d[<<rule, l.next + 1, r.next - 1>>]
        BY <3>2, <3>5, <4>4, <4>6
      <4> HIDE DEF a, b
      <4>10. l.next \in 1 .. Len(words) /\ r.next - 1 \in 1 .. Len(words)
             /\ i < l.next /\ l.next < r.next - 1
        BY <4>2, <4>4, <4>6
      <4>11. Meaning("bool", Joint(rule, a.val, b.val)) \in d[<<rule, i, r.next - 1>>]
        BY <2>5, <2>6, <4>2, <4>8, <4>9, <4>10, ChainsAssociate
      <4> QED
        BY <4>7, <4>8, <4>11
    <3>6. CASE ~ (l.ok /\ Word(words, l.next) = ChainOp(rule))
      <4>1. here = l
        BY <3>3, <3>6
      <4>2. Meaning(here.typ, here.val) \in d[<<Operand(rule), i, j>>]
        BY <3>2, <4>1 DEF here
      <4> HIDE DEF j
      <4>3. Meaning(here.typ, here.val) \in d[<<rule, i, j>>]
        BY <2>5, <2>6, <4>2, Included
      <4> QED
        BY <4>3 DEF j
    <3> QED
      BY <3>5, <3>6
  <2>7. CASE rule = "not"
    <3>1. CASE Word(words, i) = "!"
      <4> DEFINE x == p[<<"not", i + 1>>]
      <4>1. here = Negation(x)
        BY <2>3, <2>7, <3>1 DEF Descend
      <4>2. i + 1 \in i + 1 .. Len(words) + 1 /\ i + 1 \in 1 .. Len(words) + 1
        BY <3>1, WordFound
      <4>3. x.ok => /\ Meaning(x.typ, x.val) \in d[<<"not", i + 1, x.next - 1>>]
                    /\ x.next \in i + 2 .. Len(words) + 1
        BY <1>0, <2>2, <2>4, <4>2 DEF Has
      <4> HIDE DEF x, here
      <4>4. x.ok /\ x.typ = "bool" /\ here.typ = "bool" /\ here.val = ~x.val /\ here.next = x.next
        <5>1. here.ok
          BY DEF here
        <5>2. x.ok /\ x.typ = "bool"
          BY <4>1, <5>1 DEF Negation, Error
        <5> QED
          BY <4>1, <5>2 DEF Negation, Node
      <4> DEFINE a == Meaning(x.typ, x.val)
      <4>5. a.typ = "bool" /\ a.val = x.val
        BY <4>4 DEF Meaning
      <4>6. a \in d[<<"not", i + 1, j>>] /\ i # j
        BY <4>3, <4>4
      <4>7. words[i] = "!"
        BY <2>5, <3>1 DEF Word
      <4>9. a.typ = "bool" /\ i < j
        BY <2>5, <4>5, <4>6
      <4> HIDE DEF a, j
      <4>8. Meaning("bool", ~a.val) \in d[<<"not", i, j>>]
        BY <2>5, <4>5, <4>6, <4>7, <4>9, NegationMade
      <4> QED
        BY <2>7, <4>4, <4>5, <4>8 DEF j
    <3>2. CASE Word(words, i) # "!"
      <4>1. here = p[<<"comparison", i>>]
        BY <2>3, <2>7, <3>2 DEF Descend
      <4>2. Has(p, d, "comparison", i)
        BY <1>0, <2>1, <2>7, LowerIsCheaper
      <4>3. Meaning(here.typ, here.val) \in d[<<"comparison", i, j>>]
        BY <4>1, <4>2 DEF Has
      <4> HIDE DEF here, j
      <4>4. Meaning(here.typ, here.val) \in d[<<"not", i, j>>]
        BY <2>5, <4>3, Included
      <4> QED
        BY <2>7, <4>4 DEF j
    <3> QED
      BY <3>1, <3>2
  <2>8. CASE rule = "comparison"
    <3> DEFINE l == p[<<"primary", i>>]
               r == p[<<"primary", l.next + 1>>]
    <3>1. Has(p, d, "primary", i)
      BY <1>0, <2>1, <2>8, LowerIsCheaper
    <3>2. l.ok => Meaning(l.typ, l.val) \in d[<<"primary", i, l.next - 1>>]
      BY <3>1 DEF Has
    <3>3. here = IF l.ok /\ Word(words, l.next) \in CmpOps
                 THEN Comparison(Word(words, l.next), l, r) ELSE l
      BY <2>3, <2>8 DEF Descend
    <3>4. l.ok => l.next \in i + 1 .. Len(words) + 1
      BY <1>0, <2>4
    <3> HIDE DEF l, here
    <3>5. CASE l.ok /\ Word(words, l.next) \in CmpOps
      <4>1. "eof" \notin CmpOps
        BY DEF CmpOps
      <4>2. l.next \in i + 1 .. Len(words) /\ words[l.next] = Word(words, l.next)
        BY <3>4, <3>5, <4>1, WordFound DEF Word
      <4>3. l.next + 1 \in i + 1 .. Len(words) + 1 /\ l.next + 1 \in 1 .. Len(words) + 1
        BY <4>2
      <4>4. r.ok => /\ Meaning(r.typ, r.val) \in d[<<"primary", l.next + 1, r.next - 1>>]
                    /\ r.next \in l.next + 2 .. Len(words) + 1
        <5>1. Has(p, d, "primary", l.next + 1)
          BY <1>0, <2>2, <4>3
        <5>2. r.ok => r.next \in l.next + 1 + 1 .. Len(words) + 1
          BY <1>0, <2>4, <4>3
        <5>3. l.next + 1 + 1 = l.next + 2
          BY <4>2
        <5> QED
          BY <5>1, <5>2, <5>3 DEF Has
      <4> HIDE DEF r
      <4>5. here = Comparison(words[l.next], l, r)
        BY <3>3, <3>5, <4>2
      <4>6. r.ok /\ l.typ = r.typ /\ l.typ # "bool"
        BY <4>5 DEF Comparison, Error, here
      <4>7. /\ here.typ = "bool" /\ here.next = r.next
            /\ here.val = Compare(words[l.next], l.val, r.val)
        BY <4>5, <4>6 DEF Comparison, Node
      <4> DEFINE a == Meaning(l.typ, l.val)
                 b == Meaning(r.typ, r.val)
                 k == l.next
      <4>8. a.typ = l.typ /\ a.val = l.val /\ b.typ = r.typ /\ b.val = r.val
        BY DEF Meaning
      <4>9. a \in d[<<"primary", i, k - 1>>] /\ b \in d[<<"primary", k + 1, j>>]
        BY <3>2, <3>5, <4>4, <4>6, <4>7
      <4>10. k \in Splits(words, CmpOps, i, j)
        BY <3>5, <4>2, <4>4, <4>6, <4>7 DEF Splits
      <4> HIDE DEF a, b, j, k
      <4>11. Meaning("bool", Compare(words[k], a.val, b.val)) \in d[<<"comparison", i, j>>]
        BY <2>5, <4>6, <4>8, <4>9, <4>10, ComparisonMade
      <4> QED
        BY <2>8, <4>7, <4>8, <4>11 DEF j, k
    <3>6. CASE ~ (l.ok /\ Word(words, l.next) \in CmpOps)
      <4>1. here = l
        BY <3>3, <3>6
      <4>2. Meaning(here.typ, here.val) \in d[<<"primary", i, j>>]
        BY <3>2, <4>1 DEF here
      <4> HIDE DEF j
      <4>3. Meaning(here.typ, here.val) \in d[<<"comparison", i, j>>]
        BY <2>5, <4>2, Included
      <4> QED
        BY <2>8, <4>3 DEF j
    <3> QED
      BY <3>5, <3>6
  <2>9. CASE rule = "primary"
    <3>1. CASE Word(words, i) # "("
      <4>1. here = Leaf(words[i], env, i + 1)
        BY <2>3, <2>5, <2>9, <3>1 DEF Descend, Word
      <4>2. here.next = i + 1
        BY <4>1, LeafEnds
      <4>3. Leaf(words[i], env, 0).ok /\ here.typ = Leaf(words[i], env, 0).typ
            /\ here.val = Leaf(words[i], env, 0).val
        BY <4>1, LeavesRead
      <4>4. j = i
        BY <4>2, <2>5
      <4> HIDE DEF here, j
      <4>5. Meaning(here.typ, here.val) \in d[<<"primary", i, i>>]
        BY <2>5, <4>3, LeafMade
      <4> QED
        BY <2>9, <4>4, <4>5 DEF j
    <3>2. CASE Word(words, i) = "("
      <4> DEFINE x == p[<<"or", i + 1>>]
      <4>1. here = IF x.ok /\ Word(words, x.next) = ")"
                   THEN Node(x.typ, x.refs, x.val, x.next + 1) ELSE Error
        BY <2>3, <2>9, <3>2 DEF Descend
      <4>2. i + 1 \in i + 1 .. Len(words) + 1 /\ i + 1 \in 1 .. Len(words) + 1
        BY <2>5
      <4>3. x.ok => /\ Meaning(x.typ, x.val) \in d[<<"or", i + 1, x.next - 1>>]
                    /\ x.next \in i + 2 .. Len(words) + 1
        BY <1>0, <2>2, <2>4, <4>2 DEF Has
      <4> HIDE DEF x, here
      <4>4. x.ok /\ Word(words, x.next) = ")"
        BY <4>1 DEF Error, here
      <4>5. here.typ = x.typ /\ here.val = x.val /\ here.next = x.next + 1
        BY <4>1, <4>4 DEF Node
      <4>6. x.next <= Len(words)
        BY <4>3, <4>4, WordFound
      <4>7. j = x.next /\ j > i + 1 /\ words[j] = ")" /\ words[i] = "("
        BY <2>5, <3>2, <4>3, <4>4, <4>5, <4>6 DEF Word
      <4>8. Meaning(here.typ, here.val) \in d[<<"or", i + 1, j - 1>>]
        BY <4>3, <4>4, <4>5, <4>7
      <4> HIDE DEF j
      <4>9. Meaning(here.typ, here.val) \in d[<<"primary", i, j>>]
        BY <2>5, <4>7, <4>8, Primaries
      <4> QED
        BY <2>9, <4>9 DEF j
    <3> QED
      BY <3>1, <3>2
  <2> QED
    BY <2>6, <2>7, <2>8, <2>9 DEF Nonterminals
<1>2. \A rule \in Nonterminals, i \in 1 .. Len(words) + 1 : <<rule, i>> \in P
  <2> HIDE DEF P
  <2> QED
    BY <1>1, SpotInduction
<1> QED
  BY <1>2

-----------------------------------------------------------------------------
(* What the grammar has is in words that lex, and its brackets match.      *)

(* A span that has a meaning lexes, ...                                    *)
Lexes(words, i, j) == \A k \in i .. j : words[k] \notin BadWords

(* ... as the rules only join spans that do.                               *)
LEMMA MeaningsLex ==
  ASSUME NEW words, Len(words) \in Nat, NEW env, NEW d, Rules(d, words, env)
  PROVE  \A rule \in Nonterminals, i, j \in 1 .. Len(words) :
           i <= j /\ d[<<rule, i, j>>] # {} => Lexes(words, i, j)
<1> DEFINE P == {s \in Spans(words) : d[s] # {} => Lexes(words, s[2], s[3])}
<1>0. {"or", "and", "not", "comparison", "primary"} = Nonterminals
  BY DEF Nonterminals
<1>1. ASSUME NEW rule \in Nonterminals,
             NEW i \in 1 .. Len(words), NEW j \in 1 .. Len(words), i <= j,
             \A called \in Nonterminals, a, b \in 1 .. Len(words) :
               a <= b /\ SpanCost(called, a, b) < SpanCost(rule, i, j) => <<called, a, b>> \in P
      PROVE  <<rule, i, j>> \in P
  <2>1. ASSUME NEW called \in Nonterminals, NEW a \in 1 .. Len(words), NEW b \in 1 .. Len(words),
               a <= b, SpanCost(called, a, b) < SpanCost(rule, i, j), d[<<called, a, b>>] # {}
        PROVE  Lexes(words, a, b)
    BY <1>1, <2>1
  <2>2. ASSUME NEW called \in Nonterminals, NEW a \in 1 .. Len(words), NEW b \in 1 .. Len(words),
               a <= b, b - a < j - i, d[<<called, a, b>>] # {}
        PROVE  Lexes(words, a, b)
    <3>1. 1 .. Len(words) \subseteq Nat
      OBVIOUS
    <3>2. SpanCost(called, a, b) < SpanCost(rule, i, j)
      BY <1>1, <2>2, <3>1, SpanCosts
    <3> QED
      BY <2>1, <2>2, <3>2
  <2> SUFFICES ASSUME NEW m \in d[<<rule, i, j>>] PROVE Lexes(words, i, j)
    BY <1>1 DEF Spans
  <2> HIDE DEF P
  <2>3. ASSUME NEW ops, NEW k \in Splits(words, ops, i, j), ops \cap BadWords = {},
               NEW left \in Nonterminals, NEW right \in Nonterminals,
               d[<<left, i, k - 1>>] # {}, d[<<right, k + 1, j>>] # {}
        PROVE  Lexes(words, i, j)
    <3>1. k \in i + 1 .. j - 1 /\ words[k] \notin BadWords
      BY <2>3 DEF Splits
    <3>2. Lexes(words, i, k - 1) /\ Lexes(words, k + 1, j)
      <4>1. k - 1 \in 1 .. Len(words) /\ i <= k - 1 /\ k - 1 - i < j - i
            /\ k + 1 \in 1 .. Len(words) /\ k + 1 <= j /\ j - (k + 1) < j - i
        BY SplitsShorten
      <4> QED
        BY <2>2, <2>3, <4>1
    <3>3. \A n \in i .. j : n \in i .. k - 1 \/ n = k \/ n \in k + 1 .. j
      BY <3>1
    <3> QED
      BY <3>1, <3>2, <3>3 DEF Lexes
  <2>4. CASE rule \in {"or", "and"}
    <3>1. Operand(rule) \in Nonterminals /\ SpanCost(Operand(rule), i, j) < SpanCost(rule, i, j)
      <4>1. i \in Nat /\ j \in Nat
        OBVIOUS
      <4> QED
        BY <1>1, <2>4, <4>1, LowerSpansCost DEF Operand, Nonterminals
    <3>2. CASE m \in d[<<Operand(rule), i, j>>]
      BY <1>1, <2>1, <3>1, <3>2
    <3>3. ASSUME NEW k \in Splits(words, {ChainOp(rule)}, i, j),
                 Joins(rule, d[<<rule, i, k - 1>>], d[<<Operand(rule), k + 1, j>>], m)
          PROVE  Lexes(words, i, j)
      <4>1. d[<<rule, i, k - 1>>] # {} /\ d[<<Operand(rule), k + 1, j>>] # {}
        BY <3>3 DEF Joins
      <4>2. {ChainOp(rule)} \cap BadWords = {}
        BY DEF ChainOp, BadWords
      <4> QED
        BY <2>3, <3>1, <4>1, <4>2
    <3> QED
      BY <1>1, <2>4, <3>2, <3>3, Chains
  <2>5. CASE rule = "not"
    <3>1. CASE m \in d[<<"comparison", i, j>>]
      <4>1. i \in Nat /\ j \in Nat
        OBVIOUS
      <4>2. SpanCost("comparison", i, j) < SpanCost(rule, i, j)
        BY <1>1, <2>5, <4>1, LowerSpansCost
      <4> QED
        BY <1>0, <1>1, <2>1, <3>1, <4>2
    <3>2. CASE words[i] = "!" /\ i # j /\ d[<<"not", i + 1, j>>] # {}
      <4>1. i + 1 \in 1 .. Len(words) /\ i + 1 <= j /\ j - (i + 1) < j - i
        BY <1>1, <3>2
      <4>2. Lexes(words, i + 1, j)
        BY <1>0, <2>2, <3>2, <4>1
      <4>3. \A n \in i .. j : n = i \/ n \in i + 1 .. j
        OBVIOUS
      <4>4. "!" \notin BadWords
        BY DEF BadWords
      <4> QED
        BY <3>2, <4>2, <4>3, <4>4 DEF Lexes
    <3> QED
      BY <1>1, <2>5, <3>1, <3>2, Negations
  <2>6. CASE rule = "comparison"
    <3>1. CASE m \in d[<<"primary", i, j>>]
      <4>1. i \in Nat /\ j \in Nat
        OBVIOUS
      <4>2. SpanCost("primary", i, j) < SpanCost(rule, i, j)
        BY <1>1, <2>6, <4>1, LowerSpansCost
      <4> QED
        BY <1>0, <1>1, <2>1, <3>1, <4>2
    <3>2. ASSUME NEW k \in Splits(words, CmpOps, i, j),
                 d[<<"primary", i, k - 1>>] # {}, d[<<"primary", k + 1, j>>] # {}
          PROVE  Lexes(words, i, j)
      <4>1. CmpOps \cap BadWords = {}
        BY DEF CmpOps, BadWords
      <4> QED
        BY <1>0, <2>3, <3>2, <4>1
    <3> QED
      BY <1>1, <2>6, <3>1, <3>2, Comparisons
  <2>7. CASE rule = "primary"
    <3>1. CASE i = j /\ Leaf(words[i], env, 0).ok
      <4>1. words[i] \notin BadWords
        BY <3>1, LeavesRead
      <4> QED
        BY <3>1, <4>1 DEF Lexes
    <3>2. CASE words[i] = "(" /\ words[j] = ")" /\ j > i + 1 /\ m \in d[<<"or", i + 1, j - 1>>]
      <4>1. i + 1 \in 1 .. Len(words) /\ j - 1 \in 1 .. Len(words) /\ i + 1 <= j - 1
            /\ j - 1 - (i + 1) < j - i
        BY <3>2
      <4>2. Lexes(words, i + 1, j - 1)
        BY <1>0, <2>2, <3>2, <4>1
      <4>3. \A n \in i .. j : n = i \/ n = j \/ n \in i + 1 .. j - 1
        OBVIOUS
      <4>4. "(" \notin BadWords /\ ")" \notin BadWords
        BY DEF BadWords
      <4> QED
        BY <3>2, <4>2, <4>3, <4>4 DEF Lexes
    <3> QED
      BY <1>1, <2>7, <3>1, <3>2, Primaries
  <2> QED
    BY <2>4, <2>5, <2>6, <2>7 DEF Nonterminals
<1>2. \A rule \in Nonterminals, i, j \in 1 .. Len(words) : i <= j => <<rule, i, j>> \in P
  <2> HIDE DEF P
  <2> QED
    BY <1>1, SpanInduction
<1> QED
  BY <1>2

(* ... and no comparison starts with a "!".                                *)
LEMMA ComparisonsStart ==
  ASSUME NEW words, Len(words) \in Nat, NEW env, NEW d, Rules(d, words, env),
         NEW i \in 1 .. Len(words), NEW j \in 1 .. Len(words), i <= j,
         d[<<"comparison", i, j>>] # {}
  PROVE  words[i] # "!"
<1>1. ASSUME NEW b \in 1 .. Len(words), i <= b, NEW m \in d[<<"primary", i, b>>]
      PROVE  words[i] # "!"
  <2>1. \/ Leaf(words[i], env, 0).ok
        \/ words[i] = "("
    BY <1>1, Primaries
  <2> QED
    BY <2>1, LeavesRead
<1>2. PICK m : m \in d[<<"comparison", i, j>>]
  OBVIOUS
<1>3. CASE m \in d[<<"primary", i, j>>]
  BY <1>1, <1>3
<1>4. ASSUME NEW k \in Splits(words, CmpOps, i, j), d[<<"primary", i, k - 1>>] # {}
      PROVE  words[i] # "!"
  <2>1. k - 1 \in 1 .. Len(words) /\ i <= k - 1
    BY SplitsShorten
  <2> QED
    BY <1>1, <1>4, <2>1
<1> QED
  BY <1>2, <1>3, <1>4, Comparisons

-----------------------------------------------------------------------------
(* What the grammar has, the parser accepts, with that meaning.            *)

(* The words after which a rule reads on.                                  *)
GoesOn(rule) ==
  CASE rule = "or" -> CmpOps \cup {"&&", "||"}
    [] rule = "and" -> CmpOps \cup {"&&"}
    [] rule \in {"not", "comparison"} -> CmpOps
    [] rule = "primary" -> {}

(* The parser finds m, or m and what follows it in a chain.                *)
Finds(x, m, next) == x.ok /\ m = Meaning(x.typ, x.val) /\ x.next = next
(* What it finds when it goes on from m to r behind the operator.          *)
Continues(x, rule, m, r) ==
  x.ok /\ x.typ = "bool" /\ x.val = Joint(rule, m.val, r.val) /\ x.next = r.next

(* A meaning m of the span from i to j is what the parser finds at i,      *)
(* unless the span is followed by a word it reads on at; in a chain, it    *)
(* finds m joined to what it finds behind the operator.                    *)
Completes(p, words, rule, i, j, m) ==
  /\ Word(words, j + 1) \notin GoesOn(rule) => Finds(p[<<rule, i>>], m, j + 1)
  /\ /\ rule \in {"or", "and"} /\ Word(words, j + 1) = ChainOp(rule) /\ m.typ = "bool"
     /\ p[<<rule, j + 2>>].ok /\ p[<<rule, j + 2>>].typ = "bool"
     => Continues(p[<<rule, i>>], rule, m, p[<<rule, j + 2>>])

(* A chain reads on at its own operator, its operands do not; no rule does *)
(* at the end of the source or a closing parenthesis.                      *)
LEMMA GoesOnWords ==
  /\ \A rule \in {"or", "and"} : /\ ChainOp(rule) \in GoesOn(rule)
                                 /\ ChainOp(rule) \notin GoesOn(Operand(rule))
                                 /\ GoesOn(Operand(rule)) \subseteq GoesOn(rule)
                                 /\ ChainOp(rule) # "eof"
                                 /\ Operand(rule) \notin {"or"}
                                 /\ Operand(rule) \in Nonterminals /\ rule \in Nonterminals
  /\ GoesOn("not") = CmpOps /\ GoesOn("comparison") = CmpOps
  /\ "eof" \notin GoesOn("or") /\ ")" \notin GoesOn("or")
<1>1. /\ GoesOn("or") = CmpOps \cup {"&&", "||"}
      /\ GoesOn("and") = CmpOps \cup {"&&"}
      /\ GoesOn("not") = CmpOps
      /\ GoesOn("comparison") = CmpOps
  BY DEF GoesOn
<1>2. /\ ChainOp("or") = "||" /\ ChainOp("and") = "&&"
      /\ Operand("or") = "and" /\ Operand("and") = "not"
  BY DEF ChainOp, Operand
<1>3. CmpOps = {"==", "!=", "<", "<=", ">", ">="}
  BY DEF CmpOps
<1>4. /\ ChainOp("or") \in GoesOn("or") /\ ChainOp("or") \notin GoesOn("and")
      /\ GoesOn("and") \subseteq GoesOn("or") /\ ChainOp("or") # "eof"
      /\ "and" \in Nonterminals /\ "or" \in Nonterminals
  BY <1>1, <1>2, <1>3 DEF Nonterminals
<1>5. /\ ChainOp("and") \in GoesOn("and") /\ ChainOp("and") \notin GoesOn("not")
      /\ GoesOn("not") \subseteq GoesOn("and") /\ ChainOp("and") # "eof"
      /\ "not" \in Nonterminals
  BY <1>1, <1>2, <1>3 DEF Nonterminals
<1>6. "eof" \notin GoesOn("or") /\ ")" \notin GoesOn("or")
  BY <1>1, <1>3
<1> QED
  BY <1>1, <1>2, <1>4, <1>5, <1>6

(* A chain of one operand.                                                 *)
LEMMA OneOperand ==
  ASSUME NEW words, Len(words) \in Nat, NEW env, NEW p, Reads(p, words, env),
         NEW rule \in {"or", "and"},
         NEW i \in 1 .. Len(words), NEW j \in 1 .. Len(words), NEW m,
         Completes(p, words, Operand(rule), i, j, m)
  PROVE  Completes(p, words, rule, i, j, m)
<1> DEFINE o == p[<<Operand(rule), i>>]
           here == p[<<rule, i>>]
           r == p[<<rule, j + 2>>]
<1>1. i \in 1 .. Len(words) + 1
  OBVIOUS
<1>2. here = Descend(p, words, env, rule, i)
  BY <1>1, GoesOnWords DEF Reads
<1>3. here = IF o.ok /\ Word(words, o.next) = ChainOp(rule)
             THEN Logic(ChainOp(rule), o, p[<<rule, o.next + 1>>]) ELSE o
  BY <1>2 DEF Descend
<1> HIDE DEF o, here
<1>4. ASSUME Word(words, j + 1) \notin GoesOn(rule)
      PROVE  Finds(here, m, j + 1)
  <2>1. Finds(o, m, j + 1)
    BY <1>4, GoesOnWords DEF Completes, o
  <2>2. Word(words, o.next) # ChainOp(rule)
    BY <1>4, <2>1, GoesOnWords DEF Finds
  <2>3. here = o
    BY <1>3, <2>2
  <2> QED
    BY <2>1, <2>3
<1>5. ASSUME Word(words, j + 1) = ChainOp(rule), m.typ = "bool", r.ok, r.typ = "bool"
      PROVE  Continues(here, rule, m, r)
  <2>1. Finds(o, m, j + 1)
    BY <1>5, GoesOnWords DEF Completes, o
  <2>2. o.ok /\ o.next = j + 1 /\ o.next + 1 = j + 2
    BY <2>1 DEF Finds
  <2>3. here = Logic(ChainOp(rule), o, r)
    BY <1>3, <1>5, <2>2
  <2>4. o.typ = m.typ /\ o.val = m.val
    BY <2>1 DEF Finds, Meaning
  <2> HIDE DEF r
  <2>5. here = Node("bool", o.refs \cup r.refs,
                    IF ChainOp(rule) = "&&" THEN o.val /\ r.val ELSE o.val \/ r.val, r.next)
    BY <1>5, <2>3, <2>4 DEF Logic
  <2>6. Joint(rule, o.val, r.val) = IF ChainOp(rule) = "&&" THEN o.val /\ r.val ELSE o.val \/ r.val
    BY DEF Joint, ChainOp
  <2>7. here.ok = TRUE /\ here.typ = "bool" /\ here.val = Joint(rule, o.val, r.val)
        /\ here.next = r.next
    BY <2>5, <2>6 DEF Node
  <2> QED
    BY <2>4, <2>7 DEF Continues
<1> QED
  BY <1>4, <1>5 DEF Completes, here

(* An operand, an operator, and the rest.                                  *)
LEMMA MoreOperands ==
  ASSUME NEW words, Len(words) \in Nat, NEW env, NEW p, Reads(p, words, env),
         NEW rule \in {"or", "and"},
         NEW i \in 1 .. Len(words), NEW j \in 1 .. Len(words),
         NEW k \in Splits(words, {ChainOp(rule)}, i, j), NEW x, NEW y,
         x.typ = "bool", y.typ = "bool",
         Completes(p, words, rule, i, k - 1, x), Completes(p, words, rule, k + 1, j, y)
  PROVE  Completes(p, words, rule, i, j, Meaning("bool", Joint(rule, x.val, y.val)))
<1> DEFINE here == p[<<rule, i>>]
           q == p[<<rule, k + 1>>]
           r == p[<<rule, j + 2>>]
           m == Meaning("bool", Joint(rule, x.val, y.val))
<1>1. k \in i + 1 .. j - 1 /\ words[k] = ChainOp(rule)
  BY DEF Splits
<1>2. k - 1 + 1 = k /\ k - 1 + 2 = k + 1 /\ k <= Len(words)
  BY <1>1
<1>3. Word(words, k - 1 + 1) = ChainOp(rule)
  BY <1>1, <1>2 DEF Word
<1>4. q.ok /\ q.typ = "bool" => Continues(here, rule, x, q)
  <2>1. p[<<rule, k - 1 + 2>>] = q
    BY <1>2
  <2> HIDE DEF q
  <2> QED
    BY <1>3, <2>1 DEF Completes
<1>5. m.typ = "bool" /\ m.val = Joint(rule, x.val, y.val)
  BY DEF Meaning
<1> HIDE DEF m
<1>6. ASSUME Word(words, j + 1) \notin GoesOn(rule)
      PROVE  Finds(here, m, j + 1)
  <2>1. Finds(q, y, j + 1)
    BY <1>6 DEF Completes
  <2> HIDE DEF q, here
  <2>2. q.ok /\ q.typ = "bool" /\ q.val = y.val /\ q.next = j + 1
    BY <2>1 DEF Finds, Meaning
  <2>3. here.ok /\ here.typ = "bool" /\ here.val = Joint(rule, x.val, y.val) /\ here.next = j + 1
    BY <1>4, <2>2 DEF Continues
  <2> QED
    BY <2>3 DEF Finds, m
<1>7. ASSUME Word(words, j + 1) = ChainOp(rule), r.ok, r.typ = "bool"
      PROVE  Continues(here, rule, m, r)
  <2>1. Continues(q, rule, y, r)
    BY <1>7 DEF Completes
  <2> HIDE DEF q, here, r
  <2>2. q.ok /\ q.typ = "bool" /\ q.val = Joint(rule, y.val, r.val) /\ q.next = r.next
    BY <2>1 DEF Continues
  <2>3. here.ok /\ here.typ = "bool" /\ here.val = Joint(rule, x.val, q.val) /\ here.next = r.next
    BY <1>4, <2>2 DEF Continues
  <2>4. Joint(rule, x.val, Joint(rule, y.val, r.val)) = Joint(rule, Joint(rule, x.val, y.val), r.val)
    BY DEF Joint
  <2> QED
    BY <1>5, <2>2, <2>3, <2>4 DEF Continues
<1> QED
  BY <1>6, <1>7 DEF Completes, here, r, m

(* What a span means is what the parser makes of it.                       *)
LEMMA ParserComplete ==
  ASSUME NEW words, Len(words) \in Nat, NEW env,
         NEW p, Reads(p, words, env), NEW d, Rules(d, words, env)
  PROVE  \A rule \in Nonterminals, i, j \in 1 .. Len(words) :
           i <= j => \A m \in d[<<rule, i, j>>] : Completes(p, words, rule, i, j, m)
<1> DEFINE Good(rule, i, j) == \A m \in d[<<rule, i, j>>] : Completes(p, words, rule, i, j, m)
           P == {s \in Spans(words) : Good(s[1], s[2], s[3])}
<1>0. {"or", "and", "not", "comparison", "primary"} = Nonterminals
  BY DEF Nonterminals
<1>1. ASSUME NEW rule \in Nonterminals,
             NEW i \in 1 .. Len(words), NEW j \in 1 .. Len(words), i <= j,
             \A called \in Nonterminals, a, b \in 1 .. Len(words) :
               a <= b /\ SpanCost(called, a, b) < SpanCost(rule, i, j) => <<called, a, b>> \in P
      PROVE  <<rule, i, j>> \in P
  <2>1. ASSUME NEW called \in Nonterminals, NEW a \in 1 .. Len(words), NEW b \in 1 .. Len(words),
               a <= b, SpanCost(called, a, b) < SpanCost(rule, i, j),
               NEW m \in d[<<called, a, b>>]
        PROVE  Completes(p, words, called, a, b, m)
    <3>1. <<called, a, b>> \in P
      BY <1>1, <2>1
    <3>2. Good(called, a, b)
      BY <3>1
    <3> QED
      BY <3>2
  <2>2. ASSUME NEW called \in Nonterminals, NEW a \in 1 .. Len(words), NEW b \in 1 .. Len(words),
               a <= b, b - a < j - i, NEW m \in d[<<called, a, b>>]
        PROVE  Completes(p, words, called, a, b, m)
    <3>1. 1 .. Len(words) \subseteq Nat
      OBVIOUS
    <3>2. SpanCost(called, a, b) < SpanCost(rule, i, j)
      BY <1>1, <2>2, <3>1, SpanCosts
    <3> QED
      BY <2>1, <2>2, <3>2
  <2> SUFFICES ASSUME NEW m \in d[<<rule, i, j>>] PROVE Completes(p, words, rule, i, j, m)
    BY <1>1 DEF Spans
  <2> HIDE DEF P, Good
  <2>3. i \in Nat /\ j \in Nat /\ i \in 1 .. Len(words) + 1 /\ j + 1 \in 1 .. Len(words) + 1
    OBVIOUS
  <2> DEFINE here == p[<<rule, i>>]
  <2>4. here = Descend(p, words, env, rule, i)
    BY <2>3 DEF Reads
  <2> HIDE DEF here
  <2>5. CASE rule \in {"or", "and"}
    <3>1. Operand(rule) \in Nonterminals /\ SpanCost(Operand(rule), i, j) < SpanCost(rule, i, j)
      BY <1>1, <2>3, <2>5, LowerSpansCost DEF Operand, Nonterminals
    <3>2. CASE m \in d[<<Operand(rule), i, j>>]
      <4>1. Completes(p, words, Operand(rule), i, j, m)
        BY <1>1, <2>1, <3>1, <3>2
      <4> QED
        BY <2>5, <4>1, OneOperand
    <3>3. ASSUME NEW k \in Splits(words, {ChainOp(rule)}, i, j),
                 Joins(rule, d[<<rule, i, k - 1>>], d[<<Operand(rule), k + 1, j>>], m)
          PROVE  Completes(p, words, rule, i, j, m)
      <4>1. PICK x \in d[<<rule, i, k - 1>>], y \in d[<<Operand(rule), k + 1, j>>] :
              x.typ = "bool" /\ y.typ = "bool" /\ m = Meaning("bool", Joint(rule, x.val, y.val))
        BY <3>3 DEF Joins
      <4>2. /\ k - 1 \in 1 .. Len(words) /\ i <= k - 1 /\ k - 1 - i < j - i
            /\ k + 1 \in 1 .. Len(words) /\ k + 1 <= j /\ j - (k + 1) < j - i
        BY SplitsShorten
      <4>3. Completes(p, words, rule, i, k - 1, x)
        BY <2>2, <4>2
      <4>4. Completes(p, words, Operand(rule), k + 1, j, y)
        BY <2>2, <3>1, <4>2
      <4>5. Completes(p, words, rule, k + 1, j, y)
        BY <2>5, <4>2, <4>4, OneOperand
      <4> QED
        BY <2>5, <4>1, <4>3, <4>5, MoreOperands
    <3> QED
      BY <1>1, <2>5, <3>2, <3>3, Chains
  <2>6. CASE rule = "not"
    <3> SUFFICES ASSUME Word(words, j + 1) \notin CmpOps PROVE Finds(here, m, j + 1)
      BY <2>6, GoesOnWords DEF Completes, here
    <3>1. CASE m \in d[<<"comparison", i, j>>]
      <4>1. SpanCost("comparison", i, j) < SpanCost(rule, i, j)
        BY <1>1, <2>3, <2>6, LowerSpansCost
      <4>2. Completes(p, words, "comparison", i, j, m)
        BY <1>0, <1>1, <2>1, <3>1, <4>1
      <4>3. Finds(p[<<"comparison", i>>], m, j + 1)
        BY <4>2, GoesOnWords DEF Completes
      <4>4. Word(words, i) # "!"
        <5>1. words[i] # "!"
          BY <1>1, <3>1, ComparisonsStart
        <5> QED
          BY <5>1 DEF Word
      <4> QED
        BY <2>4, <2>6, <4>3, <4>4 DEF Descend
    <3>2. ASSUME words[i] = "!", i # j, NEW x \in d[<<"not", i + 1, j>>], x.typ = "bool",
                 m = Meaning("bool", ~x.val)
          PROVE  Finds(here, m, j + 1)
      <4>1. i + 1 \in 1 .. Len(words) /\ i + 1 <= j /\ j - (i + 1) < j - i
        BY <1>1, <3>2
      <4>2. Completes(p, words, "not", i + 1, j, x)
        BY <1>0, <2>2, <3>2, <4>1
      <4> DEFINE r == p[<<"not", i + 1>>]
      <4>3. Finds(r, x, j + 1)
        BY <4>2, GoesOnWords DEF Completes
      <4>4. here = Negation(r)
        BY <2>4, <2>6, <3>2 DEF Descend, Word
      <4> HIDE DEF r
      <4>5. r.ok /\ r.typ = "bool" /\ r.val = x.val /\ r.next = j + 1
        BY <3>2, <4>3 DEF Finds, Meaning
      <4>6. here = Node("bool", r.refs, ~r.val, r.next)
        BY <4>4, <4>5 DEF Negation
      <4>7. here.ok = TRUE /\ here.typ = "bool" /\ here.val = ~r.val /\ here.next = r.next
        BY <4>6 DEF Node
      <4> QED
        BY <3>2, <4>5, <4>7 DEF Finds
    <3> QED
      BY <1>1, <2>6, <3>1, <3>2, Negations
  <2>7. CASE rule = "comparison"
    <3> SUFFICES ASSUME Word(words, j + 1) \notin CmpOps PROVE Finds(here, m, j + 1)
      BY <2>7, GoesOnWords DEF Completes, here
    <3> DEFINE l == p[<<"primary", i>>]
    <3>1. here = IF l.ok /\ Word(words, l.next) \in CmpOps
                 THEN Comparison(Word(words, l.next), l, p[<<"primary", l.next + 1>>]) ELSE l
      BY <2>4, <2>7 DEF Descend
    <3>2. GoesOn("primary") = {}
      BY DEF GoesOn
    <3>3. CASE m \in d[<<"primary", i, j>>]
      <4>1. SpanCost("primary", i, j) < SpanCost(rule, i, j)
        BY <1>1, <2>3, <2>7, LowerSpansCost
      <4>2. Completes(p, words, "primary", i, j, m)
        BY <1>0, <1>1, <2>1, <3>3, <4>1
      <4>3. Finds(l, m, j + 1)
        BY <3>2, <4>2 DEF Completes
      <4> HIDE DEF l
      <4> QED
        BY <3>1, <4>3 DEF Finds
    <3>4. ASSUME NEW k \in Splits(words, CmpOps, i, j),
                 NEW x \in d[<<"primary", i, k - 1>>], NEW y \in d[<<"primary", k + 1, j>>],
                 x.typ = y.typ, x.typ # "bool",
                 m = Meaning("bool", Compare(words[k], x.val, y.val))
          PROVE  Finds(here, m, j + 1)
      <4> DEFINE r == p[<<"primary", k + 1>>]
      <4>1. /\ k - 1 \in 1 .. Len(words) /\ i <= k - 1 /\ k - 1 - i < j - i
            /\ k + 1 \in 1 .. Len(words) /\ k + 1 <= j /\ j - (k + 1) < j - i
            /\ k \in 1 .. Len(words) /\ words[k] \in CmpOps
        BY SplitsShorten
      <4>2. Completes(p, words, "primary", i, k - 1, x)
        BY <1>0, <2>2, <4>1
      <4>3. Completes(p, words, "primary", k + 1, j, y)
        BY <1>0, <2>2, <4>1
      <4>4. Finds(l, x, k)
        BY <3>2, <4>1, <4>2 DEF Completes
      <4>5. Finds(r, y, j + 1)
        BY <3>2, <4>3 DEF Completes
      <4>6. Word(words, k) = words[k]
        BY <4>1 DEF Word
      <4> HIDE DEF l
      <4>7. here = Comparison(words[k], l, r)
        BY <3>1, <4>1, <4>4, <4>6 DEF Finds
      <4> HIDE DEF r
      <4>8. l.typ = x.typ /\ l.val = x.val
        BY <4>4 DEF Finds, Meaning
      <4>9. r.ok /\ r.typ = y.typ /\ r.val = y.val /\ r.next = j + 1
        BY <4>5 DEF Finds, Meaning
      <4>10. here = Node("bool", l.refs \cup r.refs, Compare(words[k], l.val, r.val), r.next)
        BY <3>4, <4>7, <4>8, <4>9 DEF Comparison
      <4>11. here.ok = TRUE /\ here.typ = "bool" /\ here.next = r.next
             /\ here.val = Compare(words[k], l.val, r.val)
        BY <4>10 DEF Node
      <4> QED
        BY <3>4, <4>8, <4>9, <4>11 DEF Finds
    <3>5. \/ m \in d[<<"primary", i, j>>]
          \/ \E k \in Splits(words, CmpOps, i, j) :
             \E x \in d[<<"primary", i, k - 1>>], y \in d[<<"primary", k + 1, j>>] :
               x.typ = y.typ /\ x.typ # "bool"
               /\ m = Meaning("bool", Compare(words[k], x.val, y.val))
      <4>1. i <= j /\ m \in d[<<"comparison", i, j>>]
        BY <1>1, <2>7
      <4> QED
        BY <4>1, Comparisons
    <3> QED
      BY <3>3, <3>4, <3>5
  <2>8. CASE rule = "primary"
    <3> SUFFICES Finds(here, m, j + 1)
      BY <2>8 DEF Completes, here
    <3>0. Word(words, i) = words[i]
      BY DEF Word
    <3>1. CASE /\ i = j /\ Leaf(words[i], env, 0).ok
               /\ m = Meaning(Leaf(words[i], env, 0).typ, Leaf(words[i], env, 0).val)
      <4>1. words[i] # "("
        BY <3>1, LeavesRead
      <4>2. here = Leaf(words[i], env, i + 1)
        BY <2>4, <2>8, <3>0, <4>1 DEF Descend
      <4>3. here.ok /\ here.typ = Leaf(words[i], env, 0).typ
            /\ here.val = Leaf(words[i], env, 0).val
        BY <3>1, <4>2, LeavesRead
      <4>4. here.next = i + 1
        BY <4>2, <4>3, LeafEnds
      <4> QED
        BY <3>1, <4>3, <4>4 DEF Finds
    <3>2. CASE words[i] = "(" /\ words[j] = ")" /\ j > i + 1 /\ m \in d[<<"or", i + 1, j - 1>>]
      <4> DEFINE x == p[<<"or", i + 1>>]
      <4>1. i + 1 \in 1 .. Len(words) /\ j - 1 \in 1 .. Len(words) /\ i + 1 <= j - 1
            /\ j - 1 - (i + 1) < j - i /\ j - 1 + 1 = j
        BY <3>2
      <4>2. Completes(p, words, "or", i + 1, j - 1, m)
        BY <1>0, <2>2, <3>2, <4>1
      <4>3. Word(words, j) = ")"
        BY <3>2 DEF Word
      <4>4. Finds(x, m, j)
        BY <4>1, <4>2, <4>3, GoesOnWords DEF Completes
      <4>5. here = IF x.ok /\ Word(words, x.next) = ")"
                   THEN Node(x.typ, x.refs, x.val, x.next + 1) ELSE Error
        BY <2>4, <2>8, <3>0, <3>2 DEF Descend
      <4> HIDE DEF x
      <4>6. here = Node(x.typ, x.refs, x.val, j + 1)
        BY <4>3, <4>4, <4>5 DEF Finds
      <4>7. here.ok = TRUE /\ here.typ = x.typ /\ here.val = x.val /\ here.next = j + 1
        BY <4>6 DEF Node
      <4> QED
        BY <4>4, <4>7 DEF Finds
    <3> QED
      BY <1>1, <2>8, <3>1, <3>2, Primaries
  <2> QED
    BY <2>5, <2>6, <2>7, <2>8 DEF Nonterminals
<1>2. \A rule \in Nonterminals, i, j \in 1 .. Len(words) : i <= j => <<rule, i, j>> \in P
  <2> HIDE DEF P
  <2> QED
    BY <1>1, SpanInduction
<1> QED
  BY <1>2

(* The parser reads the grammar: a source compiles exactly when the        *)
(* grammar gives it a boolean meaning, and that is its only one and what   *)
(* it evaluates to.                                                        *)
THEOREM SourcesMeanWhatTheySay ==
  ASSUME NEW words \in Seq(STRING), NEW env
  PROVE  MeansWhatItSays(words, env)
<1> DEFINE n == Len(words)
           meanings == Bools(Derivations(words, env))
           root == Parse(words, env)
           lexes == \A i \in DOMAIN words : words[i] \notin BadWords
           program == Compile(words, env)
<1>0. n \in Nat /\ DOMAIN words = 1 .. n /\ (words # <<>> => n >= 1)
  OBVIOUS
<1>1. CASE words = <<>>
  <2>1. program.ok = TRUE /\ program.val = TRUE
    BY <1>1 DEF Compile, Node
  <2>2. Derivations(words, env) = {Meaning("bool", TRUE)}
    BY <1>1 DEF Derivations
  <2>3. meanings = {Meaning("bool", TRUE)}
    BY <2>2 DEF Bools, Meaning
  <2> QED
    BY <2>1, <2>3 DEF MeansWhatItSays, Eval
<1>2. CASE words # <<>>
  <2>1. PICK p : Reads(p, words, env) /\ root = p[<<"or", 1>>]
    BY <1>0, ParserReads
  <2>2. PICK d : Rules(d, words, env) /\ Derivations(words, env) = d[<<"or", 1, n>>]
    BY <1>0, <1>2, DerivesRules
  <2>3. "or" \in Nonterminals /\ 1 \in 1 .. n /\ n \in 1 .. n /\ 1 \in 1 .. n + 1 /\ 1 <= n
    BY <1>0, <1>2 DEF Nonterminals
  <2>4. program = IF lexes /\ root.ok /\ root.next = n + 1 /\ root.typ = "bool"
                  THEN root ELSE Error
    BY <1>2 DEF Compile
  <2>5. ASSUME NEW m \in meanings
        PROVE  /\ program = root /\ root.ok
               /\ m = Meaning("bool", root.val)
    <3>1. m \in d[<<"or", 1, n>>] /\ m.typ = "bool"
      BY <2>2 DEF Bools
    <3>2. Completes(p, words, "or", 1, n, m)
      BY <1>0, <2>1, <2>2, <2>3, <3>1, ParserComplete
    <3>3. Word(words, n + 1) = "eof"
      BY <1>0 DEF Word
    <3>4. Finds(root, m, n + 1)
      BY <2>1, <3>2, <3>3, GoesOnWords DEF Completes
    <3>5. lexes
      <4>1. d[<<"or", 1, n>>] # {}
        BY <3>1
      <4>2. Lexes(words, 1, n)
        BY <1>0, <2>2, <2>3, <4>1, MeaningsLex
      <4> QED
        BY <1>0, <4>2 DEF Lexes
    <3> HIDE DEF program, root, lexes, meanings
    <3>6. root.ok /\ m = Meaning(root.typ, root.val) /\ root.next = n + 1
      BY <3>4 DEF Finds
    <3>7. root.typ = "bool"
      BY <3>1, <3>6 DEF Meaning
    <3> QED
      BY <2>4, <3>5, <3>6, <3>7
  <2>6. ASSUME program.ok
        PROVE  program = root /\ Meaning("bool", root.val) \in meanings
    <3>1. Has(p, d, "or", 1)
      BY <1>0, <2>1, <2>2, <2>3, ParserSound
    <3>2. root.ok => Meaning(root.typ, root.val) \in d[<<"or", 1, root.next - 1>>]
      BY <2>1, <3>1 DEF Has
    <3>3. root.ok /\ root.next = n + 1 /\ root.typ = "bool" /\ program = root
      <4> HIDE DEF root, lexes
      <4> QED
        BY <2>4, <2>6 DEF Error
    <3>4. n + 1 - 1 = n
      BY <1>0
    <3>5. Meaning("bool", root.val) \in d[<<"or", 1, n>>]
      BY <3>2, <3>3, <3>4
    <3>6. Meaning("bool", root.val).typ = "bool"
      BY DEF Meaning
    <3> HIDE DEF root, program
    <3> QED
      BY <2>2, <3>3, <3>5, <3>6 DEF Bools
  <2> HIDE DEF program, root, lexes, meanings
  <2>7. program.ok <=> meanings # {}
    BY <2>5, <2>6
  <2>8. program.ok => meanings = {Meaning("bool", program.val)}
    BY <2>5, <2>6
  <2> QED
    BY <2>7, <2>8 DEF MeansWhatItSays, Eval, program, meanings
<1> QED
  BY <1>1, <1>2
=============================================================================

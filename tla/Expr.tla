-------------------------------- MODULE Expr --------------------------------
(***************************************************************************)
(* The condition language of internal/router/expr: a source is a sequence  *)
(* of words, Compile parses and type-checks it, Eval evaluates it.  A node *)
(* of the syntax tree is what is told apart of it: its type, the variables *)
(* it refers to, and its value in the environment at hand.  A string is    *)
(* its rank in lexicographic order.                                        *)
(***************************************************************************)
EXTENDS Integers, Sequences

NumericVars == {"w", "t", "tokens"}
Vars == NumericVars \cup {"group", "model"}

(* Number and string literals, and words that do not lex: a lone operator  *)
(* character, an open quote, a character of no token.                      *)
IntWords == [x \in {"0", "1", "2"} |-> CASE x = "0" -> 0 [] x = "1" -> 1 [] x = "2" -> 2]
StrWords == [x \in {"'a'", "'b'"} |-> IF x = "'a'" THEN 1 ELSE 2]
BadWords == {"&", "=", "'open", "#"}

CmpOps == {"==", "!=", "<", "<=", ">", ">="}

Compare(op, x, y) ==
  CASE op = "==" -> x = y
    [] op = "!=" -> x # y
    [] op = "<"  -> x < y
    [] op = "<=" -> x <= y
    [] op = ">"  -> x > y
    [] op = ">=" -> x >= y

(* A parse: the node found from a position, and the position after it. *)
Node(typ, refs, val, next) ==
  [ok |-> TRUE, typ |-> typ, refs |-> refs, val |-> val, next |-> next]
Error == [ok |-> FALSE, typ |-> "bool", refs |-> {}, val |-> FALSE, next |-> 1]

(* Primaries other than a parenthesis, and any other word is an error. *)
Leaf(word, env, next) ==
  CASE word \in {"true", "false"} -> Node("bool", {}, word = "true", next)
    [] word \in DOMAIN IntWords -> Node("int", {}, IntWords[word], next)
    [] word \in DOMAIN StrWords -> Node("str", {}, StrWords[word], next)
    [] word \in NumericVars -> Node("int", {word}, env[word], next)
    [] word \in Vars \ NumericVars -> Node("str", {word}, env[word], next)
    [] OTHER -> Error

Logic(op, l, r) ==
  IF r.ok /\ l.typ = "bool" /\ r.typ = "bool"
  THEN Node("bool", l.refs \cup r.refs,
            IF op = "&&" THEN l.val /\ r.val ELSE l.val \/ r.val, r.next)
  ELSE Error

Negation(x) ==
  IF x.ok /\ x.typ = "bool" THEN Node("bool", x.refs, ~x.val, x.next) ELSE Error

(* Mutant: the references of the right operand are not collected. *)
ComparisonLeftRefs(op, l, r) ==
  IF r.ok /\ l.typ = r.typ /\ l.typ # "bool"
  THEN Node("bool", l.refs, Compare(op, l.val, r.val), r.next)
  ELSE Error

Comparison(op, l, r) ==
  IF r.ok /\ l.typ = r.typ /\ l.typ # "bool"
  THEN Node("bool", l.refs \cup r.refs, Compare(op, l.val, r.val), r.next)
  ELSE Error

(* What parseOr and parseAnd look for between their operands. *)
ChainOp(rule) == IF rule = "or" THEN "||" ELSE "&&"

(* Mutant: || and && have the same precedence. *)
OperandFlat(rule) == "not"

Operand(rule) == IF rule = "or" THEN "and" ELSE "not"

Nonterminals == {"or", "and", "not", "comparison", "primary"}
Spots(words) == Nonterminals \X (1..Len(words) + 1)

Word(words, i) == IF i <= Len(words) THEN words[i] ELSE "eof"

(* The recursive descent: what a rule makes of the words from i on, given  *)
(* what p says the rules it calls make of theirs.  The loops of parseOr    *)
(* and parseAnd become right recursion: types, references and values are   *)
(* the same however the operands associate.                                *)
Descend(p, words, env, rule, i) ==
  CASE rule \in {"or", "and"} ->
         LET l == p[<<Operand(rule), i>>] IN
         IF l.ok /\ Word(words, l.next) = ChainOp(rule)
         THEN Logic(ChainOp(rule), l, p[<<rule, l.next + 1>>])
         ELSE l
    [] rule = "not" ->
         IF Word(words, i) = "!" THEN Negation(p[<<"not", i + 1>>])
         ELSE p[<<"comparison", i>>]
    [] rule = "comparison" ->
         LET l == p[<<"primary", i>>] IN
         IF l.ok /\ Word(words, l.next) \in CmpOps
         THEN Comparison(Word(words, l.next), l, p[<<"primary", l.next + 1>>])
         ELSE l
    [] rule = "primary" ->
         IF Word(words, i) # "(" THEN Leaf(Word(words, i), env, i + 1)
         ELSE LET x == p[<<"or", i + 1>>] IN
              IF x.ok /\ Word(words, x.next) = ")"
              THEN Node(x.typ, x.refs, x.val, x.next + 1) ELSE Error

Parse(words, env) ==
  LET p[s \in Spots(words)] == Descend(p, words, env, s[1], s[2])
  IN p[<<"or", 1>>]

(* Mutant: what follows a complete expression is ignored. *)
CompileLeftover(words, env) ==
  IF words = <<>> THEN Node("bool", {}, TRUE, 1)
  ELSE LET root == Parse(words, env) IN
       IF /\ \A i \in DOMAIN words : words[i] \notin BadWords
          /\ root.ok /\ root.typ = "bool"
       THEN root ELSE Error

(* Compile: a blank source is always true; otherwise it must lex, parse to *)
(* its end and be boolean.                                                 *)
Compile(words, env) ==
  IF words = <<>> THEN Node("bool", {}, TRUE, 1)
  ELSE LET root == Parse(words, env) IN
       IF /\ \A i \in DOMAIN words : words[i] \notin BadWords
          /\ root.ok /\ root.next = Len(words) + 1 /\ root.typ = "bool"
       THEN root ELSE Error

ZeroEnv == [v \in Vars |-> 0]
Compiles(words) == Compile(words, ZeroEnv).ok
References(words) == Compile(words, ZeroEnv).refs
Eval(words, env) == Compile(words, env).val

-----------------------------------------------------------------------------
(* The grammar of the package comment, read as a grammar: the types and    *)
(* values that a span of words has under a rule.                           *)
(*   or := and ("||" and)*   and := not ("&&" not)*                        *)
(*   not := "!" not | comparison                                           *)
(*   comparison := primary (op primary)?                                   *)
(*   primary := "(" or ")" | literal | variable                            *)
Meaning(typ, val) == [typ |-> typ, val |-> val]
Bools(L) == {x \in L : x.typ = "bool"}

Either(L, R) == {Meaning("bool", x.val \/ y.val) : x \in Bools(L), y \in Bools(R)}
Both(L, R) == {Meaning("bool", x.val /\ y.val) : x \in Bools(L), y \in Bools(R)}
Compared(op, L, R) ==
  {Meaning("bool", Compare(op, c[1].val, c[2].val)) :
     c \in {c \in L \X R : c[1].typ = c[2].typ /\ c[1].typ # "bool"}}

(* The spans, and where one may be split at an operator of ops.            *)
Spans(words) ==
  {s \in Nonterminals \X (1..Len(words)) \X (1..Len(words)) : s[2] <= s[3]}
Splits(words, ops, i, j) == {k \in i+1..j-1 : words[k] \in ops}

(* What a span has under a rule, given what d says of the others.          *)
Derive(d, words, env, rule, i, j) ==
  CASE rule = "or" ->
         d[<<"and", i, j>>] \cup
         UNION {Either(d[<<"or", i, k - 1>>], d[<<"and", k + 1, j>>])
                  : k \in Splits(words, {"||"}, i, j)}
    [] rule = "and" ->
         d[<<"not", i, j>>] \cup
         UNION {Both(d[<<"and", i, k - 1>>], d[<<"not", k + 1, j>>])
                  : k \in Splits(words, {"&&"}, i, j)}
    [] rule = "not" ->
         d[<<"comparison", i, j>>] \cup
         (IF words[i] # "!" \/ i = j THEN {}
          ELSE {Meaning("bool", ~x.val) : x \in Bools(d[<<"not", i + 1, j>>])})
    [] rule = "comparison" ->
         d[<<"primary", i, j>>] \cup
         UNION {Compared(words[k], d[<<"primary", i, k - 1>>], d[<<"primary", k + 1, j>>])
                  : k \in Splits(words, CmpOps, i, j)}
    [] rule = "primary" ->
         IF i = j
         THEN {Meaning(x.typ, x.val) : x \in {x \in {Leaf(words[i], env, 0)} : x.ok}}
         ELSE IF words[i] = "(" /\ words[j] = ")" /\ j > i + 1
              THEN d[<<"or", i + 1, j - 1>>] ELSE {}

Derivations(words, env) ==
  LET d[s \in Spans(words)] == Derive(d, words, env, s[1], s[2], s[3])
  IN IF words = <<>> THEN {Meaning("bool", TRUE)} ELSE d[<<"or", 1, Len(words)>>]

(* A source compiles exactly when the grammar gives it a boolean meaning,  *)
(* and evaluates to that meaning.                                          *)
MeansWhatItSays(words, env) ==
  LET meanings == Bools(Derivations(words, env)) IN
  /\ Compile(words, env).ok <=> meanings # {}
  /\ Compile(words, env).ok => meanings = {Meaning("bool", Eval(words, env))}
=============================================================================

------------------------------ MODULE MCRouting ------------------------------
(* An instance of Routing for TLC. *)
EXTENDS Routing

NameA == <<"a">>
NameAB == <<"a", "b">>
NameABA == <<"a", "b", "a">>
Ranks == [n \in {NameA, NameAB, NameABA} |-> Len(n)]

Rule(in) == ApplyInput(DefaultRule, in)

(* Rules over the signals of the probe, one of them for t only; patterns   *)
(* whose ends could overlap; a target model; targets by id and by group.   *)
BySignals == <<Rule([expr |-> <<"w", "==", "1">>, target |-> NameAB, priority |-> 1]),
               Rule([expr |-> <<"1", "<", "t">>, ids |-> {1, 2}, group |-> 2])>>
ByPattern == <<Rule([patterns |-> {<<"a", "*", "a">>}, group |-> 1]),
               Rule([patterns |-> {<<"*", "b", "*">>}, groups |-> {1}, max |-> 1,
                     enabled |-> FALSE])>>
ByTokens == <<Rule([min |-> 1, ids |-> {3}]), NoRow>>

MCTables == {BySignals, ByPattern, ByTokens}

Channel(on, prio, weight, group, models) ==
  [enabled |-> on, priority |-> prio, weight |-> weight, group |-> group,
   models |-> models, mapped |-> {}]

MCBoards ==
  {<<Channel(TRUE, 1, 2, 1, {NameA}), Channel(TRUE, 1, 0, 2, {NameA, NameAB}),
     [Channel(FALSE, 2, -1, 2, {}) EXCEPT !.mapped = {NameAB}]>>}

Turn(n, wide) == [chars |-> n, width |-> IF wide THEN 4 ELSE 1]

(* A turn may be as long as the prompt; one of wide characters is longer.  *)
MCRequests ==
  {[group |-> 1, model |-> NameA, tokens |-> 0, system |-> 2,
    turns |-> <<Turn(3, FALSE), Turn(1, FALSE)>>],
   [group |-> 2, model |-> NameAB, tokens |-> 2, system |-> 1,
    turns |-> <<Turn(1, FALSE), Turn(4, TRUE)>>],
   [group |-> 1, model |-> NameABA, tokens |-> 1, system |-> 1, turns |-> <<Turn(1, FALSE)>>]}

Words == {"w", "1", "group", "<", "!", "&&", "||", "(", ")", "true"}
ShortSources == UNION {[1..n -> Words] : n \in 0..2}

(* Precedence, grouping, types, chains of comparisons, words that do not   *)
(* lex, identifiers that do not exist.                                     *)
LongSources ==
  {<<"w", "==", "1", "||", "true", "&&", "false">>,
   <<"true", "||", "true", "&&", "false">>,
   <<"!", "w", "==", "1">>, <<"!", "(", "w", "<=", "t", ")">>, <<"!", "!", "true">>,
   <<"w", "<", "t", "<", "1">>, <<"group", "!=", "'a'">>, <<"model", ">=", "'b'">>,
   <<"group", "==", "1">>, <<"true", "==", "true">>, <<"w", "=", "1">>, <<"w", "&", "t">>,
   <<"user", "==", "1">>, <<"group", "==", "'open">>, <<"tokens", ">", "0", ")">>,
   <<"(", "tokens", ">", "0">>, <<"(", "w", ")", "==", "0">>, <<"1", "<", "t">>,
   <<"t", ">", "1", "&&", "model", "==", "'a'">>, <<"(", "true", "||", "w", ")">>,
   <<"true", "false">>, <<"w">>, <<"'a'">>}

Patterns == {p \in [1..4 -> {"a", "b", "*"}] : \E i \in 1..4 : p[i] = "*"}

MCInputs ==
  {[expr |-> x] : x \in ShortSources \cup LongSources}
  \cup {[patterns |-> {p}] : p \in Patterns}
  \cup {[name |-> "new", enabled |-> FALSE, priority |-> 2],
        [name |-> "new", expr |-> <<"0", "<", "t">>, group |-> 2], [name |-> ""],
        [ids |-> {}, group |-> NoGroup]}

Answer(p, raw, content, bare) ==
  [reached |-> TRUE, status |-> 200, decodes |-> TRUE, prediction |-> p, raw |-> raw,
   content |-> content, bare |-> bare]

Text == <<"text">>

MCAnswers ==
  {Answer(<<1, 2>>, <<0, 0>>, Absent, Absent), Answer(Absent, Text, <<1, 0>>, Absent),
   Answer(Absent, Absent, Text, <<0, 1>>), Answer(Absent, Absent, Absent, <<0, 2>>),
   [Answer(<<1, 1>>, Absent, Absent, Absent) EXCEPT !.status = 500],
   [Answer(<<1, 1>>, Absent, Absent, Absent) EXCEPT !.reached = FALSE]}
=============================================================================

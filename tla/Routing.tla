------------------------------- MODULE Routing -------------------------------
(***************************************************************************)
(* The routing engine of internal/router: one selection, from the rules it *)
(* reads to the ordered candidates it hands to the relay, with the probe   *)
(* called on demand, while administrators edit rules (rule_service.go),    *)
(* the probe's settings (router_probe_ctrl.go), the failover cap and the   *)
(* status of channels.  Every database read is a step of its own; module   *)
(* Expr has the condition language, module Relay what becomes of the       *)
(* selection.                                                              *)
(*                                                                         *)
(* A model name is a sequence of letters, a pattern one of letters and     *)
(* "*"; groups are numbers, their rank in lexicographic order; a turn of   *)
(* the conversation is its length in characters and their width in bytes.  *)
(***************************************************************************)
EXTENDS Expr, FiniteSets

CONSTANTS
  RuleIds, ChannelIds,
  Tables,         \* rule tables at the start
  Boards,         \* channel tables at the start
  Requests,       \* requests: group, model, tokens, system, turns
  Inputs,         \* what the rule editor may submit: some of a rule's fields
  ModelRank,      \* rank of a model name among strings
  Answers,        \* what the classifier's endpoint may answer
  TurnMax, PromptMax, Overhead,  \* limits of RenderProbePrompt
  MockFloor, MockCap,            \* range of MockProbe's t
  Editors, MaxEdits,             \* administrators; bound on their edits
  MaxStoreErrors                 \* bound on failing statements

NoGroup == 0
NoModel == <<>>
NoRow == [priority |-> -1]
DefaultMaxRetries == 3

(* What the columns of a rule hold (of a name only whether it is blank     *)
(* matters), those of a channel, and a turn.                               *)
Columns ==
  [name |-> {"", "rule", "new"}, enabled |-> BOOLEAN, priority |-> Int, groups |-> SUBSET Nat,
   patterns |-> SUBSET Seq(STRING), min |-> Int, max |-> Int, ids |-> SUBSET Nat,
   group |-> Nat, expr |-> Seq(STRING), target |-> Seq(STRING)]

Fits(in) == \A f \in DOMAIN in : f \in DOMAIN Columns /\ in[f] \in Columns[f]
IsRule(r) == DOMAIN r = DOMAIN Columns /\ Fits(r)

Channels ==
  [enabled : BOOLEAN, priority : Int, weight : Int, group : Nat,
   models : SUBSET Seq(STRING), mapped : SUBSET Seq(STRING)]

Turns == [chars : Nat, width : Nat]

ASSUME RoutingAssumption ==
  /\ IsFiniteSet(RuleIds) /\ RuleIds \subseteq Nat \ {0}
  /\ IsFiniteSet(ChannelIds) /\ ChannelIds \subseteq Nat \ {0}
  /\ {TurnMax, PromptMax, Overhead, MockFloor, MockCap, MaxEdits, MaxStoreErrors}
       \subseteq Nat
  /\ MockFloor <= MockCap

(* The tables start with rows of their columns, as the editor writes them, *)
(* and what comes from outside has passed the decoding of its JSON.        *)
ASSUME InputAssumption ==
  /\ \A T \in Tables :
       /\ DOMAIN T = RuleIds
       /\ \A i \in RuleIds : T[i] # NoRow => IsRule(T[i]) /\ Compiles(T[i].expr)
  /\ Boards \subseteq [ChannelIds -> Channels]
  /\ \A in \in Inputs : Fits(in)
  /\ \A q \in Requests :
       q.model \in Seq(STRING) /\ q.turns \in Seq(Turns) /\ q.system \in Nat
  /\ \A a \in Answers :
       /\ {a.prediction, a.bare} \subseteq {<<>>} \cup Int \X Int
       /\ \A x \in {a.raw, a.content} : Len(x) = 2 => x \in Int \X Int

VARIABLES
  rules,     \* routing_rules, by id; NoRow = no such row
  channels,  \* the channels table, as far as routing reads it
  options,   \* RouterProbeMock, RouterProbeURL, RouterMaxRetries; "" = no row
  editor,    \* an administrator's request in progress
  edits, storeErrors,  \* how many have happened
  req,       \* the request being routed
  at,        \* control point of SelectChannelCtx
  snap,      \* the enabled rules it read, each with its id
  prompt,    \* the rendered prompt the classifier was asked about
  probe,     \* "none", or the probe that was asked: "mock", "http", "failed"
  w, t,      \* the signals expressions see
  matched,   \* the rule that governs, NoRow = fallback
  pool,      \* candidates not yet ordered
  order,     \* the candidates in load-balanced order
  cap        \* maxRetries

edited == <<rules, channels, options, editor, edits>>
vars == <<rules, channels, options, editor, edits, storeErrors, req, at, snap,
          prompt, probe, w, t, matched, pool, order, cap>>

IdleEditor == [at |-> "idle", id |-> 0, row |-> NoRow, source |-> <<>>,
               url |-> ""]
NoPrompt == [kept |-> 0, system |-> FALSE, size |-> 0]

Init ==
  /\ rules \in Tables /\ channels \in Boards /\ req \in Requests
  /\ options \in {[mock |-> "", url |-> "", retries |-> 0],
                  [mock |-> "false", url |-> "http", retries |-> 0]}
  /\ editor = [e \in Editors |-> IdleEditor]
  /\ edits = 0 /\ storeErrors = 0
  /\ at = "rules" /\ snap = {} /\ prompt = NoPrompt
  /\ probe = "none" /\ w = 0 /\ t = 0
  /\ matched = NoRow /\ pool = {} /\ order = <<>> /\ cap = 0

-----------------------------------------------------------------------------
(* The rule editor. *)

DefaultRule ==
  [name |-> "rule", enabled |-> TRUE, priority |-> 0, groups |-> {}, patterns |-> {},
   min |-> 0, max |-> 0, ids |-> {}, group |-> NoGroup, expr |-> <<>>,
   target |-> NoModel]

(* Mutant: an expression that does not compile is stored. *)
ValidUnchecked(in) == "name" \in DOMAIN in => in.name # ""

(* Create and Update refuse a blank name and an expression that does not   *)
(* compile; Create wants a name.                                           *)
Valid(in) ==
  /\ "name" \in DOMAIN in => in.name # ""
  /\ "expr" \in DOMAIN in => Compiles(in.expr)

ApplyInput(row, in) ==
  [f \in DOMAIN row |-> IF f \in DOMAIN in THEN in[f] ELSE row[f]]

Source(in) == IF "expr" \in DOMAIN in THEN in.expr ELSE <<>>

Refuse(e, in) == editor' = [editor EXCEPT ![e] =
                   [IdleEditor EXCEPT !.at = "refused", !.source = Source(in)]]

Begin(e) ==
  /\ editor[e].at \in {"idle", "refused"} /\ edits < MaxEdits
  /\ edits' = edits + 1

Going(e, l, id, row, in) == editor' = [editor EXCEPT ![e] =
  [IdleEditor EXCEPT !.at = l, !.id = id, !.row = row, !.source = Source(in)]]

SubmitCreate(e, in) ==
  /\ Begin(e)
  /\ IF "name" \in DOMAIN in /\ Valid(in)
     THEN Going(e, "insert", 0, ApplyInput(DefaultRule, in), in)
     ELSE Refuse(e, in)
  /\ UNCHANGED <<rules, channels, options>>

(* The insert gives a rule that was to be disabled the column's default,   *)
(* enabled; a second statement disables it.                                *)
Insert(e, id) ==
  /\ editor[e].at = "insert"
  /\ rules[id] = NoRow
  /\ rules' = [rules EXCEPT ![id] = [editor[e].row EXCEPT !.enabled = TRUE]]
  /\ editor' = [editor EXCEPT ![e] =
       IF editor[e].row.enabled THEN IdleEditor
       ELSE [@ EXCEPT !.at = "disable", !.id = id]]
  /\ UNCHANGED <<channels, options, edits>>

DisableInserted(e) ==
  LET id == editor[e].id IN
  /\ editor[e].at = "disable"
  /\ rules' = IF rules[id] = NoRow THEN rules
              ELSE [rules EXCEPT ![id].enabled = FALSE]
  /\ editor' = [editor EXCEPT ![e] = IdleEditor]
  /\ UNCHANGED <<channels, options, edits>>

(* Update: read the row, change the fields submitted, ...                  *)
SubmitUpdate(e, id, in) ==
  /\ Begin(e)
  /\ rules[id] # NoRow
  /\ IF Valid(in) THEN Going(e, "save", id, ApplyInput(rules[id], in), in)
     ELSE Refuse(e, in)
  /\ UNCHANGED <<rules, channels, options>>

(* ... and save all of it; GORM inserts the row when it is gone.           *)
Save(e) ==
  /\ editor[e].at = "save"
  /\ rules' = [rules EXCEPT ![editor[e].id] = editor[e].row]
  /\ editor' = [editor EXCEPT ![e] = IdleEditor]
  /\ UNCHANGED <<channels, options, edits>>

Delete(e, id) ==
  /\ Begin(e)
  /\ rules[id] # NoRow
  /\ rules' = [rules EXCEPT ![id] = NoRow]
  /\ UNCHANGED <<channels, options, editor>>

(* RouterProbeController.Put: a real probe needs a URL; then one upsert    *)
(* per option, in this order, and the region (which routing never reads).  *)
PutProbe(e, mock, url) ==
  /\ Begin(e)
  /\ mock = "false" => url # ""
  /\ options' = [options EXCEPT !.mock = mock]
  /\ editor' = [editor EXCEPT ![e] = [IdleEditor EXCEPT !.at = "url", !.url = url]]
  /\ UNCHANGED <<rules, channels>>

PutURL(e) ==
  /\ editor[e].at = "url"
  /\ options' = [options EXCEPT !.url = editor[e].url]
  /\ editor' = [editor EXCEPT ![e] = IdleEditor]
  /\ UNCHANGED <<rules, channels, edits>>

(* A statement of an edit in progress fails: 500, what was done stays.     *)
EditFails(e) ==
  /\ editor[e].at \in {"insert", "disable", "save", "url"}
  /\ storeErrors < MaxStoreErrors
  /\ storeErrors' = storeErrors + 1
  /\ editor' = [editor EXCEPT ![e] = IdleEditor]
  /\ UNCHANGED <<rules, channels, options, edits>>

(* The failover cap and a channel's status, set elsewhere. *)
SetRetries(e, n) ==
  /\ Begin(e)
  /\ options' = [options EXCEPT !.retries = n]
  /\ UNCHANGED <<rules, channels, editor>>

Toggle(e, c) ==
  /\ Begin(e)
  /\ channels' = [channels EXCEPT ![c].enabled = ~@]
  /\ UNCHANGED <<rules, options, editor>>

Edit(e) ==
  \/ \E in \in Inputs :
       SubmitCreate(e, in) \/ \E id \in RuleIds : SubmitUpdate(e, id, in)
  \/ \E id \in RuleIds : Insert(e, id) \/ Delete(e, id)
  \/ DisableInserted(e) \/ Save(e)
  \/ \E mock \in {"true", "false"}, url \in {"", "http"} : PutProbe(e, mock, url)
  \/ PutURL(e)
  \/ SetRetries(e, 1)
  \/ \E c \in ChannelIds : Toggle(e, c)

-----------------------------------------------------------------------------
(* Conditions of a rule. *)

Stars(pattern) == {i \in DOMAIN pattern : pattern[i] = "*"}
FirstStar(pattern) == CHOOSE i \in Stars(pattern) : \A j \in Stars(pattern) : i <= j
LastStar(pattern) == CHOOSE i \in Stars(pattern) : \A j \in Stars(pattern) : j <= i
NextStar(pattern, i) ==
  CHOOSE j \in Stars(pattern) : i < j /\ \A k \in Stars(pattern) : i < k => j <= k

(* The letters of the pattern after its i-th, up to its j-th, are those of *)
(* s after its n-th.                                                       *)
LettersAt(pattern, i, j, s, n) ==
  /\ n + j - i <= Len(s)
  /\ \A x \in 1..j - i : pattern[i + x] = s[n + x]

(* Mutant: the suffix may overlap the prefix. *)
WildcardOverlaps(pattern, s) ==
  LET tail == Len(pattern) - LastStar(pattern)
  IN /\ LettersAt(pattern, 0, FirstStar(pattern) - 1, s, 0)
     /\ tail <= Len(s)
     /\ LettersAt(pattern, LastStar(pattern), Len(pattern), s, Len(s) - tail)

(* From star i and letter k on, whether the parts between stars are found  *)
(* in order up to letter end, each at its first occurrence, given what     *)
(* found says from the next star on.                                       *)
FindParts(found, pattern, s, end, i, k) ==
  \/ i = LastStar(pattern)
  \/ LET len == NextStar(pattern, i) - 1 - i
         places == {n \in k..end - len : LettersAt(pattern, i, i + len, s, n)}
         n == CHOOSE n \in places : \A m \in places : n <= m
     IN places # {} /\ found[<<NextStar(pattern, i), n + len>>]

(* wildcardMatch: the part before the first star is a prefix, the part     *)
(* after the last a suffix of the rest, and those between are found.       *)
Wildcard(pattern, s) ==
  LET head == FirstStar(pattern) - 1
      end == Len(s) - (Len(pattern) - LastStar(pattern))
      found[q \in Stars(pattern) \X (0..end)] ==
        FindParts(found, pattern, s, end, q[1], q[2])
  IN /\ LettersAt(pattern, 0, head, s, 0)
     /\ head <= end
     /\ LettersAt(pattern, LastStar(pattern), Len(pattern), s, end)
     /\ found[<<FirstStar(pattern), head>>]

ModelMatches(pattern, name) ==
  \/ pattern = name
  \/ Stars(pattern) # {} /\ Wildcard(pattern, name)

RuleMatches(r) ==
  /\ r.groups = {} \/ req.group \in r.groups
  /\ r.patterns = {} \/ \E p \in r.patterns : ModelMatches(p, req.model)
  /\ r.min > 0 => req.tokens >= r.min
  /\ r.max > 0 => req.tokens <= r.max

Env(ww, tt) == [w |-> ww, t |-> tt, tokens |-> req.tokens, group |-> req.group,
                model |-> ModelRank[req.model]]

(* A stored expression that does not compile never holds. *)
ExprHolds(r, ww, tt) == Compiles(r.expr) /\ Eval(r.expr, Env(ww, tt))

Before(r, q) == r.priority < q.priority \/ (r.priority = q.priority /\ r.id < q.id)

(* matchRuleExpr, given the signals. *)
Match(S, ww, tt) ==
  LET hits == {r \in S : RuleMatches(r) /\ ExprHolds(r, ww, tt)}
  IN IF hits = {} THEN NoRow
     ELSE CHOOSE r \in hits : \A q \in hits \ {r} : Before(r, q)

-----------------------------------------------------------------------------
(* The probe. *)

SmallerOf(x, y) == IF x <= y THEN x ELSE y
LargerOf(x, y) == IF x <= y THEN y ELSE x

(* Bytes of a rendered turn, its middle elided beyond TurnMax characters;  *)
(* and of the newest n turns.                                              *)
Rendered(turn) == Overhead + turn.width * SmallerOf(turn.chars, TurnMax)

Newest(turns, n) ==
  LET sum[k \in 0..n] == IF k = 0 THEN 0
                         ELSE sum[k - 1] + Rendered(turns[Len(turns) - k + 1])
  IN sum[n]

(* Mutant: turns are kept from the oldest on. *)
RenderOldest(turns, system) ==
  LET fits == {k \in 0..Len(turns) : Newest(SubSeq(turns, 1, k), k) <= PromptMax}
      kept == CHOOSE k \in fits : \A j \in fits : j <= k
      size == Newest(SubSeq(turns, 1, kept), kept)
  IN [kept |-> kept, system |-> FALSE, size |-> size]

(* RenderProbePrompt: the newest turns that fit, at least one, then the    *)
(* system turn if it still fits.                                           *)
Render(turns, system) ==
  LET keep[k \in 0..Len(turns)] ==
        IF k = Len(turns) \/ (k > 0 /\ Newest(turns, k + 1) > PromptMax)
        THEN k ELSE keep[k + 1]
      used == Newest(turns, keep[0])
      head == Overhead + SmallerOf(system, TurnMax)
      fits == system > 0 /\ used + head <= PromptMax
  IN [kept |-> keep[0], system |-> fits, size |-> IF fits THEN used + head ELSE used]

(* MockProbe's t; its w is any, as keywords are anywhere. *)
MockT(size) == SmallerOf(LargerOf(size \div 4, MockFloor), MockCap)

(* HTTPProbe.Predict: where a prediction is looked for, in this order; a   *)
(* field is absent (<<>>), or a prediction, or text that is not one.       *)
Absent == <<>>
IsPrediction(x) == Len(x) = 2
Predicted(a) ==
  IF ~a.reached \/ a.status \notin 200..299 \/ ~a.decodes THEN Absent
  ELSE IF a.prediction # Absent THEN a.prediction
  ELSE IF IsPrediction(a.raw) THEN a.raw
  ELSE IF a.content # Absent THEN (IF IsPrediction(a.content) THEN a.content ELSE Absent)
  ELSE a.bare

(* Mutant: only w makes a rule need the probe. *)
NeedsProbeForW(S) == \E r \in S : Compiles(r.expr) /\ "w" \in References(r.expr)

NeedsProbe(S) == \E r \in S : Compiles(r.expr) /\ References(r.expr) \cap {"w", "t"} # {}

StoreError ==
  /\ storeErrors < MaxStoreErrors
  /\ storeErrors' = storeErrors + 1

(* enabledRulesByPriority, and compiling each rule's expression. *)
LoadRules ==
  LET S == {[f \in {"id"} \cup DOMAIN rules[i] |-> IF f = "id" THEN i ELSE rules[i][f]]
            : i \in {i \in RuleIds : rules[i] # NoRow /\ rules[i].enabled}}
  IN /\ at = "rules"
     /\ snap' = S
     /\ at' = IF NeedsProbe(S) THEN "mock" ELSE "channels"
     /\ UNCHANGED <<edited, storeErrors, req, prompt, probe, w, t, matched, pool,
                    order, cap>>

Asked == prompt' = Render(req.turns, req.system)

(* The resolver reads RouterProbeMock, whose default is the mock; a read   *)
(* that fails gives the default.                                           *)
AskMock ==
  /\ at = "mock"
  /\ \/ options.mock # "false" /\ UNCHANGED storeErrors
     \/ StoreError
  /\ Asked
  /\ w' \in {0, 1} /\ t' = MockT(Render(req.turns, req.system).size)
  /\ probe' = "mock"
  /\ at' = "channels"
  /\ UNCHANGED <<edited, req, snap, matched, pool, order, cap>>

MockOff ==
  /\ at = "mock" /\ options.mock = "false"
  /\ at' = "url"
  /\ UNCHANGED <<edited, storeErrors, req, snap, prompt, probe, w, t, matched,
                 pool, order, cap>>

NoProbe ==
  /\ at = "url"
  /\ \/ options.url = "" /\ UNCHANGED storeErrors
     \/ StoreError
  /\ at' = "channels"
  /\ UNCHANGED <<edited, req, snap, prompt, probe, w, t, matched, pool, order, cap>>

(* A probe that fails leaves both signals 0. *)
AskHTTP(a) ==
  LET p == Predicted(a) IN
  /\ at = "url" /\ options.url # ""
  /\ Asked
  /\ IF p = Absent THEN probe' = "failed" /\ UNCHANGED <<w, t>>
     ELSE probe' = "http" /\ w' = p[1] /\ t' = p[2]
  /\ at' = "channels"
  /\ UNCHANGED <<edited, storeErrors, req, snap, matched, pool, order, cap>>

-----------------------------------------------------------------------------
(* Candidates and their order. *)

EffectiveModel(r) == IF r # NoRow /\ r.target # NoModel THEN r.target ELSE req.model

Pinned(r) == r # NoRow /\ (r.ids # {} \/ r.group # NoGroup)

Serves(c, name) == name \in channels[c].models \/ name \in channels[c].mapped

(* Mutant: target_group restricts target_channel_ids further. *)
CandidatesBoth(r) ==
  {c \in ChannelIds :
     /\ channels[c].enabled
     /\ r # NoRow /\ r.ids # {} => c \in r.ids
     /\ r # NoRow /\ r.group # NoGroup => channels[c].group = r.group
     /\ ~Pinned(r) => Serves(c, EffectiveModel(r))}

(* candidateChannels: explicit ids before a group, and either of them      *)
(* before the model's name.                                                *)
Candidates(r) ==
  {c \in ChannelIds :
     /\ channels[c].enabled
     /\ r # NoRow /\ r.ids # {} => c \in r.ids
     /\ r # NoRow /\ r.ids = {} /\ r.group # NoGroup => channels[c].group = r.group
     /\ ~Pinned(r) => Serves(c, EffectiveModel(r))}

(* The rows are read once: later steps use what was read.                  *)
LoadChannels ==
  LET r == Match(snap, w, t)
      found == Candidates(r)
  IN /\ at = "channels"
     /\ matched' = r
     /\ pool' = {[id |-> c, priority |-> channels[c].priority,
                  weight |-> channels[c].weight] : c \in found}
     /\ at' = IF found = {} THEN "nocandidate" ELSE "balance"
     /\ UNCHANGED <<edited, storeErrors, req, snap, prompt, probe, w, t, order, cap>>

RouteFails ==
  /\ at \in {"rules", "channels"}
  /\ StoreError
  /\ at' = "error"
  /\ UNCHANGED <<edited, req, snap, prompt, probe, w, t, matched, pool, order, cap>>

(* Mutant: a weight is used as it is. *)
RawWeight(c) == c.weight

EffectiveWeight(c) == IF c.weight <= 0 THEN 1 ELSE c.weight

Weigh(S) ==
  LET sum[T \in SUBSET S] ==
        IF T = {} THEN 0
        ELSE LET c == CHOOSE c \in T : TRUE IN EffectiveWeight(c) + sum[T \ {c}]
  IN sum[S]

(* The bucket of the highest priority left, and what weightedShuffle takes *)
(* of it for the random number n.                                          *)
Bucket(S) == {c \in S : \A d \in S : d.priority <= c.priority}

Drawn(S, n) ==
  LET upTo(c) == {d \in S : d.id <= c.id}
      over == {c \in S : n < Weigh(upTo(c))}
  IN CHOOSE c \in over : \A d \in over : c.id <= d.id

Numbers(S) == 0..Weigh(S) - 1

Draw ==
  /\ at = "balance" /\ pool # {}
  /\ \E n \in Numbers(Bucket(pool)) :
       LET c == Drawn(Bucket(pool), n)
       IN order' = Append(order, c) /\ pool' = pool \ {c}
  /\ UNCHANGED <<edited, storeErrors, req, at, snap, prompt, probe, w, t, matched, cap>>

(* Mutant: an option that is not set is used as 0. *)
ReadRetriesUnchecked ==
  /\ at = "balance" /\ pool = {}
  /\ cap' = options.retries
  /\ at' = "selected"
  /\ UNCHANGED <<edited, storeErrors, req, snap, prompt, probe, w, t, matched, pool, order>>

(* maxRetries: the option if it is positive, else, or if it cannot be      *)
(* read, the default.                                                      *)
ReadRetries ==
  /\ at = "balance" /\ pool = {}
  /\ \/ /\ cap' = IF options.retries > 0 THEN options.retries ELSE DefaultMaxRetries
        /\ UNCHANGED storeErrors
     \/ StoreError /\ cap' = DefaultMaxRetries
  /\ at' = "selected"
  /\ UNCHANGED <<edited, req, snap, prompt, probe, w, t, matched, pool, order>>

Select ==
  \/ LoadRules \/ AskMock \/ MockOff \/ NoProbe
  \/ \E a \in Answers : AskHTTP(a)
  \/ LoadChannels \/ RouteFails \/ Draw \/ ReadRetries

Next ==
  \/ Select
  \/ \E e \in Editors :
       /\ \/ Edit(e) /\ UNCHANGED storeErrors
          \/ EditFails(e)
       /\ UNCHANGED <<req, at, snap, prompt, probe, w, t, matched, pool, order, cap>>

Spec == Init /\ [][Next]_vars

-----------------------------------------------------------------------------
(* Properties. *)

Done == {"selected", "nocandidate", "error"}

(* The types of the variables. *)
TypeOK ==
  /\ \A id \in RuleIds : rules[id] = NoRow \/ IsRule(rules[id])
  /\ channels \in [ChannelIds -> Channels]
  /\ options \in [mock : {"", "true", "false"}, url : {"", "http"}, retries : {0, 1}]
  /\ \A e \in Editors :
       editor[e].at \in {"idle", "refused", "insert", "disable", "save", "url"}
  /\ edits \in 0..MaxEdits /\ storeErrors \in 0..MaxStoreErrors
  /\ req \in Requests
  /\ at \in {"rules", "mock", "url", "channels", "balance"} \cup Done
  /\ \A r \in snap : r.id \in RuleIds /\ r.enabled
  /\ prompt.kept \in 0..Len(req.turns) /\ prompt.size \in Nat
  /\ probe \in {"none", "mock", "http", "failed"} /\ w \in Int /\ t \in Int
  /\ matched = NoRow \/ matched \in snap
  /\ {c.id : c \in pool} \subseteq ChannelIds
  /\ order \in Seq([id : ChannelIds, priority : Int, weight : Int])
  /\ cap \in Nat /\ (at = "selected" <=> cap > 0)

(* What a pattern with stars means, letter by letter: whether it can be    *)
(* filled in from its i-th letter on to s from its j-th on.                *)
GlobStep(g, pattern, s, i, j) ==
  IF i = Len(pattern) THEN j = Len(s)
  ELSE IF pattern[i + 1] = "*" THEN \E k \in j..Len(s) : g[<<i + 1, k>>]
  ELSE j < Len(s) /\ pattern[i + 1] = s[j + 1] /\ g[<<i + 1, j + 1>>]

Glob(pattern, s) ==
  LET g[q \in (0..Len(pattern)) \X (0..Len(s))] == GlobStep(g, pattern, s, q[1], q[2])
  IN g[<<0, 0>>]

(* What an administrator writes is what the engine decides by: a pattern   *)
(* matches the names that its stars can be filled in to, an expression is  *)
(* accepted and evaluated as the grammar of the package comment says, and  *)
(* only expressions that the grammar has are ever stored ("validated on    *)
(* save"), which is what lets the engine skip the others silently.         *)
ConditionsMeanWhatTheySay ==
  /\ \A e \in Editors : MeansWhatItSays(editor[e].source, Env(w, t))
  /\ \A id \in RuleIds : rules[id] # NoRow =>
       /\ \A p \in rules[id].patterns : ModelMatches(p, req.model) <=> Glob(p, req.model)
       /\ \E m \in Derivations(rules[id].expr, Env(w, t)) : m.typ = "bool"

(* The probe is invoked on demand.  When it is not, because no expression  *)
(* of an enabled rule was found to refer to w or t, the decision is the    *)
(* one any prediction would have led to.                                   *)
ProbeSkippedSafely ==
  at \in {"balance", "nocandidate", "selected"} /\ ~NeedsProbe(snap) =>
    \A ww \in {0, 1}, tt \in {0, 1, 2} : Match(snap, ww, tt) = matched

(* The prompt keeps the newest turns, without a gap and as many as fit,    *)
(* and stays within its limit unless the newest turn alone is beyond it,   *)
(* as one of wide characters may be: the limit on a turn counts            *)
(* characters, the one on the prompt bytes.                                *)
PromptKeepsRecent ==
  prompt # NoPrompt =>
    /\ \/ prompt.size <= PromptMax
       \/ prompt.kept = 1 /\ ~prompt.system
    /\ prompt.size = Newest(req.turns, prompt.kept)
                     + (IF prompt.system THEN Overhead + SmallerOf(req.system, TurnMax) ELSE 0)
    /\ prompt.kept < Len(req.turns) =>
         prompt.kept > 0 /\ Newest(req.turns, prompt.kept + 1) > PromptMax

(* The first enabled rule that holds decides alone: its targets are the    *)
(* candidates whatever models they list, and when none of them is enabled  *)
(* the request fails, without another rule or the fallback being tried.    *)
TargetsDecide ==
  [][at = "channels" /\ at' \in {"balance", "nocandidate"} =>
       LET ids == {c.id : c \in pool'}
           on == {c \in ChannelIds : channels[c].enabled}
           model == IF matched' # NoRow /\ matched'.target # NoModel
                    THEN matched'.target ELSE req.model
       IN /\ \A r \in snap : RuleMatches(r) /\ ExprHolds(r, w, t) =>
               matched' = r \/ Before(matched', r)
          /\ ids = IF matched' # NoRow /\ matched'.ids # {} THEN on \cap matched'.ids
                   ELSE IF matched' # NoRow /\ matched'.group # NoGroup
                   THEN {c \in on : channels[c].group = matched'.group}
                   ELSE {c \in on : model \in channels[c].models \cup channels[c].mapped}
          /\ at' = "nocandidate" <=> ids = {}]_vars

(* Candidates are tried by descending priority, each once, and whatever    *)
(* the weights (zero and negative ones are accepted by the form) any of    *)
(* the highest priority left can come next.                                *)
EveryCandidateMayLead ==
  /\ at = "balance" /\ pool # {} =>
       {Drawn(Bucket(pool), n) : n \in Numbers(Bucket(pool))} = Bucket(pool)
  /\ \A i, j \in DOMAIN order : i < j =>
       order[i] # order[j] /\ order[i].priority >= order[j].priority
  /\ \A i \in DOMAIN order, c \in pool : order[i].priority >= c.priority
=============================================================================

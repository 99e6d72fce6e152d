----------------------------- MODULE MCCatalog -----------------------------
(* Two administrators, one test and a failing statement at a time. *)
EXTENDS TestChat, TLC

MCModels == {"m1", "m2"}

(* An openai channel, a bedrock channel whose profile is turned off, edits *)
(* of the type and of the models, and a type that is refused.              *)
MCBodies ==
  {[name |-> "n", type |-> "openai", base |-> TRUE, models |-> <<"m1">>],
   [name |-> "n", type |-> "bedrock", region |-> TRUE, profile |-> FALSE],
   [type |-> "anthropic"],
   [name |-> "n", type |-> "unknown"]}

MCRates ==
  {[input |-> 2, output |-> 3, read |-> 1, write |-> 0],
   [input |-> 0, output |-> 3, read |-> 0, write |-> 0],
   [input |-> 2, output |-> 3, read |-> 0, write |-> -1]}

Entry(id, modes) == [id |-> id, modes |-> modes]
Reply(status, parses, entries) ==
  [status |-> status, parses |-> parses, entries |-> entries]

(* A list with a model that takes no text and one without an id, an empty  *)
(* list, and a path that does not exist; no reply at all differs from that *)
(* only for an openai channel, which then does not try the second path.    *)
MCReplies ==
  {Reply(200, TRUE, <<Entry("m2", "text"), Entry("", "any"),
                      Entry("v", "other")>>),
   Reply(200, TRUE, <<>>), Reply(404, FALSE, <<>>)}

(* Alone, the second spends less than nothing at the first rate. *)
MCUsages ==
  {[prompt |-> 2, completion |-> 0, read |-> 1, write |-> 0],
   [prompt |-> 0, completion |-> 1, read |-> -4, write |-> 0]}

(* The administrators are interchangeable; no property names one. *)
MCSymmetry == Permutations(Admins)

=============================================================================

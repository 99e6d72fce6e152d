------------------------------ MODULE MCQuota ------------------------------
(* Instances of Quota for TLC: two users' worth of entities are not needed *)
(* because levels are independent; one user with one or two keys is.       *)
EXTENDS Quota

CONSTANTS r1, r2, t1, t2, u1, c1, c2, x1, x2

OneOwner == [t \in Tokens |-> u1]

(* Both requests use the same key, through different replicas. *)
SameToken == [c \in Calls |-> t1]
Spread == [c \in Calls |-> IF c = c1 THEN r1 ELSE r2]
AllOnR1 == [c \in Calls |-> r1]
(* The requests use different keys of one user. *)
OwnToken == [c \in Calls |-> IF c = c1 THEN t1 ELSE t2]

(* The user's quota is 2; keys have none of their own. *)
UserLimit == [e \in Entities |-> IF e \in Users THEN 2 ELSE -1]
(* The key is limited to 1 and the user to 2. *)
BothLimits == [e \in Entities |-> IF e \in Users THEN 2 ELSE 1]
NoLimits == [e \in Entities |-> -1]

Unused == [e \in Entities |-> 0]
UsedTwo == [e \in Entities |-> 2]

ResetOnR1 == [x \in Resets |-> r1]
ResetU1 == [x \in Resets |-> u1]
EditT1 == [x \in Edits |-> t1]
=============================================================================

------------------------------ MODULE MCRelay ------------------------------
(* An instance of Relay for TLC: a request, streaming or not, over         *)
(* channels of two priorities, any of which may be disabled or unpriced.   *)
EXTENDS Relay

CONSTANTS r1, c1, c2, c3

(* c1 and c2 are tried in either order before c3. *)
TwoTiers == [c \in Channels |-> IF c = c3 THEN 1 ELSE 2]
=============================================================================

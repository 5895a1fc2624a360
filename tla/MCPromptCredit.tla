--------------------------- MODULE MCPromptCredit ---------------------------
(* Small instances of PromptCredit for TLC: a call, the same call sent again,
   one with the same id and another content, one of another user that happens
   to use the id, and one of the first user with an id of its own. *)
EXTENDS PromptCredit

CONSTANTS first, again, edited, foreign, second, id, id2, alice, bob, p1, p2

MCRequest == [c \in Calls |-> IF c = second THEN id2 ELSE id]
MCOwner == [c \in Calls |-> IF c = foreign THEN bob ELSE alice]
MCContent == [c \in Calls |-> IF c = edited THEN p2 ELSE p1]

Faults == [d \in Disturbances |-> 1]
NoFault == [d \in Disturbances |-> 0]

=============================================================================

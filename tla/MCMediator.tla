------------------------------ MODULE MCMediator ------------------------------
(* Values of the constants of Mediator for TLC *)
EXTENDS Mediator

\* Each peer has one interface, or the first one reaches the mediator over two.
MCOneEach == [plain |-> {{"a1"}}, complementary |-> {{"b1"}}]
MCTwoAndOne == [plain |-> {{"a1", "a2"}}, complementary |-> {{"b1"}}]
=============================================================================

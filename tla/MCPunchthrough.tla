---------------------------- MODULE MCPunchthrough ----------------------------
(* Topologies for Punchthrough. *)
EXTENDS Punchthrough, TLC

\* Both peers behind one NAT, which takes packets back in.
Nearby == [inner |-> [a |-> "a1", b |-> "b1"], outer |-> [a |-> "a2", b |-> "b2"],
           seen |-> [a |-> ("b1" :> "a1" @@ "b2" :> "a2"), b |-> ("a1" :> "b1" @@ "a2" :> "b2")]]

\* Each behind a NAT of its own.
Apart == [Nearby EXCEPT !.seen = [a |-> ("b1" :> Lost @@ "b2" :> "a2"),
                                  b |-> ("a1" :> Lost @@ "a2" :> "b2")]]

\* One without a NAT.
Public == [inner |-> [a |-> "a1", b |-> "b2"], outer |-> [a |-> "a2", b |-> "b2"],
           seen |-> [a |-> ("b2" :> "a2"), b |-> ("a1" :> Lost @@ "a2" :> "b2")]]

\* One behind a NAT that takes another port for each destination.
Symmetric == [Apart EXCEPT !.seen = [a |-> ("b1" :> Lost @@ "b2" :> "a3"),
                                     b |-> ("a1" :> Lost @@ "a2" :> Lost @@ "a3" :> "b2")]]

MCTwoWay == {Nearby, Apart, Public}
MCOneWay == {Symmetric}
=============================================================================

----------------------------- MODULE MCSendQueue -----------------------------
(* Values of the constants of SendQueue for TLC *)
EXTENDS SendQueue

\* Two priorities on one channel, and an immediate message on another.
MCKinds == {[priority |-> 1, channel |-> 1, size |-> 1],
            [priority |-> 2, channel |-> 1, size |-> 2],
            [priority |-> 0, channel |-> 2, size |-> 1]}
=============================================================================

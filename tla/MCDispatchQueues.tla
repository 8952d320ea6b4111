---------------------------- MODULE MCDispatchQueues ----------------------------
(* Instances of DispatchQueues for TLC. *)
EXTENDS DispatchQueues

\* Each connection has a queue of its own, all share one, or the socket's is theirs too.
MCOwnQueues    == <<"first", "second">>
MCSharedQueue  == <<"shared", "shared">>
MCMainQueue    == <<"socket", "socket">>
=============================================================================

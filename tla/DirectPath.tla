------------------------------ MODULE DirectPath ------------------------------
(***************************************************************************)
(* What NAT punchthrough promises two peers, whatever their addresses are: *)
(* each goes from the relay of the mediator to a direct path, if it goes,  *)
(* and from the outer address of the other one to the inner, never back;   *)
(* and nobody gives up the relay of the first sessions before one of them  *)
(* has gone.  Later sessions may lose it to a late word of earlier ones.   *)
(***************************************************************************)
EXTENDS Naturals

CONSTANT Peers

VARIABLES path,    \* of each peer: to the mediator, or to one address of the other peer
          relay,   \* the mediator connects the two
          ended    \* how many sessions have ended

Relayed == [s \in Peers |-> "relay"]

Init == path = Relayed /\ relay = TRUE /\ ended = 0

GoDirect(s) ==
  /\ path[s] = "relay"
  /\ \E address \in {"outer", "inner"} : path' = [path EXCEPT ![s] = address]
  /\ UNCHANGED <<relay, ended>>

GoInner(s) ==
  /\ path[s] = "outer" /\ path' = [path EXCEPT ![s] = "inner"]
  /\ UNCHANGED <<relay, ended>>

GiveUpRelay ==
  /\ path # Relayed \/ ended > 0
  /\ relay' = FALSE /\ UNCHANGED <<path, ended>>

\* A session ends and another one begins; the mediator pairs new ones only.
NewSession(s) ==
  /\ path' = [path EXCEPT ![s] = "relay"] /\ relay' = FALSE
  /\ ended' = ended + 1
Pair ==
  /\ path = Relayed
  /\ relay' = TRUE /\ UNCHANGED <<path, ended>>

Next ==
  \/ \E s \in Peers : GoDirect(s) \/ GoInner(s) \/ NewSession(s)
  \/ GiveUpRelay \/ Pair

Spec == Init /\ [][Next]_<<path, relay, ended>>
=============================================================================

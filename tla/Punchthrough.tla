----------------------------- MODULE Punchthrough -----------------------------
(***************************************************************************)
(* NAT punchthrough: the way of two peers, which the mediator relays and   *)
(* has introduced to one another, to a direct path, EmiNatPunchthrough     *)
(* with what EmiLogicalConnection and EmiMessageHandler do for it.         *)
(*                                                                         *)
(* Each peer decides on its own.  It sends PRX-SYN to the inner and to the *)
(* outer address of the other one, takes the address that PRX-SYN-ACK      *)
(* comes from for the remote address of the connection, and then has the   *)
(* mediator forget both of them.  What addresses lead where is part of the *)
(* topology.  The network loses, delays, reorders and duplicates packets.  *)
(*                                                                         *)
(* The hashes of PRX-SYN and PRX-SYN-ACK are valid for whoever knows the   *)
(* endpoints: a peer that restarts gets the port that it had.  Heartbeats  *)
(* carry no message, so that none of this hears of them.  How connections  *)
(* open and the mediator pairs them is the module Mediator.                *)
(***************************************************************************)
EXTENDS Integers, FiniteSets

CONSTANTS
  Topologies,     \* inner and outer addresses, and what a peer sees of the other one
  MaxRestarts,    \* bound: sessions that end and begin anew
  MaxFaults,      \* bound: packets that the network loses or duplicates
  MaxInFlight     \* bound: packets that it holds when a peer or a timer sends more

Sides    == {"a", "b"}
Other(s) == IF s = "a" THEN "b" ELSE "a"
Mediator == "mediator"
Lost     == "lost"

ASSUME TopologyAssumption ==
  /\ {MaxRestarts, MaxFaults, MaxInFlight} \subseteq Nat
  /\ \A t \in Topologies, s \in Sides :
       /\ {t.inner[Other(s)], t.outer[Other(s)]} \subseteq DOMAIN t.seen[s]
       /\ Mediator \notin DOMAIN t.seen[s]
       /\ Mediator \notin {t.seen[s][d] : d \in DOMAIN t.seen[s]}

VARIABLES
  topology,   \* never changes
  peer,       \* the connection object of each peer
  relay,      \* the mediator has the connection of the two
  net,        \* packets in the network
  restarts,   \* what was used of the bounds
  faults

vars == <<topology, peer, relay, net, restarts, faults>>

\* A session, relayed and not introduced yet.  There is a _natPunchthrough object
\* unless phase is "none"; told is the last emiNatPunchthroughFinished.
NewSession ==
  [remote |-> Mediator, introduced |-> FALSE, phase |-> "none", timer |-> FALSE,
   told |-> "nothing", aborted |-> FALSE]

Init ==
  /\ topology \in Topologies
  /\ peer = [s \in Sides |-> NewSession] /\ relay = TRUE
  /\ net = {} /\ restarts = 0 /\ faults = 0

Inner(s)  == topology.inner[s]
Outer(s)  == topology.outer[s]
Direct(s) == peer[s].remote # Mediator

-----------------------------------------------------------------------------
(* Packets *)

\* What peer s sends to address d, as it gets to the other peer.
ToPeer(type, s, d) ==
  IF d \notin DOMAIN topology.seen[s] \/ topology.seen[s][d] = Lost THEN {}
  ELSE {[type |-> type, to |-> Other(s), from |-> topology.seen[s][d]]}

ToMediator(type, s)   == {[type |-> type, to |-> Mediator, from |-> s]}
FromMediator(type, s) == {[type |-> type, to |-> s, from |-> Mediator]}

\* Packet p is taken from the network, or a duplicate of it, and others are sent.
Exchange(p, sent) ==
  \/ net' = (net \ {p}) \cup sent /\ UNCHANGED faults
  \/ /\ faults < MaxFaults /\ faults' = faults + 1
     /\ net' = net \cup sent

\* A peer or a timer sends; of two equal packets the network keeps one.
Send(sent) ==
  /\ Cardinality(net) < MaxInFlight
  /\ net' = net \cup sent /\ UNCHANGED faults

Lose(p) ==
  /\ faults < MaxFaults /\ faults' = faults + 1
  /\ net' = net \ {p}
  /\ UNCHANGED <<topology, peer, relay, restarts>>

PrxSynPackets(s) ==
  ToPeer("PRX-SYN", s, Inner(Other(s))) \cup ToPeer("PRX-SYN", s, Outer(Other(s)))

\* The connection of s becomes c.
Becomes(s, c) == peer' = [peer EXCEPT ![s] = c]

-----------------------------------------------------------------------------
(* The connection through the mediator *)

\* PRX-RST-SYN-ACK: the endpoints are known and the punchthrough begins.
GotPrxRstSynAck(s) ==
  /\ relay /\ ~Direct(s) /\ peer[s].phase = "none" /\ ~peer[s].aborted
  /\ Becomes(s, [peer[s] EXCEPT !.introduced = TRUE, !.phase = "punching", !.timer = TRUE])
  /\ Send(PrxSynPackets(s))
  /\ UNCHANGED <<topology, relay, restarts>>

\* The process ends and another one connects from the same port: the mediator
\* forgets the connection of both.
Restart(s) ==
  /\ restarts < MaxRestarts /\ restarts' = restarts + 1
  /\ Becomes(s, NewSession) /\ relay' = FALSE
  /\ UNCHANGED <<topology, net, faults>>

\* The mediator has paired two new sessions.
Paired ==
  /\ ~relay /\ \A s \in Sides : peer[s] = NewSession
  /\ relay' = TRUE
  /\ UNCHANGED <<topology, peer, net, restarts, faults>>

\* A peer has switched to the direct path: the mediator forgets both, and answers
\* also if it has forgotten them before.  The mutant answers only if it has not.
AnswerPrxRstIfKnown(p) == IF relay THEN FromMediator("PRX-RST-ACK", p.from) ELSE {}
AnswerPrxRst(p) == FromMediator("PRX-RST-ACK", p.from)
MediatorGotPrxRst(p) ==
  /\ p.to = Mediator /\ p.type = "PRX-RST"
  /\ relay' = FALSE
  /\ Exchange(p, AnswerPrxRst(p))
  /\ UNCHANGED <<topology, peer, restarts>>

-----------------------------------------------------------------------------
(* The punchthrough *)

\* RTO timer: resend PRX-SYN, or PRX-RST.
RtoTimeout(s) ==
  /\ \/ peer[s].phase = "punching" /\ Send(PrxSynPackets(s))
     \/ peer[s].phase = "teardown" /\ Send(ToMediator("PRX-RST", s))
  /\ UNCHANGED <<topology, peer, relay, restarts>>

\* The object is deleted, and its timers with it, which the mutant leaves running.
TornDownOnly(c) == [c EXCEPT !.phase = "none"]
TornDown(c) == [c EXCEPT !.phase = "none", !.timer = FALSE]

\* The connection timer, once for each object, which remains when it failed.
\* The mutant reports failure in either phase.
TimedOutEither(c) == [c EXCEPT !.timer = FALSE, !.told = "failed"]
TimedOut(c) ==
  IF c.phase = "teardown" THEN TornDown(c)
  ELSE [c EXCEPT !.timer = FALSE, !.told = "failed"]
ConnectionTimeout(s) ==
  /\ peer[s].timer /\ peer[s].phase # "none"
  /\ Becomes(s, TimedOut(peer[s]))
  /\ UNCHANGED <<topology, relay, net, restarts, faults>>

\* Whoever knows the endpoints answers, also without an object.  The mutant
\* answers before it knows them.
AnswerPrxSynAlways(p, s) == ToPeer("PRX-SYN-ACK", s, p.from)
AnswerPrxSyn(p, s) ==
  IF peer[s].introduced THEN ToPeer("PRX-SYN-ACK", s, p.from) ELSE {}
GotPrxSyn(p, s) ==
  /\ p.type = "PRX-SYN" /\ p.to = s /\ ~peer[s].aborted
  /\ Exchange(p, AnswerPrxSyn(p, s)) /\ UNCHANGED peer

\* The first PRX-SYN-ACK decides.
GotFirstPrxSynAck(p, s) ==
  /\ p.type = "PRX-SYN-ACK" /\ p.to = s /\ ~peer[s].aborted
  /\ peer[s].phase = "punching"
  /\ Becomes(s, [peer[s] EXCEPT !.remote = p.from, !.phase = "teardown", !.told = "succeeded"])
  /\ Exchange(p, ToMediator("PRX-RST", s))

\* Once the mediator is left behind, the inner address has priority.  The mutant
\* follows every answer.
SwitchesAlways(p, s) == peer[s].introduced
Switches(p, s) ==
  peer[s].introduced /\ p.from = Inner(Other(s)) /\ peer[s].remote = Outer(Other(s))
GotLaterPrxSynAck(p, s) ==
  /\ p.type = "PRX-SYN-ACK" /\ p.to = s /\ ~peer[s].aborted
  /\ peer[s].phase # "punching"
  /\ Becomes(s, IF peer[s].phase = "none" /\ Switches(p, s)
                THEN [peer[s] EXCEPT !.remote = p.from] ELSE peer[s])
  /\ Exchange(p, {})

\* It is not checked that there was a PRX-RST.
GotPrxRstAck(p, s) ==
  /\ p.type = "PRX-RST-ACK" /\ p.to = s /\ ~peer[s].aborted
  /\ Becomes(s, TornDown(peer[s])) /\ Exchange(p, {})

-----------------------------------------------------------------------------
(* Messages of the application, acknowledgements and so on *)

SendMessage(s) ==
  /\ ~peer[s].aborted /\ (relay \/ Direct(s))
  /\ Send(IF Direct(s) THEN ToPeer("DATA", s, peer[s].remote) ELSE FromMediator("DATA", Other(s)))
  /\ UNCHANGED <<topology, peer, relay, restarts>>

GotExpected(p, s) ==
  /\ p.type = "DATA" /\ p.to = s /\ ~peer[s].aborted
  /\ p.from = peer[s].remote
  /\ Exchange(p, {}) /\ UNCHANGED peer

\* A peer that uses the inner address and hears from the outer one tells the other
\* one of it.  extractAddress asserts that there are endpoints.  The mutant drops
\* the packet.
TellInnerNot(p, s) == {}
TellInner(p, s) ==
  IF p.from = Outer(Other(s)) /\ peer[s].remote = Inner(Other(s))
  THEN ToPeer("PRX-SYN-ACK", s, Inner(Other(s))) ELSE {}
GotUnexpected(p, s) ==
  /\ p.type = "DATA" /\ p.to = s /\ ~peer[s].aborted
  /\ p.from # peer[s].remote
  /\ IF peer[s].introduced
     THEN Exchange(p, TellInner(p, s)) /\ UNCHANGED peer
     ELSE Exchange(p, {}) /\ Becomes(s, [NewSession EXCEPT !.aborted = TRUE])

\* Nobody is there any more.
Unheard(p, s) ==
  /\ p.to = s /\ peer[s].aborted
  /\ Exchange(p, {}) /\ UNCHANGED peer

Receives(p, s) ==
  /\ \/ GotPrxSyn(p, s) \/ GotFirstPrxSynAck(p, s) \/ GotLaterPrxSynAck(p, s)
     \/ GotPrxRstAck(p, s) \/ GotExpected(p, s) \/ GotUnexpected(p, s) \/ Unheard(p, s)
  /\ UNCHANGED <<topology, relay, restarts>>

-----------------------------------------------------------------------------
Next ==
  \/ \E s \in Sides : \/ GotPrxRstSynAck(s) \/ Restart(s) \/ RtoTimeout(s)
                      \/ ConnectionTimeout(s) \/ SendMessage(s)
  \/ Paired
  \/ \E p \in net : \/ Lose(p) \/ MediatorGotPrxRst(p)
                    \/ \E s \in Sides : Receives(p, s)

Spec == Init /\ [][Next]_vars

\* The addresses that packets to s come from.
PeerSources(s) ==
  UNION {{t.seen[Other(s)][d] : d \in DOMAIN t.seen[Other(s)]} \ {Lost} : t \in Topologies}

(***************************************************************************)
(* RTO timers fire, the network delivers, and each application sends a     *)
(* message now and then, or one that is resent.  Neither the introduction  *)
(* of a peer nor the connection timer has to happen.                       *)
(***************************************************************************)
Fairness ==
  \A s \in Sides :
    /\ SF_vars(RtoTimeout(s)) /\ SF_vars(SendMessage(s))
    /\ WF_vars(\E p \in net : p.from = s /\ MediatorGotPrxRst(p))
    /\ WF_vars(\E p \in net : p.from = Mediator /\ Receives(p, s))
    /\ \A t \in {"PRX-SYN", "PRX-SYN-ACK", "DATA"}, f \in PeerSources(s) :
         WF_vars(\E p \in net : p.type = t /\ p.from = f /\ Receives(p, s))

FairSpec == Spec /\ Fairness

-----------------------------------------------------------------------------
(* Properties *)

\* What a peer sends over its direct path gets to the other one, which expects it
\* from there.
Matching ==
  \A s \in Sides :
    /\ Direct(s) /\ peer[s].remote \in DOMAIN topology.seen[s]
    /\ topology.seen[s][peer[s].remote] = peer[Other(s)].remote

\* The types of the state, and what goes with the phase of a punchthrough: the
\* object exists only for peers that were introduced, its timer only with it, and
\* a peer is direct as soon as it is tearing down.
TypeOK ==
  /\ topology \in Topologies /\ relay \in BOOLEAN
  /\ restarts \in 0 .. MaxRestarts /\ faults \in 0 .. MaxFaults
  /\ \A s \in Sides :
       LET c == peer[s] IN
       /\ c.told \in {"nothing", "failed", "succeeded"}
       /\ c.phase \in {"none", "punching", "teardown"}
       /\ c.phase # "none" => c.introduced
       /\ c.timer => c.phase # "none"
       /\ c.phase = "teardown" => Direct(s)
       /\ c.aborted => c = [NewSession EXCEPT !.aborted = TRUE]

\* The mediator forgets both peers as soon as one of them tells it to.  By then
\* the other one has been introduced as well, and can still punch through.
NobodyIsStranded == ~relay /\ restarts = 0 => \A s \in Sides : peer[s].introduced

\* getP2PState is ESTABLISHED exactly if the last thing that the application was
\* told is that the punchthrough succeeded, however the connection timer, late
\* answers and the teardown follow one another.
StateIsTold ==
  /\ TypeOK
  /\ \A s \in Sides : Direct(s) <=> peer[s].told = "succeeded"

\* EmiLogicalConnection.h: "the protocol specifies that the inner endpoint has
\* priority".  Whatever arrives, a peer that is direct remains so, changes at most to
\* the inner address, and never leaves it; and the relay of the first sessions is not
\* given up before.
PathOf(s) == IF peer[s].remote = Mediator THEN "relay"
             ELSE IF peer[s].remote = Inner(Other(s)) THEN "inner" ELSE "outer"
Paths == INSTANCE DirectPath WITH Peers <- Sides, path <- [s \in Sides |-> PathOf(s)],
                                  relay <- relay, ended <- restarts
ImplementsDirectPath == Paths!Spec

\* Two peers that were introduced find one another on paths that match, and stay
\* there, although each chooses for itself: if one takes the inner address and
\* the other one the outer, they agree in the end.
PeersMeet ==
  (\A s \in Sides : peer[s].introduced) ~> ([]Matching \/ restarts > 0)

\* A peer stops telling the mediator that it has left, also if the other peer was
\* there first.
TeardownEnds == \A s \in Sides : peer[s].phase = "teardown" ~> peer[s].phase # "teardown"

\* src/README.md: the mediator "acts as a proxy (possibly with a rate limit for
\* each connection) if necessary".  A peer that was told that the punchthrough
\* failed, with the other one alive, is relayed.
FailedIsRelayed ==
  restarts = 0 => \A s \in Sides : peer[s].told = "failed" => relay

\* extractAddress asserts that it has endpoints to extract from.
AssertionsHold == \A s \in Sides : ~peer[s].aborted
=============================================================================

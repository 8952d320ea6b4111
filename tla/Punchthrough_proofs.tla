------------------------- MODULE Punchthrough_proofs -------------------------
(***************************************************************************)
(* Proofs about NAT punchthrough, for every set of topologies and every    *)
(* bound: the application is told what is the case, nobody is left without *)
(* a relay before it knows where the other peer is, and DirectPath is      *)
(* implemented.                                                            *)
(***************************************************************************)
EXTENDS Punchthrough, TLAPS

-----------------------------------------------------------------------------
(* The inductive invariant *)

\* The addresses that packets of a peer come from.
Sources ==
  {a \in UNION {UNION {{t.seen[s][d] : d \in DOMAIN t.seen[s]} : s \in Sides} : t \in Topologies} :
     a # Mediator}

Session ==
  [remote : Sources \cup {Mediator}, introduced : BOOLEAN,
   phase : {"none", "punching", "teardown"}, timer : BOOLEAN,
   told : {"nothing", "failed", "succeeded"}, aborted : BOOLEAN]

\* What a connection object is at any time: beyond TypeOK, it punches only while it is
\* relayed, it is direct only if it was introduced, and told is as StateIsTold says.
SessionInv(c) ==
  /\ c \in Session
  /\ c.phase # "none" => c.introduced
  /\ c.timer => c.phase # "none"
  /\ c.phase = "teardown" => c.remote # Mediator
  /\ c.phase = "punching" => c.remote = Mediator
  /\ c.remote # Mediator => c.introduced
  /\ c.remote # Mediator <=> c.told = "succeeded"
  /\ c.aborted => c = [NewSession EXCEPT !.aborted = TRUE]

\* Only peers send PRX-SYN and PRX-SYN-ACK, by way of their NAT, and PRX-RST.
PacketInv(p) ==
  /\ p.type \in {"PRX-SYN", "PRX-SYN-ACK"} => p.from \in Sources
  /\ p.type = "PRX-RST" => p.from \in Sides

TypeInv ==
  /\ topology \in Topologies /\ relay \in BOOLEAN
  /\ restarts \in 0 .. MaxRestarts /\ faults \in 0 .. MaxFaults
  /\ peer \in [Sides -> Session]
  /\ \A s \in Sides : SessionInv(peer[s])
  /\ \A p \in net : PacketInv(p)

\* Why nobody is stranded in the first sessions: an answer in the network says that
\* its sender was introduced, so a peer that took one is not the only one that was;
\* and the mediator hears PRX-RST only from a peer that is direct.
FirstSessions ==
  restarts = 0 =>
    /\ \A p \in net, s \in Sides :
         p.type = "PRX-SYN-ACK" /\ p.to = Other(s) => peer[s].introduced
    /\ \A p \in net : p.type = "PRX-RST" => Direct(p.from)
    /\ \A s \in Sides : Direct(s) => peer[Other(s)].introduced
    /\ relay \/ \E s \in Sides : Direct(s)

PunchInv == TypeInv /\ FirstSessions

-----------------------------------------------------------------------------
(* What one peer does *)

\* Peer s goes on with its session as c, or only the network does, and sends these
\* packets: c keeps what was reached, becomes direct by an answer only, and changes
\* its path only from the outer to the inner address.
GoesOn(s, c, sent) ==
  /\ SessionInv(c) /\ peer' = [peer EXCEPT ![s] = c]
  /\ peer[s].introduced => c.introduced
  /\ Direct(s) => c.remote # Mediator
  /\ c.remote # peer[s].remote =>
       \/ ~Direct(s) /\ \E p \in net : p.type = "PRX-SYN-ACK" /\ p.to = s
       \/ peer[s].remote = Outer(Other(s)) /\ c.remote = Inner(Other(s))
  /\ net' \subseteq net \cup sent
  /\ \A p \in sent :
       /\ PacketInv(p)
       /\ p.type = "PRX-SYN-ACK" => p.to = Other(s) /\ c.introduced
       /\ p.type = "PRX-RST" => p.from = s /\ c.remote # Mediator
  /\ faults' \in 0 .. MaxFaults
  /\ UNCHANGED <<topology, relay, restarts>>

\* Nobody but the peers themselves is at the addresses of the peers.
LEMMA OtherAddresses ==
  ASSUME topology \in Topologies, NEW s \in Sides
  PROVE  /\ Inner(Other(s)) # Mediator /\ Outer(Other(s)) # Mediator
         /\ Other(s) \in Sides /\ Other(Other(s)) = s /\ Other(s) # s
         /\ s \notin {Mediator}
         /\ Sides = {s, Other(s)}
  BY TopologyAssumption DEF Inner, Outer, Other, Sides, Mediator

\* A packet from one peer to the other comes from an address of the first.
LEMMA ToPeerComesFromSource ==
  ASSUME topology \in Topologies, NEW s \in Sides, NEW type, NEW d, NEW p \in ToPeer(type, s, d)
  PROVE  p.type = type /\ p.to = Other(s) /\ p.from \in Sources
<1>1. d \in DOMAIN topology.seen[s] /\ p = [type |-> type, to |-> Other(s), from |-> topology.seen[s][d]]
  BY DEF ToPeer
<1>2. topology.seen[s][d] # Mediator
  BY <1>1, TopologyAssumption
<1>3. QED
  BY <1>1, <1>2 DEF Sources

\* Taking a packet, or a duplicate of it.
LEMMA ExchangeAdds ==
  ASSUME TypeInv, NEW p \in net, NEW sent, Exchange(p, sent)
  PROVE  net' \subseteq net \cup sent /\ faults' \in 0 .. MaxFaults
<1>1. MaxFaults \in Nat /\ faults \in 0 .. MaxFaults
  BY TopologyAssumption DEF TypeInv
<1>2. QED
  BY <1>1 DEF Exchange

\* A peer or a timer sends.
LEMMA SendAdds ==
  ASSUME TypeInv, NEW sent, Send(sent)
  PROVE  net' \subseteq net \cup sent /\ faults' \in 0 .. MaxFaults
  BY DEF TypeInv, Send

\* A step that leaves the peers alone and sends nothing that could disturb one.
LEMMA OnlyTheNetwork ==
  ASSUME TypeInv, NEW s \in Sides, NEW sent,
         UNCHANGED <<topology, peer, relay, restarts>>,
         net' \subseteq net \cup sent, faults' \in 0 .. MaxFaults,
         \A p \in sent : /\ PacketInv(p)
                         /\ p.type = "PRX-SYN-ACK" => p.to = Other(s) /\ peer[s].introduced
                         /\ p.type = "PRX-RST" => p.from = s /\ Direct(s)
  PROVE  GoesOn(s, peer[s], sent)
<1>1. peer' = [peer EXCEPT ![s] = peer[s]] /\ SessionInv(peer[s])
  BY DEF TypeInv
<1>2. QED
  BY <1>1 DEF GoesOn, Direct

-----------------------------------------------------------------------------
(* Each step of a peer *)

\* PRX-SYN disturbs nobody.
LEMMA PrxSynPacketsAreHarmless ==
  ASSUME topology \in Topologies, NEW s \in Sides, NEW p \in PrxSynPackets(s)
  PROVE  p.type = "PRX-SYN" /\ PacketInv(p)
  BY ToPeerComesFromSource DEF PrxSynPackets, PacketInv

LEMMA GotPrxRstSynAckGoesOn ==
  ASSUME TypeInv, NEW s \in Sides, GotPrxRstSynAck(s)
  PROVE  GoesOn(s, [peer[s] EXCEPT !.introduced = TRUE, !.phase = "punching", !.timer = TRUE],
                PrxSynPackets(s))
<1> DEFINE c == [peer[s] EXCEPT !.introduced = TRUE, !.phase = "punching", !.timer = TRUE]
<1>1. SessionInv(peer[s]) /\ peer[s] \in Session
  BY DEF TypeInv
<1>2. /\ peer[s].remote = Mediator /\ ~peer[s].aborted
      /\ peer' = [peer EXCEPT ![s] = c] /\ Send(PrxSynPackets(s))
      /\ UNCHANGED <<topology, relay, restarts>>
  BY DEF GotPrxRstSynAck, Direct, Becomes
<1>3. c \in Session /\ c.introduced /\ c.phase = "punching" /\ c.remote = peer[s].remote
      /\ c.told = peer[s].told /\ c.aborted = peer[s].aborted
  BY <1>1 DEF Session
<1>4. SessionInv(c)
  BY <1>1, <1>2, <1>3 DEF SessionInv
<1>5. net' \subseteq net \cup PrxSynPackets(s) /\ faults' \in 0 .. MaxFaults
  BY <1>2, SendAdds
<1>6. \A p \in PrxSynPackets(s) : PacketInv(p) /\ p.type = "PRX-SYN"
  BY PrxSynPacketsAreHarmless DEF TypeInv
<1>7. QED
  BY <1>2, <1>3, <1>4, <1>5, <1>6 DEF GoesOn, Direct

LEMMA RtoTimeoutGoesOn ==
  ASSUME TypeInv, NEW s \in Sides, RtoTimeout(s)
  PROVE  \E sent \in {PrxSynPackets(s), ToMediator("PRX-RST", s)} : GoesOn(s, peer[s], sent)
<1>1. UNCHANGED <<topology, peer, relay, restarts>>
  BY DEF RtoTimeout
<1>2. CASE Send(PrxSynPackets(s))
  <2>1. \A p \in PrxSynPackets(s) : PacketInv(p) /\ p.type = "PRX-SYN"
    BY PrxSynPacketsAreHarmless DEF TypeInv
  <2>2. net' \subseteq net \cup PrxSynPackets(s) /\ faults' \in 0 .. MaxFaults
    BY <1>2, SendAdds
  <2>3. GoesOn(s, peer[s], PrxSynPackets(s))
    BY <1>1, <2>1, <2>2, OnlyTheNetwork
  <2>4. QED
    BY <2>3
<1>3. CASE peer[s].phase = "teardown" /\ Send(ToMediator("PRX-RST", s))
  <2>1. Direct(s)
    BY <1>3 DEF TypeInv, SessionInv, Direct
  <2>2. \A p \in ToMediator("PRX-RST", s) : PacketInv(p) /\ p.type = "PRX-RST" /\ p.from = s
    BY DEF ToMediator, PacketInv
  <2>3. net' \subseteq net \cup ToMediator("PRX-RST", s) /\ faults' \in 0 .. MaxFaults
    BY <1>3, SendAdds
  <2>4. GoesOn(s, peer[s], ToMediator("PRX-RST", s))
    BY <1>1, <2>1, <2>2, <2>3, OnlyTheNetwork
  <2>5. QED
    BY <2>4
<1>4. QED
  BY <1>2, <1>3 DEF RtoTimeout

LEMMA ConnectionTimeoutGoesOn ==
  ASSUME TypeInv, NEW s \in Sides, ConnectionTimeout(s)
  PROVE  GoesOn(s, TimedOut(peer[s]), {})
<1> DEFINE c == TimedOut(peer[s])
<1>1. SessionInv(peer[s]) /\ peer[s] \in Session
  BY DEF TypeInv
<1>2. /\ peer[s].timer /\ peer[s].phase # "none"
      /\ peer' = [peer EXCEPT ![s] = c]
      /\ UNCHANGED <<topology, relay, net, restarts, faults>>
  BY DEF ConnectionTimeout, Becomes
<1>3. ~peer[s].aborted
  BY <1>1, <1>2 DEF SessionInv, NewSession
<1>4. c \in Session /\ c.remote = peer[s].remote /\ c.introduced = peer[s].introduced
      /\ c.aborted = peer[s].aborted /\ ~c.timer
      /\ (peer[s].phase = "teardown" => c.phase = "none" /\ c.told = peer[s].told)
      /\ (peer[s].phase # "teardown" => c.phase = peer[s].phase /\ c.told = "failed")
  BY <1>1 DEF TimedOut, TornDown, Session
<1>5. SessionInv(c)
  BY <1>1, <1>2, <1>3, <1>4 DEF SessionInv, Session
<1>6. QED
  BY <1>2, <1>4, <1>5 DEF GoesOn, Direct, TypeInv

LEMMA SendMessageGoesOn ==
  ASSUME TypeInv, NEW s \in Sides, SendMessage(s)
  PROVE  GoesOn(s, peer[s], ToPeer("DATA", s, peer[s].remote) \cup FromMediator("DATA", Other(s)))
<1> DEFINE sent == ToPeer("DATA", s, peer[s].remote) \cup FromMediator("DATA", Other(s))
<1>1. \A p \in sent : p.type = "DATA"
  BY ToPeerComesFromSource DEF FromMediator, TypeInv
<1>2. \E some \in SUBSET sent : Send(some)
  BY DEF SendMessage
<1>3. net' \subseteq net \cup sent /\ faults' \in 0 .. MaxFaults
  BY <1>2, SendAdds
<1>4. UNCHANGED <<topology, peer, relay, restarts>>
  BY DEF SendMessage
<1>5. \A p \in sent : PacketInv(p) /\ p.type # "PRX-SYN-ACK" /\ p.type # "PRX-RST"
  BY <1>1 DEF PacketInv
<1>6. QED
  BY <1>3, <1>4, <1>5, OnlyTheNetwork

-----------------------------------------------------------------------------
(* Each packet that a peer gets *)

LEMMA GotPrxSynGoesOn ==
  ASSUME TypeInv, NEW s \in Sides, NEW p \in net, GotPrxSyn(p, s),
         UNCHANGED <<topology, relay, restarts>>
  PROVE  GoesOn(s, peer[s], AnswerPrxSyn(p, s))
<1> DEFINE sent == AnswerPrxSyn(p, s)
<1>1. \A q \in sent : /\ q.type = "PRX-SYN-ACK" /\ q.to = Other(s) /\ q.from \in Sources
                      /\ peer[s].introduced
  BY ToPeerComesFromSource DEF AnswerPrxSyn, TypeInv
<1>2. net' \subseteq net \cup sent /\ faults' \in 0 .. MaxFaults /\ UNCHANGED peer
  BY ExchangeAdds DEF GotPrxSyn
<1>3. QED
  BY <1>1, <1>2, OnlyTheNetwork DEF PacketInv

LEMMA GotFirstPrxSynAckGoesOn ==
  ASSUME TypeInv, NEW s \in Sides, NEW p \in net, GotFirstPrxSynAck(p, s),
         UNCHANGED <<topology, relay, restarts>>
  PROVE  GoesOn(s, [peer[s] EXCEPT !.remote = p.from, !.phase = "teardown", !.told = "succeeded"],
                ToMediator("PRX-RST", s))
<1> DEFINE c == [peer[s] EXCEPT !.remote = p.from, !.phase = "teardown", !.told = "succeeded"]
           sent == ToMediator("PRX-RST", s)
<1>1. SessionInv(peer[s]) /\ peer[s] \in Session
  BY DEF TypeInv
<1>2. /\ p.type = "PRX-SYN-ACK" /\ p.to = s /\ ~peer[s].aborted /\ peer[s].phase = "punching"
      /\ peer' = [peer EXCEPT ![s] = c]
  BY DEF GotFirstPrxSynAck, Becomes
<1>3. p.from \in Sources /\ p.from # Mediator
  BY <1>2 DEF TypeInv, PacketInv, Sources
<1>4. c \in Session /\ c.remote = p.from /\ c.introduced = peer[s].introduced
      /\ c.phase = "teardown" /\ c.told = "succeeded" /\ c.aborted = peer[s].aborted
  BY <1>1, <1>3 DEF Session
<1>5. SessionInv(c)
  BY <1>1, <1>2, <1>3, <1>4 DEF SessionInv
<1>6. ~Direct(s)
  BY <1>1, <1>2 DEF SessionInv, Direct
<1>7. net' \subseteq net \cup sent /\ faults' \in 0 .. MaxFaults
  BY ExchangeAdds DEF GotFirstPrxSynAck
<1>8. \A q \in sent : PacketInv(q) /\ q.type = "PRX-RST" /\ q.from = s
  BY DEF ToMediator, PacketInv
<1>9. QED
  BY <1>2, <1>3, <1>4, <1>5, <1>6, <1>7, <1>8 DEF GoesOn

LEMMA GotLaterPrxSynAckGoesOn ==
  ASSUME TypeInv, NEW s \in Sides, NEW p \in net, GotLaterPrxSynAck(p, s),
         UNCHANGED <<topology, relay, restarts>>
  PROVE  \E c \in {peer[s], [peer[s] EXCEPT !.remote = p.from]} : GoesOn(s, c, {})
<1>1. SessionInv(peer[s]) /\ peer[s] \in Session
  BY DEF TypeInv
<1>2. net' \subseteq net \cup {} /\ faults' \in 0 .. MaxFaults
  BY ExchangeAdds DEF GotLaterPrxSynAck
<1>3. CASE peer[s].phase = "none" /\ Switches(p, s)
  <2> DEFINE c == [peer[s] EXCEPT !.remote = p.from]
  <2>1. /\ p.type = "PRX-SYN-ACK" /\ ~peer[s].aborted
        /\ peer' = [peer EXCEPT ![s] = c]
    BY <1>3 DEF GotLaterPrxSynAck, Becomes
  <2>2. p.from \in Sources /\ p.from # Mediator
    BY <2>1 DEF TypeInv, PacketInv, Sources
  <2>3. p.from = Inner(Other(s)) /\ peer[s].remote = Outer(Other(s)) /\ peer[s].remote # Mediator
    BY <1>3, OtherAddresses DEF Switches, TypeInv
  <2>4. c \in Session /\ c.remote = p.from /\ c.introduced = peer[s].introduced
        /\ c.phase = peer[s].phase /\ c.told = peer[s].told /\ c.aborted = peer[s].aborted
        /\ c.timer = peer[s].timer
    BY <1>1, <2>2 DEF Session
  <2>5. SessionInv(c)
    BY <1>1, <1>3, <2>1, <2>2, <2>3, <2>4 DEF SessionInv
  <2>6. GoesOn(s, c, {})
    BY <1>2, <2>1, <2>2, <2>3, <2>4, <2>5 DEF GoesOn
  <2>7. QED
    BY <2>6
<1>4. CASE ~(peer[s].phase = "none" /\ Switches(p, s))
  <2>1. peer' = [peer EXCEPT ![s] = peer[s]]
    BY <1>4 DEF GotLaterPrxSynAck, Becomes
  <2>2. GoesOn(s, peer[s], {})
    BY <1>1, <1>2, <2>1 DEF GoesOn, Direct
  <2>3. QED
    BY <2>2
<1>5. QED
  BY <1>3, <1>4

LEMMA GotPrxRstAckGoesOn ==
  ASSUME TypeInv, NEW s \in Sides, NEW p \in net, GotPrxRstAck(p, s),
         UNCHANGED <<topology, relay, restarts>>
  PROVE  GoesOn(s, TornDown(peer[s]), {})
<1> DEFINE c == TornDown(peer[s])
<1>1. SessionInv(peer[s]) /\ peer[s] \in Session
  BY DEF TypeInv
<1>2. ~peer[s].aborted /\ peer' = [peer EXCEPT ![s] = c]
  BY DEF GotPrxRstAck, Becomes
<1>3. net' \subseteq net \cup {} /\ faults' \in 0 .. MaxFaults
  BY ExchangeAdds DEF GotPrxRstAck
<1>4. c \in Session /\ c.remote = peer[s].remote /\ c.introduced = peer[s].introduced
      /\ c.phase = "none" /\ ~c.timer /\ c.told = peer[s].told /\ c.aborted = peer[s].aborted
  BY <1>1 DEF TornDown, Session
<1>5. SessionInv(c)
  BY <1>1, <1>2, <1>4 DEF SessionInv
<1>6. QED
  BY <1>2, <1>3, <1>4, <1>5 DEF GoesOn, Direct

LEMMA GotUnexpectedGoesOn ==
  ASSUME TypeInv, NEW s \in Sides, NEW p \in net, GotUnexpected(p, s),
         UNCHANGED <<topology, relay, restarts>>
  PROVE  \E c \in {peer[s], [NewSession EXCEPT !.aborted = TRUE]}, sent \in {{}, TellInner(p, s)} :
           GoesOn(s, c, sent)
<1>1. SessionInv(peer[s]) /\ peer[s] \in Session
  BY DEF TypeInv
<1>2. CASE peer[s].introduced
  <2> DEFINE sent == TellInner(p, s)
  <2>1. net' \subseteq net \cup sent /\ faults' \in 0 .. MaxFaults /\ UNCHANGED peer
    BY <1>2, ExchangeAdds DEF GotUnexpected
  <2>2. \A q \in sent : q.type = "PRX-SYN-ACK" /\ q.to = Other(s) /\ q.from \in Sources
    BY ToPeerComesFromSource DEF TellInner, TypeInv
  <2>3. GoesOn(s, peer[s], sent)
    BY <1>2, <2>1, <2>2, OnlyTheNetwork DEF PacketInv
  <2>4. QED
    BY <2>3
<1>3. CASE ~peer[s].introduced
  <2> DEFINE c == [NewSession EXCEPT !.aborted = TRUE]
  <2>1. net' \subseteq net \cup {} /\ faults' \in 0 .. MaxFaults /\ peer' = [peer EXCEPT ![s] = c]
    BY <1>3, ExchangeAdds DEF GotUnexpected, Becomes
  <2>2. ~Direct(s)
    BY <1>1, <1>3 DEF SessionInv, Direct
  <2>3. SessionInv(c) /\ c.remote = Mediator
    BY DEF SessionInv, NewSession, Session
  <2>4. GoesOn(s, c, {})
    BY <1>3, <2>1, <2>2, <2>3 DEF GoesOn, Direct
  <2>5. QED
    BY <2>4
<1>4. QED
  BY <1>2, <1>3

\* Whatever peer s gets, it goes on.
LEMMA ReceivesGoesOn ==
  ASSUME TypeInv, NEW s \in Sides, NEW p \in net, Receives(p, s)
  PROVE  \E c, sent : GoesOn(s, c, sent)
<1>1. UNCHANGED <<topology, relay, restarts>>
  BY DEF Receives
<1>2. CASE GotPrxSyn(p, s)
  BY <1>1, <1>2, GotPrxSynGoesOn
<1>3. CASE GotFirstPrxSynAck(p, s)
  BY <1>1, <1>3, GotFirstPrxSynAckGoesOn
<1>4. CASE GotLaterPrxSynAck(p, s)
  BY <1>1, <1>4, GotLaterPrxSynAckGoesOn
<1>5. CASE GotPrxRstAck(p, s)
  BY <1>1, <1>5, GotPrxRstAckGoesOn
<1>6. CASE GotExpected(p, s) \/ Unheard(p, s)
  <2>1. net' \subseteq net \cup {} /\ faults' \in 0 .. MaxFaults /\ UNCHANGED peer
    BY <1>6, ExchangeAdds DEF GotExpected, Unheard
  <2>2. GoesOn(s, peer[s], {})
    BY <1>1, <2>1, OnlyTheNetwork
  <2>3. QED
    BY <2>2
<1>7. CASE GotUnexpected(p, s)
  BY <1>1, <1>7, GotUnexpectedGoesOn
<1>8. QED
  BY <1>2, <1>3, <1>4, <1>5, <1>6, <1>7 DEF Receives

-----------------------------------------------------------------------------
(* The invariant *)

\* Every step is one of a peer that goes on, or of these three.
LEMMA StepsOfPeers ==
  ASSUME TypeInv, Next
  PROVE  \/ \E s \in Sides : Restart(s)
         \/ Paired
         \/ \E p \in net : MediatorGotPrxRst(p)
         \/ \E s \in Sides : \E c, sent : GoesOn(s, c, sent)
<1>1. ASSUME NEW p \in net, Lose(p)
      PROVE  \E s \in Sides : \E c, sent : GoesOn(s, c, sent)
  <2>1. MaxFaults \in Nat /\ faults \in 0 .. MaxFaults
    BY TopologyAssumption DEF TypeInv
  <2>2. net' \subseteq net \cup {} /\ faults' \in 0 .. MaxFaults
        /\ UNCHANGED <<topology, peer, relay, restarts>>
    BY <1>1, <2>1 DEF Lose
  <2>3. "a" \in Sides /\ GoesOn("a", peer["a"], {})
    BY <2>2, OnlyTheNetwork DEF Sides
  <2>4. QED
    BY <2>3
<1>2. ASSUME NEW s \in Sides,
             \/ GotPrxRstSynAck(s) \/ RtoTimeout(s) \/ ConnectionTimeout(s) \/ SendMessage(s)
      PROVE  \E c, sent : GoesOn(s, c, sent)
  BY <1>2, GotPrxRstSynAckGoesOn, RtoTimeoutGoesOn, ConnectionTimeoutGoesOn, SendMessageGoesOn
<1>3. QED
  BY <1>1, <1>2, ReceivesGoesOn DEF Next

LEMMA InitPunchInv ==
  ASSUME Init
  PROVE  PunchInv
<1>1. SessionInv(NewSession) /\ NewSession.remote = Mediator
  BY DEF SessionInv, NewSession, Session
<1>2. TypeInv
  BY <1>1, TopologyAssumption DEF Init, TypeInv, SessionInv
<1>3. FirstSessions
  BY <1>1 DEF Init, FirstSessions, Direct
<1>4. QED
  BY <1>2, <1>3 DEF PunchInv

\* What the mediator answers is no message of a peer.
LEMMA MediatorKeeps ==
  ASSUME TypeInv, NEW p \in net, MediatorGotPrxRst(p)
  PROVE  /\ \A q \in net' : q \in net \/ q.type = "PRX-RST-ACK"
         /\ p.type = "PRX-RST" /\ relay' = FALSE /\ faults' \in 0 .. MaxFaults
         /\ UNCHANGED <<topology, peer, restarts>>
<1>1. net' \subseteq net \cup AnswerPrxRst(p) /\ faults' \in 0 .. MaxFaults
  BY ExchangeAdds DEF MediatorGotPrxRst
<1>2. \A q \in AnswerPrxRst(p) : q.type = "PRX-RST-ACK"
  BY DEF AnswerPrxRst, FromMediator
<1>3. QED
  BY <1>1, <1>2 DEF MediatorGotPrxRst

LEMMA StepTypeInv ==
  ASSUME TypeInv, Next
  PROVE  TypeInv'
<1>1. ASSUME NEW s \in Sides, Restart(s)
      PROVE  TypeInv'
  <2>1. SessionInv(NewSession) /\ NewSession \in Session
    BY DEF SessionInv, NewSession, Session
  <2>2. restarts' \in 0 .. MaxRestarts
    BY <1>1, TopologyAssumption DEF Restart, TypeInv
  <2>3. peer' = [peer EXCEPT ![s] = NewSession] /\ relay' \in BOOLEAN
        /\ UNCHANGED <<topology, net, faults>>
    BY <1>1 DEF Restart, Becomes
  <2>4. QED
    BY <2>1, <2>2, <2>3 DEF TypeInv
<1>2. CASE Paired
  BY <1>2 DEF TypeInv, Paired
<1>3. ASSUME NEW p \in net, MediatorGotPrxRst(p)
      PROVE  TypeInv'
  BY <1>3, MediatorKeeps DEF TypeInv, PacketInv
<1>4. ASSUME NEW s \in Sides, NEW c, NEW sent, GoesOn(s, c, sent)
      PROVE  TypeInv'
  <2>1. SessionInv(c) /\ c \in Session /\ peer' = [peer EXCEPT ![s] = c]
        /\ UNCHANGED <<topology, relay, restarts>> /\ faults' \in 0 .. MaxFaults
    BY <1>4 DEF GoesOn, SessionInv
  <2>2. \A p \in net' : PacketInv(p)
    BY <1>4 DEF GoesOn, TypeInv
  <2>3. QED
    BY <2>1, <2>2 DEF TypeInv
<1>5. QED
  BY <1>1, <1>2, <1>3, <1>4, StepsOfPeers

LEMMA StepFirstSessions ==
  ASSUME TypeInv, FirstSessions, Next
  PROVE  FirstSessions'
<1> SUFFICES ASSUME restarts' = 0 PROVE FirstSessions'
  BY DEF FirstSessions
<1>1. ASSUME NEW s \in Sides, Restart(s)
      PROVE  FALSE
  BY <1>1, TopologyAssumption DEF Restart, TypeInv
<1>2. CASE Paired
  BY <1>2 DEF FirstSessions, Paired, Direct
<1>3. ASSUME NEW p \in net, MediatorGotPrxRst(p)
      PROVE  FirstSessions'
  <2>1. restarts = 0 /\ p.from \in Sides /\ Direct(p.from)
    BY <1>3, MediatorKeeps DEF FirstSessions, TypeInv, PacketInv
  <2>2. QED
    BY <1>3, <2>1, MediatorKeeps DEF FirstSessions, Direct
<1>4. ASSUME NEW s \in Sides, NEW c, NEW sent, GoesOn(s, c, sent)
      PROVE  FirstSessions'
  <2>1. /\ peer[s].introduced => c.introduced
        /\ Direct(s) => c.remote # Mediator
        /\ peer' = [peer EXCEPT ![s] = c] /\ peer \in [Sides -> Session]
        /\ SessionInv(c)
        /\ UNCHANGED <<relay, restarts>>
    BY <1>4 DEF GoesOn, TypeInv
  <2>2. Other(s) \in Sides /\ Other(Other(s)) = s /\ Sides = {s, Other(s)}
    BY OtherAddresses DEF TypeInv
  <2>3. \A r \in Sides : /\ peer[r].introduced => peer'[r].introduced
                         /\ Direct(r) => Direct(r)'
                         /\ r # s => Direct(r)' = Direct(r)
    BY <2>1 DEF Direct
  <2>4. ASSUME NEW p \in net', NEW r \in Sides, p.type = "PRX-SYN-ACK", p.to = Other(r)
        PROVE  peer'[r].introduced
    <3>1. CASE p \in net
      BY <2>1, <2>3, <2>4, <3>1 DEF FirstSessions
    <3>2. CASE p \notin net
      <4>1. p.to = Other(s) /\ c.introduced
        BY <1>4, <2>4, <3>2 DEF GoesOn
      <4>2. r = s
        BY <2>4, <4>1 DEF Sides, Other
      <4>3. QED
        BY <2>1, <4>1, <4>2
    <3>3. QED
      BY <3>1, <3>2
  <2>5. ASSUME NEW p \in net', p.type = "PRX-RST"
        PROVE  Direct(p.from)'
    <3>1. CASE p \in net
      BY <2>1, <2>3, <2>5, <3>1 DEF FirstSessions, TypeInv, PacketInv
    <3>2. CASE p \notin net
      BY <1>4, <2>1, <2>5, <3>2 DEF GoesOn, Direct
    <3>3. QED
      BY <3>1, <3>2
  <2>6. ASSUME NEW r \in Sides, Direct(r)'
        PROVE  peer'[Other(r)].introduced
    <3>1. CASE Direct(r)
      BY <2>1, <2>2, <2>3, <3>1 DEF FirstSessions
    <3>2. CASE ~Direct(r)
      <4>1. r = s /\ c.remote # peer[s].remote
        BY <2>1, <2>3, <2>6, <3>2 DEF Direct
      <4>2. peer[s].remote # Outer(Other(s))
        BY <3>2, <4>1, OtherAddresses DEF Direct, TypeInv
      <4>3. \E p \in net : p.type = "PRX-SYN-ACK" /\ p.to = s
        BY <1>4, <4>1, <4>2 DEF GoesOn
      <4>4. peer[Other(s)].introduced
        BY <2>1, <2>2, <4>3 DEF FirstSessions
      <4>5. QED
        BY <2>2, <2>3, <4>1, <4>4
    <3>3. QED
      BY <3>1, <3>2
  <2>7. relay' \/ \E r \in Sides : Direct(r)'
    BY <2>1, <2>3 DEF FirstSessions
  <2>8. QED
    BY <2>4, <2>5, <2>6, <2>7 DEF FirstSessions
<1>5. QED
  BY <1>1, <1>2, <1>3, <1>4, StepsOfPeers

LEMMA PunchInvariant == Spec => []PunchInv
<1>1. Init => PunchInv
  BY InitPunchInv
<1>2. PunchInv /\ [Next]_vars => PunchInv'
  <2>1. ASSUME PunchInv, Next
        PROVE  PunchInv'
    BY <2>1, StepTypeInv, StepFirstSessions DEF PunchInv
  <2>2. ASSUME PunchInv, UNCHANGED vars
        PROVE  PunchInv'
    BY <2>2 DEF PunchInv, TypeInv, FirstSessions, vars, Direct
  <2>3. QED
    BY <2>1, <2>2
<1>3. QED
  BY <1>1, <1>2, PTL DEF Spec

-----------------------------------------------------------------------------
(* What follows *)

\* The application of each peer was told last that it succeeded exactly if it is
\* direct, and phase, timer and remote address fit together.  (EmiLogicalConnection's
\* getP2PState, EmiNatPunchthrough::connectionTimeout)
THEOREM ToldIsTrue == Spec => []StateIsTold
<1>1. PunchInv => StateIsTold
  <2> SUFFICES ASSUME PunchInv PROVE StateIsTold
    OBVIOUS
  <2>1. TypeOK
    BY DEF PunchInv, TypeInv, SessionInv, Session, TypeOK, Direct
  <2>2. \A s \in Sides : Direct(s) <=> peer[s].told = "succeeded"
    BY DEF PunchInv, TypeInv, SessionInv, Direct
  <2>3. QED
    BY <2>1, <2>2 DEF StateIsTold
<1>2. QED
  BY <1>1, PunchInvariant, PTL

\* In the first sessions the relay goes only when both peers know where the other one
\* is, whatever is lost, doubled and late.  (EmiP2PSock::onMessage, of PRX-RST)
THEOREM RelayGoesLast == Spec => []NobodyIsStranded
<1>1. PunchInv => NobodyIsStranded
  <2> SUFFICES ASSUME PunchInv, ~relay, restarts = 0
               PROVE  \A s \in Sides : peer[s].introduced
    BY DEF NobodyIsStranded
  <2>1. PICK s \in Sides : Direct(s)
    BY DEF PunchInv, FirstSessions
  <2>2. peer[s].introduced
    BY <2>1 DEF PunchInv, TypeInv, SessionInv, Direct
  <2>3. peer[Other(s)].introduced
    BY <2>1 DEF PunchInv, FirstSessions
  <2>4. Sides = {s, Other(s)}
    BY OtherAddresses DEF PunchInv, TypeInv
  <2>5. QED
    BY <2>2, <2>3, <2>4
<1>2. QED
  BY <1>1, PunchInvariant, PTL

Path == [s \in Sides |-> PathOf(s)]

\* When the addresses of a step are fixed, PathOf is a function of the remote one.
LEMMA PathOfRemote ==
  ASSUME topology \in Topologies, NEW s \in Sides
  PROVE  /\ Path[s] \in {"relay", "inner", "outer"}
         /\ Path[s] = "relay" <=> ~Direct(s)
         /\ Direct(s) /\ peer[s].remote = Inner(Other(s)) <=> Path[s] = "inner"
  BY OtherAddresses DEF Path, PathOf, Direct

\* A peer that goes on goes direct, or to the inner address, or stays where it is.
LEMMA GoesOnIsPath ==
  ASSUME TypeInv, TypeInv', NEW s \in Sides, NEW c, NEW sent, GoesOn(s, c, sent)
  PROVE  Paths!GoDirect(s) \/ Paths!GoInner(s) \/ UNCHANGED <<Path, relay, restarts>>
<1>1. /\ peer' = [peer EXCEPT ![s] = c] /\ peer \in [Sides -> Session]
      /\ UNCHANGED <<topology, relay, restarts>> /\ topology \in Topologies
  BY DEF GoesOn, TypeInv
<1>2. \A r \in Sides : Inner(Other(r))' = Inner(Other(r)) /\ Outer(Other(r))' = Outer(Other(r))
  BY <1>1 DEF Inner, Outer, Other, Sides
<1>3. \A r \in Sides : r # s => Path'[r] = Path[r]
  BY <1>1, <1>2 DEF Path, PathOf
<1>4. Path' = [Path EXCEPT ![s] = Path'[s]]
  BY <1>3 DEF Path
<1>5. Path'[s] = IF c.remote = Mediator THEN "relay"
                 ELSE IF c.remote = Inner(Other(s)) THEN "inner" ELSE "outer"
  <2>1. peer'[s] = c /\ Inner(Other(s))' = Inner(Other(s))
    BY <1>1, <1>2
  <2>2. PathOf(s)' = IF c.remote = Mediator THEN "relay"
                     ELSE IF c.remote = Inner(Other(s)) THEN "inner" ELSE "outer"
    BY <2>1 DEF PathOf
  <2>3. QED
    BY <2>2 DEF Path
<1>6. CASE ~Direct(s) /\ c.remote # Mediator
  <2>1. Path[s] = "relay" /\ Path'[s] \in {"outer", "inner"}
    BY <1>1, <1>5, <1>6, PathOfRemote
  <2>2. Paths!GoDirect(s)
    BY <1>1, <1>4, <2>1 DEF Paths!GoDirect, Path
  <2>3. QED
    BY <2>2
<1>7. CASE c.remote # peer[s].remote /\ Direct(s)
  <2>1. peer[s].remote = Outer(Other(s)) /\ c.remote = Inner(Other(s)) /\ c.remote # Mediator
    BY <1>7, OtherAddresses, <1>1 DEF GoesOn
  <2>2. Path[s] = "outer" /\ Path'[s] = "inner"
    BY <1>1, <1>5, <1>7, <2>1, PathOfRemote
  <2>3. Paths!GoInner(s)
    BY <1>1, <1>4, <2>2 DEF Paths!GoInner, Path
  <2>4. QED
    BY <2>3
<1>8. CASE c.remote = peer[s].remote
  <2>1. PathOf(s) = IF c.remote = Mediator THEN "relay"
                    ELSE IF c.remote = Inner(Other(s)) THEN "inner" ELSE "outer"
    BY <1>8 DEF PathOf
  <2>2. Path'[s] = Path[s]
    BY <1>5, <2>1 DEF Path
  <2>3. QED
    BY <1>1, <1>4, <2>2 DEF Path
<1>9. QED
  BY <1>6, <1>7, <1>8 DEF Direct, GoesOn

\* Peers leave the relay for a direct path and the outer address for the inner one,
\* never the other way round, and in the first sessions the mediator forgets them only
\* when one has left: each step is one of DirectPath or none.
\* (EmiLogicalConnection::gotPrxSynAck, EmiNatPunchthrough::gotPrxSynAck)
THEOREM DirectPathImplemented == Spec => ImplementsDirectPath
<1>1. Init => Paths!Init
  <2> SUFFICES ASSUME Init PROVE Paths!Init
    OBVIOUS
  <2>1. \A s \in Sides : PathOf(s) = "relay"
    BY DEF Init, NewSession, PathOf
  <2>2. [s \in Sides |-> PathOf(s)] = [s \in Sides |-> "relay"]
    BY <2>1
  <2>3. QED
    BY <2>2 DEF Init, Paths!Init, Paths!Relayed
<1>2. PunchInv /\ PunchInv' /\ [Next]_vars => [Paths!Next]_<<Path, relay, restarts>>
  <2>1. ASSUME PunchInv, PunchInv', Next
        PROVE  [Paths!Next]_<<Path, relay, restarts>>
    <3>1. TypeInv /\ TypeInv' /\ FirstSessions /\ topology \in Topologies
      BY <2>1 DEF PunchInv, TypeInv
    <3>2. ASSUME NEW s \in Sides, Restart(s)
          PROVE  Paths!NewSession(s)
      <4>1. /\ peer' = [peer EXCEPT ![s] = NewSession] /\ peer \in [Sides -> Session]
            /\ relay' = FALSE /\ restarts' = restarts + 1 /\ UNCHANGED topology
        BY <3>1, <3>2 DEF Restart, Becomes, TypeInv
      <4>2. Path' = [Path EXCEPT ![s] = "relay"]
        <5>1. PathOf(s)' = "relay"
          BY <4>1 DEF PathOf, NewSession
        <5>2. \A r \in Sides : r # s => PathOf(r)' = PathOf(r)
          BY <4>1 DEF PathOf, Inner, Other, Sides
        <5>3. QED
          BY <5>1, <5>2 DEF Path
      <4>3. QED
        BY <4>1, <4>2 DEF Paths!NewSession, Path
    <3>3. CASE Paired
      <4>1. relay' = TRUE /\ UNCHANGED <<topology, peer, restarts>>
            /\ \A s \in Sides : peer[s] = NewSession
        BY <3>3 DEF Paired
      <4>2. Path' = Path /\ Path = Paths!Relayed
        <5>1. \A s \in Sides : PathOf(s) = "relay" /\ PathOf(s)' = "relay"
          BY <4>1 DEF PathOf, NewSession
        <5>2. QED
          BY <5>1 DEF Path, Paths!Relayed
      <4>3. Paths!Pair
        BY <4>1, <4>2 DEF Paths!Pair, Path
      <4>4. QED
        BY <4>3 DEF Paths!Next
    <3>4. ASSUME NEW p \in net, MediatorGotPrxRst(p)
          PROVE  Paths!GiveUpRelay
      <4>1. p.type = "PRX-RST" /\ relay' = FALSE /\ UNCHANGED <<topology, peer, restarts>>
        BY <3>1, <3>4, MediatorKeeps
      <4>2. Path' = Path
        BY <4>1 DEF Path, PathOf, Inner, Outer, Direct
      <4>3. Path # Paths!Relayed \/ restarts > 0
        <5>1. SUFFICES ASSUME restarts = 0 PROVE Path # Paths!Relayed
          BY <3>1, TopologyAssumption DEF TypeInv
        <5>2. p.from \in Sides /\ Direct(p.from)
          BY <3>1, <4>1, <5>1 DEF FirstSessions, TypeInv, PacketInv
        <5>3. Path[p.from] # "relay"
          BY <3>1, <5>2, PathOfRemote
        <5>4. QED
          BY <5>2, <5>3 DEF Paths!Relayed
      <4>4. QED
        BY <4>1, <4>2, <4>3 DEF Paths!GiveUpRelay, Path
    <3>5. ASSUME NEW s \in Sides, NEW c, NEW sent, GoesOn(s, c, sent)
          PROVE  [Paths!Next]_<<Path, relay, restarts>>
      BY <3>1, <3>5, GoesOnIsPath DEF Paths!Next
    <3>6. QED
      BY <2>1, <3>1, <3>2, <3>3, <3>4, <3>5, StepsOfPeers DEF Paths!Next
  <2>2. ASSUME UNCHANGED vars
        PROVE  [Paths!Next]_<<Path, relay, restarts>>
    BY <2>2 DEF vars, Path, PathOf, Inner, Outer, Direct
  <2>3. QED
    BY <2>1, <2>2
<1>3. Path = [s \in Sides |-> PathOf(s)]
  BY DEF Path
<1>4. QED
  BY <1>1, <1>2, <1>3, PunchInvariant, PTL DEF Spec, ImplementsDirectPath, Paths!Spec, Path
=============================================================================

------------------------------- MODULE Mediator -------------------------------
(***************************************************************************)
(* The P2P mediator, EmiP2PSock with its EmiP2PConn objects, and the two   *)
(* peers that it introduces to one another and relays packets between,     *)
(* over a network that loses, delays, reorders and duplicates packets.     *)
(*                                                                         *)
(* The peers hold the two cookies of one pair.  A peer has a session at a  *)
(* time, known by its random initial sequence number, and is bound to a    *)
(* number of interfaces: until it knows which one reaches the mediator, it *)
(* sends from all of them.  An address stands for an interface and for     *)
(* what its NAT makes of it.  Once a peer is introduced it may switch to   *)
(* the direct path at any time: how, is the module Punchthrough.  What it  *)
(* sends the other peer over the direct path is outside of this module.    *)
(*                                                                         *)
(* No clock: the timers of a mediator connection may fire whenever they    *)
(* run, and the rate limit is one more way for the network to lose.        *)
(***************************************************************************)
EXTENDS Integers, FiniteSets

CONSTANTS
  Bindings,       \* the interfaces that a session of each peer may be bound to
  MaxStarts,      \* bound: sessions of the two peers
  MaxFaults,      \* bound: packets that the network loses or duplicates
  MaxInFlight,    \* bound: packets that it holds when a peer or a timer sends more
  MaxStamp        \* bound: integerStamp of the clock (EMI_P2P_COOKIE_RESOLUTION)

\* A peer is named for its cookie; Nil is the address that fillNilAddress makes.
Sides    == {"plain", "complementary"}
Other(s) == IF s = "plain" THEN "complementary" ELSE "plain"
Nil      == "nil"

Addresses == UNION {UNION Bindings[s] : s \in Sides}
Owner(a)  == CHOOSE s \in Sides : a \in UNION Bindings[s]

ASSUME MediatorAssumption ==
  /\ \A s \in Sides : Bindings[s] # {} /\ {} \notin Bindings[s]
  /\ (UNION Bindings["plain"]) \cap (UNION Bindings["complementary"]) = {}
  /\ Nil \notin Addresses
  /\ {MaxStarts, MaxFaults, MaxInFlight} \subseteq Nat /\ MaxStamp \in Nat \ {0}

VARIABLES
  peer,       \* the connection object of each peer
  med,        \* the mediator's connections, _conns and _connCookies
  stamp,      \* integerStamp; the cookies were made when it was 0, and reach the peers later
  net,        \* packets in the network
  started,    \* sessions so far
  disturbed,  \* a session ended, a mediator connection timed out or the cookies expired (history)
  faults      \* what was used of the bound

vars == <<peer, med, stamp, net, started, disturbed, faults>>

\* The number of a session, with the peer it belongs to; NoSn is not a number.
NoSn == <<Nil, 0>>

NoPeer == [phase |-> "closed", sn |-> NoSn, bound |-> {}, local |-> Nil,
           other |-> NoSn, buffer |-> "nothing", endpoints |-> {}]

NoConn == [peers |-> <<Nil, Nil>>, sns |-> <<NoSn, NoSn>>, waiting |-> {},
           inner |-> <<Nil, Nil>>, side |-> Nil]

\* A connection has at least one address of its own, so these are enough.
ConnIds == 1 .. Cardinality(Addresses)

Init ==
  /\ peer = [s \in Sides |-> NoPeer]
  /\ med = [conns |-> [i \in ConnIds |-> NoConn],
            byAddress |-> [a \in Addresses |-> 0], byCookie |-> 0]
  /\ stamp = 1 /\ net = {} /\ started = 0 /\ disturbed = FALSE
  /\ faults = 0

-----------------------------------------------------------------------------
(* Packets *)

\* A packet between the mediator and the address at, and who it is for.
Packet(type, to, at) ==
  [type |-> type, to |-> to, at |-> at, sn |-> NoSn, pair |-> {}]
UpTypes   == {"SYN", "PRX-ACK", "DATA", "RST", "SYN-RST-ACK", "PRX-RST"}
DownTypes == {"PRX", "SYN-RST", "PAIR", "DATA", "RST", "SYN-RST-ACK", "PRX-RST-ACK"}
Up(type, at)   == Packet(type, "mediator", at)
Down(type, at) == Packet(type, "peer", at)

\* Packet p is taken from the network, or a duplicate of it, and others are sent.
Exchange(p, sent) ==
  \/ net' = (net \ {p}) \cup sent /\ UNCHANGED faults
  \/ /\ faults < MaxFaults /\ faults' = faults + 1
     /\ net' = net \cup sent

\* A peer or a timer sends; of two equal packets the network keeps one.
Send(sent) ==
  /\ Cardinality(net) < MaxInFlight
  /\ net' = net \cup sent /\ UNCHANGED faults

Lose(p) ==
  /\ faults < MaxFaults /\ faults' = faults + 1
  /\ net' = net \ {p}
  /\ UNCHANGED <<peer, med, stamp, started, disturbed>>

-----------------------------------------------------------------------------
(* A mediator connection *)

Index(c, a) == IF c.peers[1] = a THEN 1 ELSE 2
OtherIndex(i) == 3 - i

IsInitialSequenceNumberMismatch(c, a, sn) == c.sns[Index(c, a)] # sn

\* Each peer is told the initial sequence number of the other one, until it has
\* answered.  The mutant tells only the peer that came first.
SynRst(c, i) == [Down("SYN-RST", c.peers[i]) EXCEPT !.sn = c.sns[OtherIndex(i)]]

SynRstsToFirst(c) == {SynRst(c, i) : i \in c.waiting \cap {1}}
SynRsts(c) == {SynRst(c, i) : i \in c.waiting}

\* The inner and outer addresses of the peer itself and of the other peer.
EndpointPair(c, i) ==
  [Down("PAIR", c.peers[i]) EXCEPT !.pair =
     {[mine |-> <<c.inner[i], c.peers[i]>>,
       theirs |-> <<c.inner[OtherIndex(i)], c.peers[OtherIndex(i)]>>]}]
EndpointPairs(c) ==
  IF Nil \in {c.inner[1], c.inner[2]} THEN {} ELSE {EndpointPair(c, i) : i \in {1, 2}}

\* A packet from address a goes to the other peer, if there is one.
Forward(c, p) ==
  LET other == c.peers[OtherIndex(Index(c, p.at))] IN
  IF other = Nil THEN {} ELSE {[p EXCEPT !.to = "peer", !.at = other]}

-----------------------------------------------------------------------------
(* The maps of the mediator *)

Found(m, a) == m.byAddress[a] # 0
Conn(m, a)  == m.conns[m.byAddress[a]]

\* Connection i is forgotten, and its cookie with it, whichever connection waits
\* under that cookie.  The mutant leaves the other address in the map.
RemoveConnectionByFirst(m, i) ==
  IF i = 0 THEN m
  ELSE [conns |-> [m.conns EXCEPT ![i] = NoConn],
        byAddress |-> [a \in Addresses |-> IF a = m.conns[i].peers[1] THEN 0 ELSE m.byAddress[a]],
        byCookie |-> 0]
RemoveConnection(m, i) ==
  IF i = 0 THEN m
  ELSE [conns |-> [m.conns EXCEPT ![i] = NoConn],
        byAddress |-> [a \in Addresses |-> IF \E k \in {1, 2} : a = m.conns[i].peers[k]
                                           THEN 0 ELSE m.byAddress[a]],
        byCookie |-> 0]

\* A new connection for the first peer with this cookie.
FirstPeer(p, s) == [peers |-> <<p.at, Nil>>, sns |-> <<p.sn, NoSn>>, waiting |-> {},
                    inner |-> <<Nil, Nil>>, side |-> s]
AddConnection(m, i, p, s) ==
  [conns |-> [m.conns EXCEPT ![i] = FirstPeer(p, s)],
   byAddress |-> [m.byAddress EXCEPT ![p.at] = i], byCookie |-> i]

\* The second peer completes the connection that waits under the cookie.
SecondPeer(c, p) == [c EXCEPT !.peers[2] = p.at, !.sns[2] = p.sn, !.waiting = {1, 2}]
GotOtherAddress(m, p) ==
  [conns |-> [m.conns EXCEPT ![m.byCookie] = SecondPeer(@, p)],
   byAddress |-> [m.byAddress EXCEPT ![p.at] = m.byCookie], byCookie |-> 0]

-----------------------------------------------------------------------------
(* The mediator *)

\* A hash of the time and the side that only the mediator can make.
HashCookie(when, s) == <<when, s>>
CookieOf(s) == HashCookie(0, s)

\* The side of a valid cookie: of this period or the one before.
CheckCookie(cookie) ==
  {s \in Sides : \E minusOne \in {0, 1} : cookie = HashCookie(stamp - minusOne, s)}

\* A known address with a new number has forgotten the connection it had.
ForgetMismatch(m, p) ==
  IF Found(m, p.at) /\ IsInitialSequenceNumberMismatch(Conn(m, p.at), p.at, p.sn)
  THEN RemoveConnection(m, m.byAddress[p.at]) ELSE m

\* The mutant pairs any two addresses that send the cookie.
SamePeerNever(m, s) == FALSE
SamePeer(m, s) == m.byCookie # 0 /\ m.conns[m.byCookie].side = s

GotConnectionOpen(p, s) ==
  LET m   == ForgetMismatch(med, p)
      prx == Down("PRX", p.at)
  IN \/ /\ Found(m, p.at)
        /\ med' = m /\ Exchange(p, {prx})
     \/ /\ ~Found(m, p.at) /\ SamePeer(m, s)
        /\ med' = m /\ Exchange(p, {})
     \/ /\ ~Found(m, p.at) /\ m.byCookie # 0 /\ ~SamePeer(m, s)
        /\ med' = GotOtherAddress(m, p)
        /\ Exchange(p, {prx} \cup SynRsts(med'.conns[m.byCookie]))
     \/ /\ ~Found(m, p.at) /\ m.byCookie = 0
        /\ \E i \in ConnIds : /\ m.conns[i] = NoConn /\ \A j \in 1 .. i - 1 : m.conns[j] # NoConn
                              /\ med' = AddConnection(m, i, p, s)
        /\ Exchange(p, {prx})

MediatorGotSyn(p) ==
  /\ p.to = "mediator" /\ p.type = "SYN"
  /\ LET sides == CheckCookie(CookieOf(Owner(p.at))) IN
     \/ sides = {} /\ Exchange(p, {}) /\ UNCHANGED med
     \/ \E s \in sides : GotConnectionOpen(p, s)
  /\ UNCHANGED <<peer, stamp, started, disturbed>>

\* The answer to a SYN-RST, with the inner address, once for each copy of it.
Answered(c, k, a) == [c EXCEPT !.inner[k] = a, !.waiting = @ \ {k}]
MediatorGotPrxAck(p) ==
  /\ p.to = "mediator" /\ p.type = "PRX-ACK"
  /\ IF ~Found(med, p.at) \/ IsInitialSequenceNumberMismatch(Conn(med, p.at), p.at, p.sn)
     THEN Exchange(p, {}) /\ UNCHANGED med
     ELSE LET i == med.byAddress[p.at]
              k == Index(med.conns[i], p.at)
          IN /\ med' = [med EXCEPT !.conns[i] = Answered(@, k, p.at)]
             /\ Exchange(p, EndpointPairs(med'.conns[i]))
  /\ UNCHANGED <<peer, stamp, started, disturbed>>

\* Data and heartbeats.
MediatorGotData(p) ==
  /\ p.to = "mediator" /\ p.type = "DATA"
  /\ Exchange(p, IF Found(med, p.at) THEN Forward(Conn(med, p.at), p) ELSE {})
  /\ UNCHANGED <<peer, med, stamp, started, disturbed>>

\* A peer closes: the other one answers, or the mediator does when it does not
\* know of a connection any more.  The mutant leaves the answer to the peer.
AnswerRstNever(p) == IF Found(med, p.at) THEN Forward(Conn(med, p.at), p) ELSE {}
AnswerRst(p) == IF Found(med, p.at) THEN Forward(Conn(med, p.at), p) ELSE {Down("SYN-RST-ACK", p.at)}
MediatorGotRst(p) ==
  /\ p.to = "mediator" /\ p.type = "RST"
  /\ Exchange(p, AnswerRst(p))
  /\ UNCHANGED <<peer, med, stamp, started, disturbed>>

MediatorGotSynRstAck(p) ==
  /\ p.to = "mediator" /\ p.type = "SYN-RST-ACK"
  /\ Exchange(p, IF Found(med, p.at) THEN Forward(Conn(med, p.at), p) ELSE {})
  /\ med' = RemoveConnection(med, med.byAddress[p.at])
  /\ UNCHANGED <<peer, stamp, started, disturbed>>

\* A peer has switched to the direct path.
MediatorGotPrxRst(p) ==
  /\ p.to = "mediator" /\ p.type = "PRX-RST"
  /\ Exchange(p, {Down("PRX-RST-ACK", p.at)})
  /\ med' = RemoveConnection(med, med.byAddress[p.at])
  /\ UNCHANGED <<peer, stamp, started, disturbed>>

\* Either RTO timer resends to each peer that has not answered.
RtoTimeout(i) ==
  /\ SynRsts(med.conns[i]) # {} /\ Send(SynRsts(med.conns[i]))
  /\ UNCHANGED <<peer, med, stamp, started, disturbed>>

\* The connection timer of peer k: nothing came from it for too long, or it has
\* not come at all.
ConnectionTimeout(i, k) ==
  /\ med.conns[i] # NoConn
  /\ med' = RemoveConnection(med, i) /\ disturbed' = TRUE
  /\ UNCHANGED <<peer, stamp, net, started, faults>>

Tick ==
  /\ stamp < MaxStamp /\ stamp' = stamp + 1
  /\ disturbed' = (disturbed \/ stamp' > 1)
  /\ UNCHANGED <<peer, med, net, started, faults>>

-----------------------------------------------------------------------------
(* A peer *)

\* From the local address, or from all interfaces as long as there is none.
From(c) == IF c.local = Nil THEN c.bound ELSE {c.local}

\* What peer c has in its sender buffer, as packets.
Unacknowledged(c) ==
  IF c.buffer = "nothing" THEN {}
  ELSE {[Up(c.buffer, a) EXCEPT !.sn = IF c.buffer \in {"SYN", "PRX-ACK"} THEN c.sn ELSE NoSn] :
        a \in From(c)}

\* releaseReliableHandshakeMsg: the SYN or the PRX-ACK, whichever it is.  The
\* mutant releases a RST as well.
ReleaseAll(c) == [c EXCEPT !.buffer = "nothing"]
Release(c) == IF c.buffer \in {"SYN", "PRX-ACK"} THEN [c EXCEPT !.buffer = "nothing"] ELSE c

\* The application connects, from free ports or, by chance, from those it had.
Start(s, b) ==
  /\ peer[s].phase = "closed" /\ started < MaxStarts
  /\ started' = started + 1
  /\ peer' = [peer EXCEPT ![s] = [NoPeer EXCEPT !.phase = "opening", !.sn = <<s, started'>>,
                                                !.bound = b, !.buffer = "SYN"]]
  /\ Send(Unacknowledged(peer'[s]))
  /\ UNCHANGED <<med, stamp, disturbed>>

\* The peer dies, its application force closes, or its connection times out.
GiveUp(s) ==
  /\ peer[s].phase # "closed"
  /\ peer' = [peer EXCEPT ![s] = NoPeer] /\ disturbed' = TRUE
  /\ UNCHANGED <<med, stamp, net, started, faults>>

\* Release what is left of the handshake and send RST.
Close(s) ==
  /\ peer[s].phase \in {"opening", "open"}
  /\ peer' = [peer EXCEPT ![s].phase = "closing", ![s].buffer = "RST"] /\ disturbed' = TRUE
  /\ Send(Unacknowledged(peer'[s]))
  /\ UNCHANGED <<med, stamp, started>>

PeerRtoTimeout(s) ==
  /\ peer[s].buffer # "nothing" /\ Send(Unacknowledged(peer[s]))
  /\ UNCHANGED <<peer, med, stamp, started, disturbed>>

SendData(s) ==
  /\ peer[s].phase = "open"
  /\ Send({Up("DATA", peer[s].local)})
  /\ UNCHANGED <<peer, med, stamp, started, disturbed>>

\* The NAT punchthrough succeeds, whatever the phase: the connection goes on over the
\* direct path, its RST too, and the timer of the punchthrough resends PRX-RST.
Punch(s) ==
  /\ peer[s].phase \notin {"closed", "direct"} /\ peer[s].endpoints # {}
  /\ peer' = [peer EXCEPT ![s].phase = "direct", ![s].buffer = "PRX-RST"]
  /\ Send(Unacknowledged(peer'[s]))
  /\ UNCHANGED <<med, stamp, started, disturbed>>

\* A packet for a socket of the connection, from the address that the connection
\* talks to, and for the local address if it has one.
Arrives(p, s) == p.to = "peer" /\ p.at \in peer[s].bound
Heard(p, s) ==
  /\ Arrives(p, s) /\ peer[s].phase # "direct" /\ peer[s].local \in {Nil, p.at}
Ignored(p, s) ==
  /\ Arrives(p, s) /\ peer[s].phase # "direct" /\ peer[s].local \notin {Nil, p.at}

\* The connection becomes c.
Becomes(s, c) == peer' = [peer EXCEPT ![s] = c]

PeerGotPrx(p, s) ==
  /\ p.type = "PRX" /\ Heard(p, s)
  /\ Becomes(s, Release(peer[s])) /\ Exchange(p, {})

PeerGotSynRst(p, s) ==
  /\ p.type = "SYN-RST" /\ Heard(p, s)
  /\ IF peer[s].phase = "opening"
     THEN /\ Becomes(s, [peer[s] EXCEPT !.phase = "open", !.local = p.at, !.other = p.sn,
                                        !.buffer = "PRX-ACK"])
          /\ Exchange(p, Unacknowledged(peer'[s]))
     ELSE UNCHANGED peer /\ Exchange(p, {})

\* A pair starts a NAT punchthrough, unless there is one.
PeerGotPair(p, s) ==
  /\ p.type = "PAIR" /\ Heard(p, s)
  /\ Becomes(s, [Release(peer[s]) EXCEPT !.endpoints = IF @ = {} THEN p.pair ELSE @])
  /\ Exchange(p, {})

\* A packet with a sequence number settles the local address.
PeerGotData(p, s) ==
  /\ p.type = "DATA" /\ Heard(p, s)
  /\ Becomes(s, [peer[s] EXCEPT !.local = p.at]) /\ Exchange(p, {})

PeerGotRst(p, s) ==
  /\ p.type = "RST" /\ Heard(p, s)
  /\ Becomes(s, NoPeer) /\ Exchange(p, {Up("SYN-RST-ACK", p.at)})

PeerGotSynRstAck(p, s) ==
  /\ p.type = "SYN-RST-ACK" /\ Heard(p, s)
  /\ Becomes(s, NoPeer) /\ Exchange(p, {})

\* The NAT punchthrough is over, also when the answer is a late one to an earlier
\* session and it has not succeeded yet.
PeerGotPrxRstAck(p, s) ==
  /\ p.type = "PRX-RST-ACK" /\ Arrives(p, s) /\ ~Ignored(p, s)
  /\ Becomes(s, [peer[s] EXCEPT !.endpoints = {},
                                !.buffer = IF @ = "PRX-RST" THEN "nothing" ELSE @])
  /\ Exchange(p, {})

\* Once it has switched to the direct path, a peer takes the mediator for a
\* stranger, and tells it that there is no connection.
PeerGotUnexpected(p, s) ==
  /\ Arrives(p, s) /\ peer[s].phase = "direct" /\ p.type # "PRX-RST-ACK"
  /\ UNCHANGED peer
  /\ Exchange(p, IF p.type \in {"PRX", "PAIR"} THEN {Up("SYN-RST-ACK", p.at)} ELSE {})

\* Nobody is there, or the connection talks to the mediator from elsewhere.
PeerMisses(p) ==
  /\ p.to = "peer" /\ \A s \in Sides : ~Arrives(p, s) \/ Ignored(p, s)
  /\ UNCHANGED peer /\ Exchange(p, {})

PeerReceives(p) ==
  /\ \/ \E s \in Sides :
          \/ PeerGotPrx(p, s) \/ PeerGotSynRst(p, s) \/ PeerGotPair(p, s) \/ PeerGotData(p, s)
          \/ PeerGotRst(p, s) \/ PeerGotSynRstAck(p, s) \/ PeerGotPrxRstAck(p, s)
          \/ PeerGotUnexpected(p, s)
     \/ PeerMisses(p)
  /\ UNCHANGED <<med, stamp, started, disturbed>>

MediatorReceives(p) ==
  \/ MediatorGotSyn(p) \/ MediatorGotPrxAck(p) \/ MediatorGotData(p)
  \/ MediatorGotRst(p) \/ MediatorGotSynRstAck(p) \/ MediatorGotPrxRst(p)

-----------------------------------------------------------------------------
Next ==
  \/ \E s \in Sides :
       \/ \E b \in Bindings[s] : Start(s, b)
       \/ GiveUp(s) \/ Close(s) \/ PeerRtoTimeout(s) \/ SendData(s) \/ Punch(s)
  \/ \E i \in ConnIds : RtoTimeout(i) \/ \E k \in {1, 2} : ConnectionTimeout(i, k)
  \/ Tick
  \/ \E p \in net : Lose(p) \/ MediatorReceives(p) \/ PeerReceives(p)

Spec == Init /\ [][Next]_vars

\* No packet can come from peer k of connection i any more: nobody sends from its
\* address, and nothing sent from there is on its way.
Silent(i, k) ==
  LET a == med.conns[i].peers[k] IN
  /\ ~\E s \in Sides : peer[s].phase \in {"opening", "open", "closing"} /\ a \in From(peer[s])
  /\ ~\E p \in net : p.to = "mediator" /\ p.at = a

(***************************************************************************)
(* RTO timers fire while there is something to resend, the network does    *)
(* not lose everything and keeps no packet for ever, and a mediator        *)
(* connection with a silent peer times out.  Nothing else has to happen.   *)
(***************************************************************************)
Fairness ==
  /\ \A s \in Sides : SF_vars(PeerRtoTimeout(s))
  /\ \A i \in ConnIds : SF_vars(RtoTimeout(i))
  /\ \A i \in ConnIds : WF_vars(\E k \in {1, 2} : Silent(i, k) /\ ConnectionTimeout(i, k))
  /\ \A a \in Addresses :
       /\ \A t \in UpTypes   : WF_vars(\E p \in net : p.at = a /\ p.type = t /\ MediatorReceives(p))
       /\ \A t \in DownTypes : WF_vars(\E p \in net : p.at = a /\ p.type = t /\ PeerReceives(p))

FairSpec == Spec /\ Fairness

-----------------------------------------------------------------------------
(* Properties *)

\* What goes with the phase of peer c of side s: it has a local address and a partner
\* when it is open, and resends SYN, PRX-ACK, RST or PRX-RST only when opening, open,
\* closing or direct.
PeerOK(s, c) ==
  /\ c.phase \in {"closed", "opening", "open", "closing", "direct"}
  /\ c.phase = "closed" <=> c = NoPeer
  /\ c.phase # "closed" => c.sn[1] = s /\ c.bound \in Bindings[s]
  /\ c.local \in c.bound \cup {Nil}
  /\ c.phase = "open" => c.local # Nil /\ c.other # NoSn
  /\ c.phase = "opening" => c.buffer \in {"nothing", "SYN"}
  /\ c.phase = "open"    => c.buffer \in {"nothing", "PRX-ACK"}
  /\ c.phase = "closing" => c.buffer = "RST"
  /\ c.phase = "direct"  => c.buffer \in {"nothing", "PRX-RST"}

\* The types of the state.
TypeOK ==
  /\ \A s \in Sides : PeerOK(s, peer[s])
  /\ stamp \in 1 .. MaxStamp /\ started \in 0 .. MaxStarts
  /\ \A p \in net : p.at \in Addresses

\* The asserts of EmiP2PConn, and no leak: each address in _conns leads to a
\* connection with that peer, each connection is found by the address of each
\* of its peers, and the cookie leads to a connection that waits for a peer.
MapsConsistent ==
  /\ TypeOK
  /\ \A a \in Addresses : Found(med, a) => a \in {Conn(med, a).peers[k] : k \in {1, 2}}
  /\ \A i \in ConnIds, k \in {1, 2} :
       LET a == med.conns[i].peers[k] IN a # Nil => med.byAddress[a] = i
  /\ med.byCookie # 0 => /\ med.conns[med.byCookie].peers[1] # Nil
                         /\ med.conns[med.byCookie].peers[2] = Nil

\* Only the two peers of a cookie pair are ever brought together: the addresses
\* of a connection, the sessions that open to one another, and the endpoints
\* that a peer is told are its own and of the other peer.
IntroducesTheOther ==
  /\ \A i \in ConnIds :
       LET c == med.conns[i] IN
       Nil \notin {c.peers[1], c.peers[2]} => Owner(c.peers[1]) # Owner(c.peers[2])
  /\ \A s \in Sides :
       /\ peer[s].other # NoSn => peer[s].other[1] = Other(s)
       /\ \A e \in peer[s].endpoints :
            /\ e.mine[1] = e.mine[2] /\ Owner(e.mine[1]) = s
            /\ e.theirs[1] = e.theirs[2] /\ Owner(e.theirs[1]) = Other(s)

\* Two peers that connect come together, whatever order their packets arrive in
\* and whichever of them are lost, as long as no session ends, no connection of
\* the mediator times out, and the cookies are still valid.
BothOpen ==
  \A s \in Sides :
    (\A t \in Sides : peer[t].phase = "opening") ~> (peer[s].phase # "opening" \/ disturbed)

\* A close through the mediator comes to an end, whether the other peer answers,
\* is gone, has never come or has left for the direct path, or goes on over the
\* direct path, because the NAT punchthrough succeeds while the RST is on its way.
CloseFinishes == \A s \in Sides : peer[s].phase = "closing" ~> peer[s].phase # "closing"

\* EmiLogicalConnection.h: "Send reliable PRX-ACK message".  A peer that has
\* opened resends its PRX-ACK until it has been introduced.
PrxAckIsReliable ==
  \A s \in Sides : peer[s].phase = "open" /\ peer[s].endpoints = {} => peer[s].buffer = "PRX-ACK"

\* EmiMessageHandler.h: a host answers SYN-RST-ACK when "We got a message that
\* requires an open connection, but we don't have one", so that "The other host
\* will interpret that as if this host closed the connection".  As long as nobody
\* closes, dies or times out, no peer is told that.
OtherHostClosedIsTrue ==
  [][~disturbed' => \A s \in Sides : peer[s].phase = "open" => peer'[s].phase # "closed"]_vars
=============================================================================

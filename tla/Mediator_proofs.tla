---------------------------- MODULE Mediator_proofs ----------------------------
(***************************************************************************)
(* Proofs about the P2P mediator, for all interfaces and bounds: its three *)
(* maps agree after any order of SYNs, answers, teardowns and time-outs,   *)
(* and only the two peers of a cookie pair are ever brought together.      *)
(***************************************************************************)
EXTENDS Mediator, TLAPS

-----------------------------------------------------------------------------
(* The inductive invariant *)

Ends      == Addresses \cup {Nil}
Sns       == (Sides \cup {Nil}) \X Nat
Endpoints == [mine : Addresses \X Addresses, theirs : Addresses \X Addresses]
Packets   == [type : UpTypes \cup DownTypes, to : {"mediator", "peer"}, at : Addresses,
              sn : Sns, pair : SUBSET Endpoints]
Conns     == [peers : [{1, 2} -> Ends], sns : [{1, 2} -> Sns], waiting : SUBSET {1, 2},
              inner : [{1, 2} -> Ends], side : Sides \cup {Nil}]
Meds      == [conns : [ConnIds -> Conns], byAddress : [Addresses -> ConnIds \cup {0}],
              byCookie : ConnIds \cup {0}]
Peers     == [phase : {"closed", "opening", "open", "closing", "direct"}, sn : Sns,
              bound : SUBSET Addresses, local : Ends, other : Sns,
              buffer : {"nothing", "SYN", "PRX-ACK", "RST", "PRX-RST"},
              endpoints : SUBSET Endpoints]

\* Endpoints that a peer of side s, and of no other, may be told.
Introduces(e, s) ==
  /\ e.mine[1] = e.mine[2] /\ Owner(e.mine[1]) = s
  /\ e.theirs[1] = e.theirs[2] /\ Owner(e.theirs[1]) = Other(s)

\* A connection has its first peer before the second, of the other side, and knows each
\* peer's own number; it waits for answers only when both are there.
ConnInv(c) ==
  /\ c \in Conns
  /\ c.peers[2] # Nil => /\ c.peers[1] # Nil
                         /\ Owner(c.peers[1]) # Owner(c.peers[2])
  /\ c.peers[1] # Nil => c.side = Owner(c.peers[1])
  /\ c.waiting # {} => c.peers[2] # Nil
  /\ \A k \in {1, 2} : /\ c.peers[k] # Nil => c.sns[k][1] = Owner(c.peers[k])
                       /\ c.inner[k] \in {Nil, c.peers[k]}

\* MapsConsistent, of any state m of the mediator.
MapsInv(m) ==
  /\ \A a \in Addresses : m.byAddress[a] # 0 => \E k \in {1, 2} : a = m.conns[m.byAddress[a]].peers[k]
  /\ \A i \in ConnIds, k \in {1, 2} :
       m.conns[i].peers[k] # Nil => m.byAddress[m.conns[i].peers[k]] = i
  /\ m.byCookie # 0 => /\ m.conns[m.byCookie].peers[1] # Nil
                       /\ m.conns[m.byCookie].peers[2] = Nil

MedInv(m) == m \in Meds /\ MapsInv(m) /\ \A i \in ConnIds : ConnInv(m.conns[i])

\* TypeOK and IntroducesTheOther, of a peer c of side s.
PeerInv(s, c) ==
  /\ c \in Peers
  /\ PeerOK(s, c)
  /\ c.other # NoSn => c.other[1] = Other(s)
  /\ \A e \in c.endpoints : Introduces(e, s)

\* A packet with a number has that of the peer it comes from, or of the other one
\* if it goes to a peer; so have the endpoints it tells.
PacketInv(p) ==
  /\ p \in Packets
  /\ p.type = "SYN" => p.sn[1] = Owner(p.at)
  /\ p.type = "SYN-RST" => p.sn[1] = Other(Owner(p.at))
  /\ p.type # "PAIR" => p.pair = {}
  /\ \A e \in p.pair : Introduces(e, Owner(p.at))

MediatorInv ==
  /\ MedInv(med)
  /\ peer \in [Sides -> Peers] /\ \A s \in Sides : PeerInv(s, peer[s])
  /\ \A p \in net : PacketInv(p)
  /\ stamp \in 1 .. MaxStamp /\ started \in 0 .. MaxStarts

-----------------------------------------------------------------------------
(* Addresses *)

\* An address belongs to one side, and a connection has numbers from 1.
LEMMA Owners ==
  /\ \A s \in Sides : \A a \in UNION Bindings[s] : a \in Addresses /\ Owner(a) = s
  /\ \A a \in Addresses : Owner(a) \in Sides /\ a # Nil
  /\ \A s \in Sides : Other(s) \in Sides /\ Other(s) # s /\ Other(Other(s)) = s /\ s # Nil
  /\ \A s, t \in Sides : s # t => t = Other(s)
  /\ 0 \notin ConnIds
<1>1. \A s, t \in Sides : \A a \in UNION Bindings[s] : a \in UNION Bindings[t] => s = t
  BY MediatorAssumption DEF Sides
<1>2. \A s \in Sides : \A a \in UNION Bindings[s] : a \in Addresses /\ Owner(a) = s
  <2> SUFFICES ASSUME NEW s \in Sides, NEW a \in UNION Bindings[s]
               PROVE  a \in Addresses /\ Owner(a) = s
    OBVIOUS
  <2>1. a \in Addresses
    BY DEF Addresses
  <2>2. Owner(a) \in Sides /\ a \in UNION Bindings[Owner(a)]
    BY DEF Owner
  <2>3. QED
    BY <1>1, <2>1, <2>2
<1>3. \A a \in Addresses : Owner(a) \in Sides /\ a # Nil
  BY <1>2, MediatorAssumption DEF Addresses
<1>4. /\ \A s \in Sides : Other(s) \in Sides /\ Other(s) # s /\ Other(Other(s)) = s /\ s # Nil
      /\ \A s, t \in Sides : s # t => t = Other(s)
  BY DEF Sides, Other, Nil
<1>5. 0 \notin ConnIds
  BY DEF ConnIds
<1>6. QED
  BY <1>2, <1>3, <1>4, <1>5

LEMMA Pairs ==
  ASSUME NEW S, NEW x \in S, NEW y \in S
  PROVE  <<x, y>> \in [{1, 2} -> S] /\ <<x, y>>[1] = x /\ <<x, y>>[2] = y
OBVIOUS

LEMMA NoConnInv == ConnInv(NoConn) /\ \A k \in {1, 2} : NoConn.peers[k] = Nil
<1>1. <<Nil, Nil>> \in [{1, 2} -> Ends] /\ <<NoSn, NoSn>> \in [{1, 2} -> Sns]
  BY DEF Ends, Sns, NoSn
<1>2. NoConn \in Conns
  BY <1>1 DEF NoConn, Conns
<1>3. /\ NoConn.peers[1] = Nil /\ NoConn.peers[2] = Nil /\ NoConn.waiting = {}
      /\ NoConn.inner[1] = Nil /\ NoConn.inner[2] = Nil
  BY DEF NoConn
<1>4. QED
  BY <1>2, <1>3 DEF ConnInv

-----------------------------------------------------------------------------
(* The maps of the mediator *)

LEMMA MedFacts ==
  ASSUME NEW m, MedInv(m)
  PROVE  /\ m = [conns |-> m.conns, byAddress |-> m.byAddress, byCookie |-> m.byCookie]
         /\ m.conns \in [ConnIds -> Conns] /\ m.byAddress \in [Addresses -> ConnIds \cup {0}]
         /\ m.byCookie \in ConnIds \cup {0}
         /\ \A i \in ConnIds : ConnInv(m.conns[i])
         /\ \A a \in Addresses : m.byAddress[a] \in ConnIds \cup {0}
         /\ \A i \in ConnIds, k \in {1, 2} : m.conns[i].peers[k] \in Addresses \cup {Nil}
BY DEF MedInv, Meds, ConnInv, Conns, Ends

\* A connection is forgotten with the addresses of its peers, and they are of no other.
LEMMA RemovedInv ==
  ASSUME NEW m, MedInv(m), NEW i \in ConnIds \cup {0}
  PROVE  MedInv(RemoveConnection(m, i))
<1>1. CASE i = 0
  BY <1>1 DEF RemoveConnection
<1>2. CASE i # 0
  <2> DEFINE conns == [m.conns EXCEPT ![i] = NoConn]
             byAddress == [a \in Addresses |-> IF \E k \in {1, 2} : a = m.conns[i].peers[k]
                                               THEN 0 ELSE m.byAddress[a]]
             r == [conns |-> conns, byAddress |-> byAddress, byCookie |-> 0]
  <2>1. RemoveConnection(m, i) = r /\ i \in ConnIds
    BY <1>2 DEF RemoveConnection
  <2>2. conns \in [ConnIds -> Conns] /\ byAddress \in [Addresses -> ConnIds \cup {0}]
    BY MedFacts, NoConnInv DEF ConnInv
  <2>3. \A j \in ConnIds : conns[j] = IF j = i THEN NoConn ELSE m.conns[j]
    BY MedFacts
  <2>4. r \in Meds /\ r.conns = conns /\ r.byAddress = byAddress /\ r.byCookie = 0
    BY <2>2 DEF Meds
  <2>5. \A j \in ConnIds : ConnInv(r.conns[j])
    BY <2>3, <2>4, MedFacts, NoConnInv
  <2>6. ASSUME NEW a \in Addresses, byAddress[a] # 0
        PROVE  \E k \in {1, 2} : a = conns[byAddress[a]].peers[k]
    <3>1. byAddress[a] = m.byAddress[a] /\ ~\E k \in {1, 2} : a = m.conns[i].peers[k]
      BY <2>6
    <3>2. m.byAddress[a] \in ConnIds
      BY <2>6, <3>1, MedFacts
    <3>3. \E k \in {1, 2} : a = m.conns[m.byAddress[a]].peers[k]
      BY <2>6, <3>1 DEF MedInv, MapsInv
    <3>4. QED
      BY <2>3, <3>1, <3>2, <3>3
  <2>7. ASSUME NEW j \in ConnIds, NEW k \in {1, 2}, conns[j].peers[k] # Nil
        PROVE  byAddress[conns[j].peers[k]] = j
    <3>1. j # i /\ conns[j] = m.conns[j]
      BY <2>3, <2>7, NoConnInv
    <3>2. m.conns[j].peers[k] \in Addresses /\ m.byAddress[m.conns[j].peers[k]] = j
      BY <2>7, <3>1, MedFacts DEF MedInv, MapsInv
    <3>3. \A l \in {1, 2} : m.conns[j].peers[k] # m.conns[i].peers[l]
      BY <2>1, <2>7, <3>1, <3>2 DEF MedInv, MapsInv
    <3>4. QED
      BY <3>1, <3>2, <3>3
  <2> HIDE DEF conns, byAddress, r
  <2>8. MapsInv(r)
    BY <2>4, <2>6, <2>7 DEF MapsInv
  <2>9. QED
    BY <2>1, <2>4, <2>5, <2>8 DEF MedInv
<1>3. QED
  BY <1>1, <1>2

\* A connection with one peer waits under the cookie.
LEMMA AddedInv ==
  ASSUME NEW m, MedInv(m), NEW i \in ConnIds, m.conns[i] = NoConn, m.byCookie = 0,
         NEW p, p.at \in Addresses, m.byAddress[p.at] = 0,
         p.sn \in Sns, p.sn[1] = Owner(p.at)
  PROVE  MedInv(AddConnection(m, i, p, Owner(p.at)))
<1> DEFINE c == FirstPeer(p, Owner(p.at))
           conns == [m.conns EXCEPT ![i] = c]
           byAddress == [m.byAddress EXCEPT ![p.at] = i]
           r == [conns |-> conns, byAddress |-> byAddress, byCookie |-> i]
<1>1. AddConnection(m, i, p, Owner(p.at)) = r
  BY DEF AddConnection
<1>2. ConnInv(c) /\ c.peers[1] = p.at /\ c.peers[2] = Nil
  <2>1. /\ c.peers = <<p.at, Nil>> /\ c.sns = <<p.sn, NoSn>> /\ c.waiting = {}
        /\ c.inner = <<Nil, Nil>> /\ c.side = Owner(p.at)
        /\ c = [peers |-> <<p.at, Nil>>, sns |-> <<p.sn, NoSn>>, waiting |-> {},
                inner |-> <<Nil, Nil>>, side |-> Owner(p.at)]
    BY DEF FirstPeer, NoConn
  <2>2. p.at \in Ends /\ Nil \in Ends /\ p.sn \in Sns /\ NoSn \in Sns
    BY DEF Ends, Sns, NoSn
  <2>3. /\ c.peers \in [{1, 2} -> Ends] /\ c.sns \in [{1, 2} -> Sns]
        /\ c.inner \in [{1, 2} -> Ends]
        /\ c.peers[1] = p.at /\ c.peers[2] = Nil /\ c.sns[1] = p.sn
        /\ c.inner[1] = Nil /\ c.inner[2] = Nil
    BY <2>1, <2>2, Pairs
  <2>4. c \in Conns
    BY <2>1, <2>3, Owners DEF Conns
  <2> HIDE DEF c
  <2>5. QED
    BY <2>1, <2>3, <2>4, Owners DEF ConnInv
<1> HIDE DEF c
<1>3. conns \in [ConnIds -> Conns] /\ byAddress \in [Addresses -> ConnIds \cup {0}]
  BY <1>2, MedFacts DEF ConnInv
<1>4. /\ \A j \in ConnIds : conns[j] = IF j = i THEN c ELSE m.conns[j]
      /\ \A a \in Addresses : byAddress[a] = IF a = p.at THEN i ELSE m.byAddress[a]
  BY MedFacts
<1>5. r \in Meds /\ r.conns = conns /\ r.byAddress = byAddress /\ r.byCookie = i
  BY <1>3 DEF Meds
<1> HIDE DEF conns, byAddress, r
<1>6. \A j \in ConnIds : ConnInv(r.conns[j])
  BY <1>2, <1>4, <1>5, MedFacts
<1>7. ASSUME NEW a \in Addresses, byAddress[a] # 0
      PROVE  \E k \in {1, 2} : a = conns[byAddress[a]].peers[k]
  <2>1. CASE a = p.at
    BY <1>2, <1>4, <2>1
  <2>2. CASE a # p.at
    <3>1. byAddress[a] = m.byAddress[a] /\ m.byAddress[a] \in ConnIds
      BY <1>4, <1>7, <2>2, MedFacts
    <3>2. PICK k \in {1, 2} : a = m.conns[m.byAddress[a]].peers[k]
      BY <1>7, <3>1 DEF MedInv, MapsInv
    <3>3. m.byAddress[a] # i
      BY <3>2, NoConnInv, Owners
    <3>4. QED
      BY <1>4, <3>1, <3>2, <3>3
  <2>3. QED
    BY <2>1, <2>2
<1>8. ASSUME NEW j \in ConnIds, NEW k \in {1, 2}, conns[j].peers[k] # Nil
      PROVE  byAddress[conns[j].peers[k]] = j
  <2>1. CASE j = i
    BY <1>2, <1>4, <1>8, <2>1
  <2>2. CASE j # i
    <3>1. /\ conns[j] = m.conns[j] /\ m.conns[j].peers[k] \in Addresses
          /\ m.byAddress[m.conns[j].peers[k]] = j
      BY <1>4, <1>8, <2>2, MedFacts DEF MedInv, MapsInv
    <3>2. m.conns[j].peers[k] # p.at
      BY <3>1, Owners
    <3>3. QED
      BY <1>4, <3>1, <3>2
  <2>3. QED
    BY <2>1, <2>2
<1>9. MapsInv(r)
  BY <1>2, <1>4, <1>5, <1>7, <1>8, Owners DEF MapsInv
<1>10. QED
  BY <1>1, <1>5, <1>6, <1>9 DEF MedInv

\* The connection under the cookie gets its second peer, of the other side.
LEMMA SecondPeerInv ==
  ASSUME NEW c, ConnInv(c), c.peers[1] # Nil, c.peers[2] = Nil,
         NEW p, p.at \in Addresses, p.sn \in Sns, p.sn[1] = Owner(p.at),
         c.side # Owner(p.at)
  PROVE  /\ ConnInv(SecondPeer(c, p))
         /\ SecondPeer(c, p).peers[1] = c.peers[1] /\ SecondPeer(c, p).peers[2] = p.at
<1> DEFINE d == SecondPeer(c, p)
<1>1. c \in Conns /\ p.at \in Ends
  BY DEF ConnInv, Ends
<1>2. d \in Conns
  BY <1>1 DEF SecondPeer, Conns
<1>3. /\ d.peers = [c.peers EXCEPT ![2] = p.at] /\ d.sns = [c.sns EXCEPT ![2] = p.sn]
      /\ d.inner = c.inner /\ d.side = c.side
  BY <1>1 DEF SecondPeer, Conns
<1> HIDE DEF d
<1>4. /\ d.peers[1] = c.peers[1] /\ d.peers[2] = p.at
      /\ d.sns[1] = c.sns[1] /\ d.sns[2] = p.sn
  BY <1>1, <1>3 DEF Conns
<1>5. /\ c.inner[2] \in {Nil, c.peers[2]} /\ c.inner[1] \in {Nil, c.peers[1]}
      /\ c.side = Owner(c.peers[1]) /\ c.sns[1][1] = Owner(c.peers[1])
  BY DEF ConnInv
<1>6. \A k \in {1, 2} : /\ d.sns[k][1] = Owner(d.peers[k])
                        /\ d.inner[k] \in {Nil, d.peers[k]}
  BY <1>3, <1>4, <1>5
<1>7. Owner(d.peers[1]) # Owner(d.peers[2]) /\ d.side = Owner(d.peers[1]) /\ d.peers[2] # Nil
  BY <1>3, <1>4, <1>5, Owners
<1>8. ConnInv(d)
  BY <1>2, <1>4, <1>6, <1>7 DEF ConnInv
<1>9. QED
  BY <1>4, <1>8 DEF d

LEMMA CompletedInv ==
  ASSUME NEW m, MedInv(m), m.byCookie # 0,
         NEW p, p.at \in Addresses, m.byAddress[p.at] = 0,
         p.sn \in Sns, p.sn[1] = Owner(p.at),
         m.conns[m.byCookie].side # Owner(p.at)
  PROVE  MedInv(GotOtherAddress(m, p))
<1> DEFINE i == m.byCookie
           c == SecondPeer(m.conns[i], p)
           conns == [m.conns EXCEPT ![i] = c]
           byAddress == [m.byAddress EXCEPT ![p.at] = i]
           r == [conns |-> conns, byAddress |-> byAddress, byCookie |-> 0]
<1>0. i \in ConnIds /\ m.conns[i].peers[1] # Nil /\ m.conns[i].peers[2] = Nil
  BY MedFacts DEF MedInv, MapsInv
<1>1. GotOtherAddress(m, p) = r
  BY <1>0, MedFacts DEF GotOtherAddress
<1>2. ConnInv(c) /\ c.peers[1] = m.conns[i].peers[1] /\ c.peers[2] = p.at
  BY <1>0, MedFacts, SecondPeerInv
<1> HIDE DEF c, i
<1>3. conns \in [ConnIds -> Conns] /\ byAddress \in [Addresses -> ConnIds \cup {0}]
  BY <1>0, <1>2, MedFacts DEF ConnInv
<1>4. /\ \A j \in ConnIds : conns[j] = IF j = i THEN c ELSE m.conns[j]
      /\ \A a \in Addresses : byAddress[a] = IF a = p.at THEN i ELSE m.byAddress[a]
  BY MedFacts
<1>5. r \in Meds /\ r.conns = conns /\ r.byAddress = byAddress /\ r.byCookie = 0
  BY <1>3 DEF Meds
<1> HIDE DEF conns, byAddress, r
<1>6. \A j \in ConnIds : ConnInv(r.conns[j])
  BY <1>2, <1>4, <1>5, MedFacts
<1>7. ASSUME NEW a \in Addresses, byAddress[a] # 0
      PROVE  \E k \in {1, 2} : a = conns[byAddress[a]].peers[k]
  <2>1. CASE a = p.at
    BY <1>0, <1>2, <1>4, <2>1
  <2>2. CASE a # p.at
    <3>1. byAddress[a] = m.byAddress[a] /\ m.byAddress[a] \in ConnIds
      BY <1>4, <1>7, <2>2, MedFacts
    <3>2. PICK k \in {1, 2} : a = m.conns[m.byAddress[a]].peers[k]
      BY <1>7, <3>1 DEF MedInv, MapsInv
    <3>3. conns[m.byAddress[a]].peers[k] = m.conns[m.byAddress[a]].peers[k]
      <4>1. a # Nil
        BY Owners
      <4>2. CASE m.byAddress[a] = i
        BY <1>0, <1>2, <1>4, <3>2, <4>1, <4>2
      <4>3. CASE m.byAddress[a] # i
        BY <1>4, <3>1, <4>3
      <4>4. QED
        BY <4>2, <4>3
    <3>4. QED
      BY <3>1, <3>2, <3>3
  <2>3. QED
    BY <2>1, <2>2
<1>8. ASSUME NEW j \in ConnIds, NEW k \in {1, 2}, conns[j].peers[k] # Nil
      PROVE  byAddress[conns[j].peers[k]] = j
  <2>1. CASE j = i /\ k = 2
    <3>1. conns[j].peers[k] = p.at
      BY <1>2, <1>4, <2>1
    <3>2. byAddress[p.at] = i
      BY <1>4
    <3>3. QED
      BY <2>1, <3>1, <3>2
  <2>2. CASE ~(j = i /\ k = 2)
    <3>1. conns[j].peers[k] = m.conns[j].peers[k]
      <4>1. CASE j = i
        BY <1>2, <1>4, <2>2, <4>1
      <4>2. CASE j # i
        BY <1>4, <4>2
      <4>3. QED
        BY <4>1, <4>2
    <3>2. m.conns[j].peers[k] \in Addresses /\ m.byAddress[m.conns[j].peers[k]] = j
      <4>1. m.conns[j].peers[k] # Nil
        BY <1>8, <3>1
      <4>2. m.conns[j].peers[k] \in Addresses
        BY <4>1, MedFacts
      <4>3. MapsInv(m)
        BY DEF MedInv
      <4>4. QED
        BY <4>1, <4>2, <4>3 DEF MapsInv
    <3>3. m.conns[j].peers[k] # p.at
      <4>1. j # 0
        BY Owners
      <4>2. QED
        BY <3>2, <4>1
    <3>4. QED
      BY <1>4, <3>1, <3>2, <3>3
  <2>3. QED
    BY <2>1, <2>2
<1>9. MapsInv(r)
  BY <1>5, <1>7, <1>8 DEF MapsInv
<1>10. QED
  BY <1>1, <1>5, <1>6, <1>9 DEF MedInv

\* A peer of a connection answers with its inner address, which is the same.
LEMMA AnsweredInv ==
  ASSUME NEW c, ConnInv(c), NEW k \in {1, 2}, c.peers[k] \in Addresses
  PROVE  ConnInv(Answered(c, k, c.peers[k])) /\ Answered(c, k, c.peers[k]).peers = c.peers
<1> DEFINE d == Answered(c, k, c.peers[k])
<1>1. c \in Conns /\ c.peers[k] \in Ends
  BY DEF ConnInv, Ends
<1>2. d \in Conns
  BY <1>1 DEF Answered, Conns
<1>3. /\ d.peers = c.peers /\ d.sns = c.sns /\ d.waiting = c.waiting \ {k}
      /\ d.inner = [c.inner EXCEPT ![k] = c.peers[k]] /\ d.side = c.side
  BY <1>1 DEF Answered, Conns
<1> HIDE DEF d
<1>4. \A l \in {1, 2} : d.inner[l] = IF l = k THEN c.peers[k] ELSE c.inner[l]
  BY <1>1, <1>3 DEF Conns
<1>5. \A l \in {1, 2} : d.inner[l] \in {Nil, d.peers[l]}
  BY <1>3, <1>4 DEF ConnInv
<1>6. ConnInv(d)
  BY <1>2, <1>3, <1>5 DEF ConnInv
<1>7. QED
  BY <1>3, <1>6 DEF d

\* A connection of the mediator that keeps its peers.
LEMMA SamePeersInv ==
  ASSUME NEW m, MedInv(m), NEW i \in ConnIds, NEW c, ConnInv(c), c.peers = m.conns[i].peers
  PROVE  MedInv([m EXCEPT !.conns[i] = c])
<1> DEFINE conns == [m.conns EXCEPT ![i] = c]
           r == [conns |-> conns, byAddress |-> m.byAddress, byCookie |-> m.byCookie]
<1>1. [m EXCEPT !.conns[i] = c] = r
  <2>1. m = [conns |-> m.conns, byAddress |-> m.byAddress, byCookie |-> m.byCookie]
    BY MedFacts
  <2>2. QED
    BY <2>1
<1>2. conns \in [ConnIds -> Conns] /\ \A j \in ConnIds : conns[j] = IF j = i THEN c ELSE m.conns[j]
  BY MedFacts DEF ConnInv
<1>3. /\ r \in Meds /\ r.conns = conns /\ r.byAddress = m.byAddress /\ r.byCookie = m.byCookie
  BY <1>2, MedFacts DEF Meds
<1> HIDE DEF conns, r
<1>4. \A j \in ConnIds : conns[j].peers = m.conns[j].peers /\ ConnInv(conns[j])
  BY <1>2, MedFacts
<1>5. MapsInv(r)
  BY <1>3, <1>4, MedFacts DEF MedInv, MapsInv
<1>6. QED
  BY <1>1, <1>3, <1>4, <1>5 DEF MedInv

-----------------------------------------------------------------------------
(* Packets *)

LEMMA Fields ==
  ASSUME NEW type, NEW to, NEW at
  PROVE  /\ Packet(type, to, at).type = type /\ Packet(type, to, at).to = to
         /\ Packet(type, to, at).at = at /\ Packet(type, to, at).sn = NoSn
         /\ Packet(type, to, at).pair = {}
BY DEF Packet

\* A packet without contents.
LEMMA PlainPacket ==
  ASSUME NEW type \in UpTypes \cup DownTypes, NEW to \in {"mediator", "peer"}, NEW at \in Addresses
  PROVE  Packet(type, to, at) \in Packets
<1>1. NoSn \in Sns
  BY DEF NoSn, Sns
<1>2. QED
  BY <1>1 DEF Packet, Packets

LEMMA DownInv ==
  ASSUME NEW type \in DownTypes \ {"SYN-RST"}, NEW at \in Addresses
  PROVE  PacketInv(Down(type, at))
<1>1. Down(type, at) \in Packets
  BY PlainPacket DEF Down
<1>2. Down(type, at).type = type /\ Down(type, at).pair = {} 
  BY Fields DEF Down
<1>3. QED
  BY <1>1, <1>2 DEF PacketInv, DownTypes

LEMMA UpInv ==
  ASSUME NEW type \in UpTypes \ {"SYN"}, NEW at \in Addresses
  PROVE  PacketInv(Up(type, at))
<1>1. Up(type, at) \in Packets
  BY PlainPacket DEF Up
<1>2. Up(type, at).type = type /\ Up(type, at).pair = {}
  BY Fields DEF Up
<1>3. QED
  BY <1>1, <1>2 DEF PacketInv, UpTypes

\* The mediator tells each peer the number of the other.
LEMMA SynRstsInv ==
  ASSUME NEW c, ConnInv(c)
  PROVE  \A p \in SynRsts(c) : PacketInv(p)
<1> SUFFICES ASSUME NEW k \in c.waiting
             PROVE  PacketInv(SynRst(c, k))
  BY DEF SynRsts
<1> DEFINE l == OtherIndex(k)
           q == Down("SYN-RST", c.peers[k])
           p == SynRst(c, k)
<1>1. k \in {1, 2} /\ l \in {1, 2} /\ k # l /\ c.sns[l] \in Sns
  BY DEF ConnInv, Conns, OtherIndex
<1>2. /\ c.peers[k] \in Addresses /\ c.peers[l] \in Addresses
      /\ Owner(c.peers[k]) # Owner(c.peers[l])
  BY <1>1 DEF ConnInv, Conns, Ends
<1>3. c.sns[l][1] = Other(Owner(c.peers[k]))
  BY <1>1, <1>2, Owners DEF ConnInv
<1>4. q \in Packets /\ q.type = "SYN-RST" /\ q.at = c.peers[k] /\ q.pair = {}
  <2>1. q \in Packets
    BY <1>2, PlainPacket DEF Down, DownTypes
  <2>2. q.type = "SYN-RST" /\ q.at = c.peers[k] /\ q.pair = {}
    BY Fields DEF Down
  <2>3. QED
    BY <2>1, <2>2
<1> HIDE DEF q, l
<1>6. p = [q EXCEPT !.sn = c.sns[l]]
  BY DEF SynRst, q, l
<1>7. p \in Packets /\ p.type = "SYN-RST" /\ p.at = c.peers[k] /\ p.pair = {} /\ p.sn = c.sns[l]
  BY <1>1, <1>4, <1>6 DEF Packets
<1> HIDE DEF p
<1>8. PacketInv(p)
  BY <1>3, <1>7 DEF PacketInv
<1>9. QED
  BY <1>8 DEF p

\* Each peer is told its own endpoints and those of the other.
LEMMA EndpointPairsInv ==
  ASSUME NEW c, ConnInv(c)
  PROVE  \A p \in EndpointPairs(c) : PacketInv(p)
<1> SUFFICES ASSUME c.inner[1] # Nil, c.inner[2] # Nil, NEW k \in {1, 2}
             PROVE  PacketInv(EndpointPair(c, k))
  BY DEF EndpointPairs
<1> DEFINE l == OtherIndex(k)
           q == Down("PAIR", c.peers[k])
           e == [mine |-> <<c.inner[k], c.peers[k]>>, theirs |-> <<c.inner[l], c.peers[l]>>]
           p == EndpointPair(c, k)
<1>1. l \in {1, 2} /\ k # l
  BY DEF OtherIndex
<1>2. /\ c.inner[k] = c.peers[k] /\ c.inner[l] = c.peers[l]
      /\ c.peers[k] # Nil /\ c.peers[l] # Nil
  BY <1>1 DEF ConnInv
<1>3. /\ c.peers[k] \in Addresses /\ c.peers[l] \in Addresses
      /\ Owner(c.peers[l]) = Other(Owner(c.peers[k]))
  BY <1>1, <1>2, Owners DEF ConnInv, Conns, Ends
<1>4. e \in Endpoints /\ Introduces(e, Owner(c.peers[k]))
  BY <1>2, <1>3 DEF Endpoints, Introduces
<1>5. q \in Packets /\ q.type = "PAIR" /\ q.at = c.peers[k]
  <2>1. q \in Packets
    BY <1>3, PlainPacket DEF Down, DownTypes
  <2>2. q.type = "PAIR" /\ q.at = c.peers[k]
    BY Fields DEF Down
  <2>3. QED
    BY <2>1, <2>2
<1> HIDE DEF q, l, e
<1>6. p = [q EXCEPT !.pair = {e}]
  BY DEF EndpointPair, q, l, e
<1>7. p \in Packets /\ p.type = "PAIR" /\ p.at = c.peers[k] /\ p.pair = {e}
  BY <1>4, <1>5, <1>6 DEF Packets
<1> HIDE DEF p
<1>8. PacketInv(p)
  BY <1>4, <1>7 DEF PacketInv
<1>9. QED
  BY <1>8 DEF p

\* What the mediator passes on tells nothing.
LEMMA ForwardInv ==
  ASSUME NEW c, ConnInv(c), NEW p, PacketInv(p), p.type \in DownTypes \ {"SYN-RST", "PAIR"}
  PROVE  \A q \in Forward(c, p) : PacketInv(q)
<1> DEFINE other == c.peers[OtherIndex(Index(c, p.at))]
           q == [p EXCEPT !.to = "peer", !.at = other]
<1> SUFFICES ASSUME other # Nil
             PROVE  PacketInv(q)
  BY DEF Forward
<1>1. other \in Addresses /\ p.pair = {}
  BY DEF PacketInv, ConnInv, Conns, Ends, OtherIndex, Index
<1> HIDE DEF other
<1>2. q \in Packets /\ q.type = p.type /\ q.pair = p.pair
  BY <1>1 DEF PacketInv, Packets
<1> HIDE DEF q
<1>3. p.type # "SYN"
  BY DEF DownTypes
<1>4. QED
  BY <1>2, <1>3 DEF PacketInv

\* The network may lose what it had or keep it, and gets what is sent.
LEMMA NetInv ==
  ASSUME \A q \in net : PacketInv(q), NEW sent, \A q \in sent : PacketInv(q),
         (\E p \in net : Exchange(p, sent)) \/ Send(sent)
  PROVE  \A q \in net' : PacketInv(q)
<1>1. net' \subseteq net \cup sent
  BY DEF Exchange, Send
<1>2. QED
  BY <1>1

-----------------------------------------------------------------------------
(* The mediator *)

\* A step of the mediator: peers and clock go on as they are.
LEMMA MediatorStep ==
  ASSUME MediatorInv, MedInv(med'), \A q \in net' : PacketInv(q), UNCHANGED <<peer, stamp, started>>
  PROVE  MediatorInv'
BY DEF MediatorInv

\* A connection that is found, and the place of the address in it.
LEMMA FoundFacts ==
  ASSUME NEW m, MedInv(m), NEW a \in Addresses, Found(m, a)
  PROVE  LET c == Conn(m, a) IN
         /\ m.byAddress[a] \in ConnIds /\ ConnInv(c)
         /\ Index(c, a) \in {1, 2} /\ c.peers[Index(c, a)] = a
<1>1. m.byAddress[a] \in ConnIds /\ ConnInv(Conn(m, a))
  BY MedFacts DEF Found, Conn
<1>2. \E k \in {1, 2} : a = Conn(m, a).peers[k]
  BY DEF MedInv, MapsInv, Found, Conn
<1>3. QED
  BY <1>1, <1>2 DEF Index

\* What is forgotten of a peer that comes with a new number.
LEMMA ForgottenInv ==
  ASSUME NEW m, MedInv(m), NEW p, p.at \in Addresses
  PROVE  MedInv(ForgetMismatch(m, p))
BY RemovedInv, MedFacts DEF ForgetMismatch

LEMMA SynStep ==
  ASSUME MediatorInv, NEW p \in net, MediatorGotSyn(p)
  PROVE  MediatorInv'
<1> DEFINE m   == ForgetMismatch(med, p)
           prx == Down("PRX", p.at)
           o   == Owner(p.at)
<1>1. /\ PacketInv(p) /\ p.at \in Addresses /\ p.sn \in Sns /\ p.sn[1] = o
      /\ MedInv(med) /\ \A q \in net : PacketInv(q)
  BY DEF MediatorGotSyn, MediatorInv, PacketInv, Packets
<1>2. MedInv(m) /\ PacketInv(prx)
  BY <1>1, ForgottenInv, DownInv DEF DownTypes
<1>3. CASE Exchange(p, {}) /\ UNCHANGED med
  <2>1. \A q \in net' : PacketInv(q)
    BY <1>1, <1>3, NetInv
  <2>2. QED
    BY <1>1, <1>3, <2>1, MediatorStep DEF MediatorGotSyn
<1>4. CASE \E s \in CheckCookie(CookieOf(o)) : GotConnectionOpen(p, s)
  <2>1. PICK s \in CheckCookie(CookieOf(o)) : GotConnectionOpen(p, s)
    BY <1>4
  <2>2. s = o
    BY <2>1 DEF CheckCookie, CookieOf, HashCookie
  <2> HIDE DEF m, prx, o
  <2>3. \/ Found(m, p.at) /\ med' = m /\ Exchange(p, {prx})
        \/ ~Found(m, p.at) /\ SamePeer(m, o) /\ med' = m /\ Exchange(p, {})
        \/ /\ ~Found(m, p.at) /\ m.byCookie # 0 /\ ~SamePeer(m, o)
           /\ med' = GotOtherAddress(m, p)
           /\ Exchange(p, {prx} \cup SynRsts(med'.conns[m.byCookie]))
        \/ /\ ~Found(m, p.at) /\ m.byCookie = 0
           /\ \E i \in ConnIds : m.conns[i] = NoConn /\ med' = AddConnection(m, i, p, o)
           /\ Exchange(p, {prx})
    BY <2>1, <2>2 DEF GotConnectionOpen, m, prx
  <2>4. MedInv(med')
    <3>1. CASE med' = m
      BY <1>2, <3>1
    <3>2. CASE ~Found(m, p.at) /\ m.byCookie # 0 /\ ~SamePeer(m, o) /\ med' = GotOtherAddress(m, p)
      <4>1. m.byAddress[p.at] = 0 /\ m.conns[m.byCookie].side # Owner(p.at)
        BY <3>2 DEF Found, SamePeer, o
      <4>2. QED
        BY <1>1, <1>2, <3>2, <4>1, CompletedInv DEF o
    <3>3. ASSUME ~Found(m, p.at), m.byCookie = 0,
                 NEW i \in ConnIds, m.conns[i] = NoConn, med' = AddConnection(m, i, p, o)
          PROVE  MedInv(med')
      BY <1>1, <1>2, <3>3, AddedInv DEF Found, o
    <3>4. QED
      BY <2>3, <3>1, <3>2, <3>3
  <2>5. \A q \in net' : PacketInv(q)
    <3>1. CASE Exchange(p, {prx}) \/ Exchange(p, {})
      BY <1>1, <1>2, <3>1, NetInv
    <3>2. CASE m.byCookie # 0 /\ Exchange(p, {prx} \cup SynRsts(med'.conns[m.byCookie]))
      <4>1. ConnInv(med'.conns[m.byCookie])
        BY <1>2, <2>4, <3>2, MedFacts
      <4>2. \A q \in {prx} \cup SynRsts(med'.conns[m.byCookie]) : PacketInv(q)
        BY <1>2, <4>1, SynRstsInv
      <4>3. QED
        BY <1>1, <3>2, <4>2, NetInv
    <3>3. QED
      BY <2>3, <3>1, <3>2
  <2>6. QED
    BY <2>4, <2>5, MediatorStep DEF MediatorGotSyn
<1>5. QED
  BY <1>3, <1>4 DEF MediatorGotSyn

LEMMA PrxAckStep ==
  ASSUME MediatorInv, NEW p \in net, MediatorGotPrxAck(p)
  PROVE  MediatorInv'
<1>1. /\ PacketInv(p) /\ p.at \in Addresses
      /\ MedInv(med) /\ \A q \in net : PacketInv(q)
  BY DEF MediatorInv, PacketInv, Packets
<1>2. CASE Exchange(p, {}) /\ UNCHANGED med
  <2>1. \A q \in net' : PacketInv(q)
    BY <1>1, <1>2, NetInv
  <2>2. QED
    BY <1>1, <1>2, <2>1, MediatorStep DEF MediatorGotPrxAck
<1>3. CASE Found(med, p.at) /\ ~(Exchange(p, {}) /\ UNCHANGED med)
  <2> DEFINE i == med.byAddress[p.at]
             k == Index(med.conns[i], p.at)
             c == Answered(med.conns[i], k, p.at)
  <2>1. /\ i \in ConnIds /\ ConnInv(med.conns[i]) /\ k \in {1, 2} /\ med.conns[i].peers[k] = p.at
    BY <1>1, <1>3, FoundFacts DEF Conn
  <2>2. ConnInv(c) /\ c.peers = med.conns[i].peers
    BY <1>1, <2>1, AnsweredInv
  <2>3. med' = [med EXCEPT !.conns[i] = c] /\ Exchange(p, EndpointPairs(med'.conns[i]))
    BY <1>3 DEF MediatorGotPrxAck
  <2> HIDE DEF c, k
  <2>4. MedInv(med')
    BY <1>1, <2>1, <2>2, <2>3, SamePeersInv
  <2>5. \A q \in EndpointPairs(med'.conns[i]) : PacketInv(q)
    BY <2>1, <2>4, MedFacts, EndpointPairsInv
  <2>6. \A q \in net' : PacketInv(q)
    BY <1>1, <2>3, <2>5, NetInv
  <2>7. QED
    BY <2>4, <2>6, MediatorStep DEF MediatorGotPrxAck
<1>4. QED
  BY <1>2, <1>3 DEF MediatorGotPrxAck

\* The other packets: they are passed on or answered, and may end a connection.
LEMMA OtherPacketsStep ==
  ASSUME MediatorInv, NEW p \in net,
         \/ MediatorGotData(p) \/ MediatorGotRst(p)
         \/ MediatorGotSynRstAck(p) \/ MediatorGotPrxRst(p)
  PROVE  MediatorInv'
<1> DEFINE passed == IF Found(med, p.at) THEN Forward(Conn(med, p.at), p) ELSE {}
<1>1. /\ PacketInv(p) /\ p.at \in Addresses
      /\ MedInv(med) /\ \A q \in net : PacketInv(q)
  BY DEF MediatorInv, PacketInv, Packets
<1>2. p.type \in {"DATA", "RST", "SYN-RST-ACK"} => \A q \in passed : PacketInv(q)
  BY <1>1, FoundFacts, ForwardInv DEF DownTypes
<1>3. PacketInv(Down("SYN-RST-ACK", p.at)) /\ PacketInv(Down("PRX-RST-ACK", p.at))
  BY <1>1, DownInv DEF DownTypes
<1>4. MedInv(RemoveConnection(med, med.byAddress[p.at]))
  BY <1>1, RemovedInv, MedFacts
<1>5. MedInv(med')
  BY <1>1, <1>4 DEF MediatorGotData, MediatorGotRst, MediatorGotSynRstAck, MediatorGotPrxRst
<1>6. \E sent : Exchange(p, sent) /\ \A q \in sent : PacketInv(q)
  <2>1. CASE MediatorGotData(p)
    BY <1>2, <2>1 DEF MediatorGotData
  <2>2. CASE MediatorGotRst(p)
    <3>1. \A q \in AnswerRst(p) : PacketInv(q)
      BY <1>2, <1>3, <2>2 DEF MediatorGotRst, AnswerRst
    <3>2. QED
      BY <2>2, <3>1 DEF MediatorGotRst
  <2>3. CASE MediatorGotSynRstAck(p)
    BY <1>2, <2>3 DEF MediatorGotSynRstAck
  <2>4. CASE MediatorGotPrxRst(p)
    BY <1>3, <2>4 DEF MediatorGotPrxRst
  <2>5. QED
    BY <2>1, <2>2, <2>3, <2>4
<1>7. \A q \in net' : PacketInv(q)
  BY <1>1, <1>6, NetInv
<1>8. QED
  BY <1>5, <1>7, MediatorStep
     DEF MediatorGotData, MediatorGotRst, MediatorGotSynRstAck, MediatorGotPrxRst

\* The timers of the mediator.
LEMMA TimerStep ==
  ASSUME MediatorInv, NEW i \in ConnIds,
         RtoTimeout(i) \/ \E k \in {1, 2} : ConnectionTimeout(i, k)
  PROVE  MediatorInv'
<1>1. MedInv(med) /\ \A q \in net : PacketInv(q)
  BY DEF MediatorInv
<1>2. CASE RtoTimeout(i)
  <2>1. \A q \in SynRsts(med.conns[i]) : PacketInv(q)
    BY <1>1, MedFacts, SynRstsInv
  <2>2. \A q \in net' : PacketInv(q)
    BY <1>1, <1>2, <2>1, NetInv DEF RtoTimeout
  <2>3. QED
    BY <1>1, <1>2, <2>2, MediatorStep DEF RtoTimeout
<1>3. CASE \E k \in {1, 2} : ConnectionTimeout(i, k)
  <2>1. MedInv(med')
    BY <1>1, <1>3, RemovedInv DEF ConnectionTimeout
  <2>2. QED
    BY <1>1, <1>3, <2>1, MediatorStep DEF ConnectionTimeout
<1>4. QED
  BY <1>2, <1>3

-----------------------------------------------------------------------------
(* A peer *)

LEMMA NoPeerInv == ASSUME NEW s \in Sides PROVE PeerInv(s, NoPeer)
<1>1. NoPeer \in Peers
  BY DEF NoPeer, Peers, NoSn, Sns, Ends
<1>2. /\ NoPeer.phase = "closed" /\ NoPeer.local = Nil /\ NoPeer.other = NoSn
      /\ NoPeer.endpoints = {}
  BY DEF NoPeer
<1>3. QED
  BY <1>1, <1>2 DEF PeerInv, PeerOK

\* A packet for an address that a peer is bound to is for a session of that side.
LEMMA BoundFacts ==
  ASSUME NEW s \in Sides, NEW c, PeerInv(s, c), NEW a \in c.bound
  PROVE  c.phase # "closed" /\ a \in Addresses /\ Owner(a) = s /\ a # Nil
<1>1. NoPeer.bound = {}
  BY DEF NoPeer
<1>2. c.phase # "closed" /\ c.bound \in Bindings[s]
  BY <1>1 DEF PeerInv, PeerOK
<1>3. a \in UNION Bindings[s]
  BY <1>2
<1>4. QED
  BY <1>2, <1>3, Owners

\* What a peer resends.
LEMMA UnacknowledgedInv ==
  ASSUME NEW s \in Sides, NEW c, PeerInv(s, c)
  PROVE  \A p \in Unacknowledged(c) : PacketInv(p)
<1> SUFFICES ASSUME c.buffer # "nothing", NEW a \in From(c),
                    NEW sn, sn = IF c.buffer \in {"SYN", "PRX-ACK"} THEN c.sn ELSE NoSn
             PROVE  PacketInv([Up(c.buffer, a) EXCEPT !.sn = sn])
  BY DEF Unacknowledged
<1> DEFINE q == Up(c.buffer, a)
           p == [q EXCEPT !.sn = sn]
<1>1. /\ c.buffer \in {"SYN", "PRX-ACK", "RST", "PRX-RST"} /\ c.sn \in Sns
      /\ c.local \in c.bound \cup {Nil}
  BY DEF PeerInv, PeerOK, Peers
<1>2. NoPeer.buffer = "nothing"
  BY DEF NoPeer
<1>3. c.phase # "closed" /\ c.sn[1] = s
  BY <1>2 DEF PeerInv, PeerOK
<1>4. a \in c.bound
  BY <1>1 DEF From
<1>5. a \in Addresses /\ Owner(a) = s
  BY <1>4, BoundFacts
<1>6. q \in Packets
  BY <1>1, <1>5, PlainPacket DEF Up, UpTypes
<1>7. q.type = c.buffer /\ q.at = a /\ q.pair = {}
  BY Fields DEF Up
<1>8. sn \in Sns /\ (c.buffer = "SYN" => sn[1] = s)
  BY <1>1, <1>3 DEF NoSn, Sns
<1> HIDE DEF q
<1>9. p \in Packets /\ p.type = c.buffer /\ p.at = a /\ p.pair = {} /\ p.sn = sn
  BY <1>6, <1>7, <1>8 DEF Packets
<1> HIDE DEF p
<1>10. PacketInv(p)
  BY <1>1, <1>5, <1>8, <1>9 DEF PacketInv
<1>11. QED
  BY <1>10 DEF p, q

\* Peer s becomes c, and the mediator goes on as it is.
LEMMA PeerStep ==
  ASSUME MediatorInv, NEW s \in Sides, NEW c, PeerInv(s, c),
         Becomes(s, c) \/ UNCHANGED peer, \A q \in net' : PacketInv(q),
         UNCHANGED med, stamp' \in 1 .. MaxStamp, started' \in 0 .. MaxStarts
  PROVE  MediatorInv'
<1>1. peer' \in [Sides -> Peers] /\ \A t \in Sides : PeerInv(t, peer'[t])
  BY DEF MediatorInv, PeerInv, Becomes
<1>2. QED
  BY <1>1 DEF MediatorInv

LEMMA StartStep ==
  ASSUME MediatorInv, NEW s \in Sides, NEW b \in Bindings[s], Start(s, b)
  PROVE  MediatorInv'
<1> DEFINE c == [NoPeer EXCEPT !.phase = "opening", !.sn = <<s, started'>>,
                               !.bound = b, !.buffer = "SYN"]
<1>1. started' = started + 1 /\ started' \in 0 .. MaxStarts /\ started' \in Nat
  BY MediatorAssumption DEF Start, MediatorInv
<1>2. b \subseteq Addresses
  BY Owners
<1>3. NoPeer \in Peers /\ <<s, started'>> \in Sns /\ <<s, started'>>[1] = s
  BY <1>1, NoPeerInv DEF PeerInv, Sns
<1>4. /\ NoPeer.local = Nil /\ NoPeer.other = NoSn /\ NoPeer.endpoints = {}
      /\ NoPeer.phase = "closed"
  BY DEF NoPeer
<1>5. /\ c \in Peers /\ c.phase = "opening" /\ c.sn = <<s, started'>> /\ c.bound = b
      /\ c.buffer = "SYN" /\ c.local = Nil /\ c.other = NoSn /\ c.endpoints = {}
  BY <1>2, <1>3, <1>4 DEF Peers
<1>6. peer' = [peer EXCEPT ![s] = c] /\ peer'[s] = c
  BY DEF Start, MediatorInv
<1> HIDE DEF c
<1>7. PeerInv(s, c)
  BY <1>3, <1>4, <1>5 DEF PeerInv, PeerOK
<1>8. \A q \in Unacknowledged(c) : PacketInv(q)
  BY <1>7, UnacknowledgedInv
<1>9. Send(Unacknowledged(c))
  BY <1>6 DEF Start
<1>10. \A q \in net' : PacketInv(q)
  BY <1>8, <1>9, NetInv DEF MediatorInv
<1>11. Becomes(s, c) /\ UNCHANGED med /\ stamp' \in 1 .. MaxStamp
  BY <1>6 DEF Start, Becomes, MediatorInv
<1>12. QED
  BY <1>1, <1>7, <1>10, <1>11, PeerStep

\* A session goes on as c and sends what it has not had acknowledged.
LEMMA ResendStep ==
  ASSUME MediatorInv, NEW s \in Sides, NEW c, PeerInv(s, c),
         \/ Becomes(s, c)
         \/ UNCHANGED peer /\ c = peer[s],
         Send(Unacknowledged(c)) \/ \E p \in net : Exchange(p, Unacknowledged(c)),
         UNCHANGED <<med, stamp, started>>
  PROVE  MediatorInv'
<1>1. \A q \in Unacknowledged(c) : PacketInv(q)
  BY UnacknowledgedInv
<1>2. \A q \in net' : PacketInv(q)
  BY <1>1, NetInv DEF MediatorInv
<1>3. stamp' \in 1 .. MaxStamp /\ started' \in 0 .. MaxStarts
  BY DEF MediatorInv
<1>4. QED
  BY <1>2, <1>3, PeerStep

\* What peer s does of its own accord.
LEMMA OwnStep ==
  ASSUME MediatorInv, NEW s \in Sides,
         GiveUp(s) \/ Close(s) \/ PeerRtoTimeout(s) \/ SendData(s) \/ Punch(s)
  PROVE  MediatorInv'
<1>1. /\ PeerInv(s, peer[s]) /\ peer[s] \in Peers /\ \A q \in net : PacketInv(q)
      /\ stamp \in 1 .. MaxStamp /\ started \in 0 .. MaxStarts
  BY DEF MediatorInv, PeerInv
<1>2. CASE GiveUp(s)
  BY <1>1, <1>2, NoPeerInv, PeerStep DEF GiveUp, Becomes
<1>3. CASE Close(s)
  <2> DEFINE c == [peer[s] EXCEPT !.phase = "closing", !.buffer = "RST"]
  <2>1. /\ c \in Peers /\ c.phase = "closing" /\ c.buffer = "RST" /\ c.sn = peer[s].sn
        /\ c.bound = peer[s].bound /\ c.local = peer[s].local /\ c.other = peer[s].other
        /\ c.endpoints = peer[s].endpoints
    BY <1>1 DEF Peers
  <2>2. peer' = [peer EXCEPT ![s] = c] /\ peer'[s] = c
    BY <1>3 DEF Close, MediatorInv
  <2> HIDE DEF c
  <2>3. NoPeer.phase = "closed" /\ peer[s].phase # "closed"
    BY <1>3 DEF NoPeer, Close
  <2>4. PeerInv(s, c)
    BY <1>1, <2>1, <2>3 DEF PeerInv, PeerOK
  <2>5. QED
    BY <1>3, <2>2, <2>4, ResendStep DEF Close, Becomes
<1>4. CASE PeerRtoTimeout(s)
  BY <1>1, <1>4, ResendStep DEF PeerRtoTimeout
<1>5. CASE SendData(s)
  <2>1. peer[s].local \in peer[s].bound
    BY <1>1, <1>5 DEF SendData, PeerInv, PeerOK
  <2>2. PacketInv(Up("DATA", peer[s].local))
    BY <1>1, <2>1, BoundFacts, UpInv DEF UpTypes
  <2>3. \A q \in net' : PacketInv(q)
    BY <1>1, <1>5, <2>2, NetInv DEF SendData
  <2>4. QED
    BY <1>1, <1>5, <2>3, PeerStep DEF SendData
<1>6. CASE Punch(s)
  <2> DEFINE c == [peer[s] EXCEPT !.phase = "direct", !.buffer = "PRX-RST"]
  <2>1. /\ c \in Peers /\ c.phase = "direct" /\ c.buffer = "PRX-RST" /\ c.sn = peer[s].sn
        /\ c.bound = peer[s].bound /\ c.local = peer[s].local /\ c.other = peer[s].other
        /\ c.endpoints = peer[s].endpoints
    BY <1>1 DEF Peers
  <2>2. peer' = [peer EXCEPT ![s] = c] /\ peer'[s] = c
    BY <1>6 DEF Punch, MediatorInv
  <2> HIDE DEF c
  <2>3. NoPeer.phase = "closed" /\ peer[s].phase # "closed"
    BY <1>6 DEF NoPeer, Punch
  <2>4. PeerInv(s, c)
    BY <1>1, <2>1, <2>3 DEF PeerInv, PeerOK
  <2>5. QED
    BY <1>6, <2>2, <2>4, ResendStep DEF Punch, Becomes
<1>7. QED
  BY <1>2, <1>3, <1>4, <1>5, <1>6

\* The handshake message is released, whichever it is.
LEMMA ReleaseInv ==
  ASSUME NEW s \in Sides, NEW c, PeerInv(s, c), c.phase # "closed"
  PROVE  LET d == Release(c) IN
         PeerInv(s, d) /\ d.phase = c.phase /\ d.endpoints = c.endpoints
<1> DEFINE d == [c EXCEPT !.buffer = "nothing"]
<1>1. CASE c.buffer \notin {"SYN", "PRX-ACK"}
  BY <1>1 DEF Release
<1>2. CASE c.buffer \in {"SYN", "PRX-ACK"}
  <2>1. c \in Peers
    BY DEF PeerInv
  <2>2. /\ d \in Peers /\ d.phase = c.phase /\ d.buffer = "nothing" /\ d.sn = c.sn
        /\ d.bound = c.bound /\ d.local = c.local /\ d.other = c.other
        /\ d.endpoints = c.endpoints
    BY <2>1 DEF Peers
  <2>3. Release(c) = d /\ NoPeer.phase = "closed"
    BY <1>2 DEF Release, NoPeer
  <2> HIDE DEF d
  <2>4. PeerInv(s, d)
    BY <1>2, <2>2, <2>3 DEF PeerInv, PeerOK
  <2>5. QED
    BY <2>2, <2>3, <2>4
<1>3. QED
  BY <1>1, <1>2

\* A peer takes a packet, becomes c, and may answer.
LEMMA AnswerStep ==
  ASSUME MediatorInv, NEW s \in Sides, NEW c, PeerInv(s, c),
         Becomes(s, c) \/ UNCHANGED peer, NEW p \in net, NEW sent, Exchange(p, sent),
         \A q \in sent : PacketInv(q), UNCHANGED <<med, stamp, started>>
  PROVE  MediatorInv'
<1>1. \A q \in net' : PacketInv(q)
  BY NetInv DEF MediatorInv
<1>2. stamp' \in 1 .. MaxStamp /\ started' \in 0 .. MaxStarts
  BY DEF MediatorInv
<1>3. QED
  BY <1>1, <1>2, PeerStep

\* The other peer's number and endpoints come only from packets of the mediator.
LEMMA PeerReceivesStep ==
  ASSUME MediatorInv, NEW p \in net, PeerReceives(p)
  PROVE  MediatorInv'
<1>1. UNCHANGED <<med, stamp, started>> /\ PacketInv(p)
  BY DEF PeerReceives, MediatorInv
<1>2. \A s \in Sides : PeerInv(s, peer[s]) /\ peer[s] \in Peers
  BY DEF MediatorInv, PeerInv
<1>3. ASSUME NEW s \in Sides, Arrives(p, s)
      PROVE  /\ peer[s].phase # "closed" /\ p.at \in Addresses /\ Owner(p.at) = s /\ p.at # Nil
             /\ p.at \in peer[s].bound
  BY <1>2, <1>3, BoundFacts DEF Arrives
<1>4. ASSUME NEW s \in Sides, PeerGotPrx(p, s)
      PROVE  MediatorInv'
  <2>1. PeerInv(s, Release(peer[s]))
    BY <1>2, <1>3, <1>4, ReleaseInv DEF PeerGotPrx, Heard
  <2>2. QED
    BY <1>1, <1>4, <2>1, AnswerStep DEF PeerGotPrx
<1>5. ASSUME NEW s \in Sides, PeerGotSynRst(p, s)
      PROVE  MediatorInv'
  <2>1. CASE peer[s].phase = "opening"
    <3> DEFINE c == [peer[s] EXCEPT !.phase = "open", !.local = p.at, !.other = p.sn,
                                    !.buffer = "PRX-ACK"]
    <3>1. p.at \in peer[s].bound /\ p.at \in Addresses /\ Owner(p.at) = s /\ p.at # Nil
      BY <1>3, <1>5 DEF PeerGotSynRst, Heard
    <3>2. p.sn \in Sns /\ p.sn[1] = Other(s) /\ p.sn # NoSn
      BY <1>1, <1>5, <3>1, Owners DEF PeerGotSynRst, PacketInv, Packets, NoSn
    <3>3. /\ c \in Peers /\ c.phase = "open" /\ c.buffer = "PRX-ACK" /\ c.sn = peer[s].sn
          /\ c.bound = peer[s].bound /\ c.local = p.at /\ c.other = p.sn
          /\ c.endpoints = peer[s].endpoints
      BY <1>2, <3>1, <3>2 DEF Peers, Ends
    <3>4. peer' = [peer EXCEPT ![s] = c] /\ Exchange(p, Unacknowledged(peer'[s]))
      BY <1>5, <2>1 DEF PeerGotSynRst, Becomes
    <3> HIDE DEF c
    <3>5. peer'[s] = c
      BY <3>4 DEF MediatorInv
    <3>6. PeerInv(s, c)
      <4>1. NoPeer.phase = "closed"
        BY DEF NoPeer
      <4>2. QED
        BY <1>2, <2>1, <3>1, <3>2, <3>3, <4>1 DEF PeerInv, PeerOK
    <3>7. QED
      BY <1>1, <3>4, <3>5, <3>6, ResendStep DEF Becomes
  <2>2. CASE peer[s].phase # "opening"
    BY <1>1, <1>2, <1>5, <2>2, AnswerStep DEF PeerGotSynRst
  <2>3. QED
    BY <2>1, <2>2
<1>6. ASSUME NEW s \in Sides, PeerGotPair(p, s)
      PROVE  MediatorInv'
  <2> DEFINE d == Release(peer[s])
             c == [d EXCEPT !.endpoints = IF @ = {} THEN p.pair ELSE @]
  <2>1. Owner(p.at) = s /\ PeerInv(s, d) /\ d.phase # "closed"
    BY <1>2, <1>3, <1>6, ReleaseInv DEF PeerGotPair, Heard
  <2>2. p.pair \subseteq Endpoints /\ \A e \in p.pair : Introduces(e, s)
    BY <1>1, <2>1 DEF PacketInv, Packets
  <2> HIDE DEF d
  <2>3. /\ c \in Peers /\ c.phase = d.phase /\ c.buffer = d.buffer /\ c.sn = d.sn
        /\ c.bound = d.bound /\ c.local = d.local /\ c.other = d.other
        /\ c.endpoints \in {p.pair, d.endpoints}
    BY <2>1, <2>2 DEF Peers, PeerInv
  <2>4. Becomes(s, c)
    BY <1>6 DEF PeerGotPair, d
  <2> HIDE DEF c
  <2>5. PeerInv(s, c)
    <3>1. NoPeer.phase = "closed"
      BY DEF NoPeer
    <3>2. QED
      BY <2>1, <2>2, <2>3, <3>1 DEF PeerInv, PeerOK
  <2>6. QED
    BY <1>1, <1>6, <2>4, <2>5, AnswerStep DEF PeerGotPair
<1>7. ASSUME NEW s \in Sides, PeerGotData(p, s)
      PROVE  MediatorInv'
  <2> DEFINE c == [peer[s] EXCEPT !.local = p.at]
  <2>1. p.at \in peer[s].bound /\ p.at \in Addresses /\ p.at # Nil /\ peer[s].phase # "closed"
    BY <1>3, <1>7 DEF PeerGotData, Heard
  <2>2. /\ c \in Peers /\ c.phase = peer[s].phase /\ c.buffer = peer[s].buffer
        /\ c.sn = peer[s].sn /\ c.bound = peer[s].bound /\ c.local = p.at
        /\ c.other = peer[s].other /\ c.endpoints = peer[s].endpoints
    BY <1>2, <2>1 DEF Peers, Ends
  <2>3. Becomes(s, c)
    BY <1>7 DEF PeerGotData
  <2> HIDE DEF c
  <2>4. PeerInv(s, c)
    <3>1. NoPeer.phase = "closed"
      BY DEF NoPeer
    <3>2. QED
      BY <1>2, <2>1, <2>2, <3>1 DEF PeerInv, PeerOK
  <2>5. QED
    BY <1>1, <1>7, <2>3, <2>4, AnswerStep DEF PeerGotData
<1>8. ASSUME NEW s \in Sides, PeerGotRst(p, s) \/ PeerGotSynRstAck(p, s)
      PROVE  MediatorInv'
  <2>1. PacketInv(Up("SYN-RST-ACK", p.at))
    BY <1>3, <1>8, UpInv DEF PeerGotRst, PeerGotSynRstAck, Heard, UpTypes
  <2>2. QED
    BY <1>1, <1>8, <2>1, NoPeerInv, AnswerStep DEF PeerGotRst, PeerGotSynRstAck
<1>9. ASSUME NEW s \in Sides, PeerGotPrxRstAck(p, s)
      PROVE  MediatorInv'
  <2> DEFINE c == [peer[s] EXCEPT !.endpoints = {},
                                  !.buffer = IF @ = "PRX-RST" THEN "nothing" ELSE @]
  <2>1. /\ c \in Peers /\ c.phase = peer[s].phase /\ c.endpoints = {}
        /\ c.buffer = IF peer[s].buffer = "PRX-RST" THEN "nothing" ELSE peer[s].buffer
        /\ c.sn = peer[s].sn /\ c.bound = peer[s].bound /\ c.local = peer[s].local
        /\ c.other = peer[s].other
    BY <1>2 DEF Peers
  <2>2. Becomes(s, c)
    BY <1>9 DEF PeerGotPrxRstAck
  <2> HIDE DEF c
  <2>3. PeerInv(s, c)
    <3>1. NoPeer.phase = "closed" /\ peer[s].phase # "closed"
      BY <1>3, <1>9 DEF NoPeer, PeerGotPrxRstAck
    <3>2. QED
      BY <1>2, <2>1, <3>1 DEF PeerInv, PeerOK
  <2>4. QED
    BY <1>1, <1>9, <2>2, <2>3, AnswerStep DEF PeerGotPrxRstAck
<1>10. ASSUME NEW s \in Sides, PeerGotUnexpected(p, s)
       PROVE  MediatorInv'
  <2>1. PacketInv(Up("SYN-RST-ACK", p.at))
    BY <1>3, <1>10, UpInv DEF PeerGotUnexpected, UpTypes
  <2>2. QED
    BY <1>1, <1>2, <1>10, <2>1, AnswerStep DEF PeerGotUnexpected
<1>11. ASSUME PeerMisses(p)
       PROVE  MediatorInv'
  <2>1. "plain" \in Sides
    BY DEF Sides
  <2>2. QED
    BY <1>1, <1>2, <1>11, <2>1, AnswerStep DEF PeerMisses
<1>12. QED
  BY <1>4, <1>5, <1>6, <1>7, <1>8, <1>9, <1>10, <1>11 DEF PeerReceives

-----------------------------------------------------------------------------
(* The theorems *)

LEMMA InitMediatorInv == Init => MediatorInv
<1> SUFFICES ASSUME Init
             PROVE  MediatorInv
  OBVIOUS
<1>1. /\ med.conns = [i \in ConnIds |-> NoConn] /\ med.byAddress = [a \in Addresses |-> 0]
      /\ med.byCookie = 0
      /\ med = [conns |-> med.conns, byAddress |-> med.byAddress, byCookie |-> med.byCookie]
  BY DEF Init
<1>2. NoConn \in Conns
  BY NoConnInv DEF ConnInv
<1>3. MedInv(med)
  BY <1>1, <1>2, NoConnInv DEF MedInv, Meds, MapsInv
<1>4. peer \in [Sides -> Peers] /\ \A s \in Sides : PeerInv(s, peer[s])
  BY NoPeerInv DEF Init, PeerInv
<1>5. stamp \in 1 .. MaxStamp /\ started \in 0 .. MaxStarts /\ net = {}
  BY MediatorAssumption DEF Init
<1>6. QED
  BY <1>3, <1>4, <1>5 DEF MediatorInv

LEMMA NextMediatorInv == MediatorInv /\ [Next]_vars => MediatorInv'
<1> SUFFICES ASSUME MediatorInv, [Next]_vars
             PROVE  MediatorInv'
  OBVIOUS
<1>1. CASE \E s \in Sides : \E b \in Bindings[s] : Start(s, b)
  BY <1>1, StartStep
<1>2. CASE \E s \in Sides : GiveUp(s) \/ Close(s) \/ PeerRtoTimeout(s) \/ SendData(s) \/ Punch(s)
  BY <1>2, OwnStep
<1>3. CASE \E i \in ConnIds : RtoTimeout(i) \/ \E k \in {1, 2} : ConnectionTimeout(i, k)
  BY <1>3, TimerStep
<1>4. CASE Tick
  <2>1. stamp' \in 1 .. MaxStamp
    BY <1>4, MediatorAssumption DEF Tick, MediatorInv
  <2>2. QED
    BY <1>4, <2>1 DEF Tick, MediatorInv
<1>5. CASE \E p \in net : Lose(p)
  BY <1>5 DEF Lose, MediatorInv
<1>6. CASE \E p \in net : MediatorReceives(p)
  BY <1>6, SynStep, PrxAckStep, OtherPacketsStep DEF MediatorReceives
<1>7. CASE \E p \in net : PeerReceives(p)
  BY <1>7, PeerReceivesStep
<1>8. CASE UNCHANGED vars
  BY <1>8 DEF vars, MediatorInv
<1>9. QED
  BY <1>1, <1>2, <1>3, <1>4, <1>5, <1>6, <1>7, <1>8 DEF Next

\* The inductive invariant holds in every state.
THEOREM MediatorInvariant == Spec => []MediatorInv
BY InitMediatorInv, NextMediatorInv, PTL DEF Spec

\* The maps of the mediator agree, nothing leaks, and a connection that waits under the
\* cookie is there and lacks its second peer, for any number of interfaces and sessions
\* and whatever packets are lost, doubled or late.  (EmiP2PSock, EmiP2PConn)
THEOREM MapsAgree == Spec => []MapsConsistent
<1>1. MediatorInv => MapsConsistent
  <2> SUFFICES ASSUME MediatorInv
               PROVE  MapsConsistent
    OBVIOUS
  <2>1. TypeOK
    <3>1. \A s \in Sides : PeerInv(s, peer[s])
      BY DEF MediatorInv
    <3>2. \A p \in net : p.at \in Addresses
      BY DEF MediatorInv, PacketInv, Packets
    <3>3. stamp \in 1 .. MaxStamp /\ started \in 0 .. MaxStarts
      BY DEF MediatorInv
    <3>4. QED
      BY <3>1, <3>2, <3>3 DEF PeerInv, TypeOK
  <2>2. MapsInv(med)
    BY DEF MediatorInv, MedInv
  <2>3. QED
    BY <2>1, <2>2 DEF MapsInv, MapsConsistent, Found, Conn
<1>2. QED
  BY <1>1, MediatorInvariant, PTL

\* Only the two peers of a cookie pair are brought together, by addresses, numbers and
\* endpoints, even if connections are forgotten while SYNs and answers of other
\* sessions are on their way.  (EmiP2PConn::sendSynRst, sendEndpointPair)
THEOREM OnlyTheTwo == Spec => []IntroducesTheOther
<1>1. MediatorInv => IntroducesTheOther
  <2> SUFFICES ASSUME MediatorInv
               PROVE  IntroducesTheOther
    OBVIOUS
  <2>1. \A i \in ConnIds : ConnInv(med.conns[i])
    BY DEF MediatorInv, MedInv
  <2>2. \A s \in Sides : PeerInv(s, peer[s])
    BY DEF MediatorInv
  <2>3. QED
    BY <2>1, <2>2 DEF IntroducesTheOther, ConnInv, PeerInv, Introduces
<1>2. QED
  BY <1>1, MediatorInvariant, PTL
=============================================================================

--------------------------- MODULE Connection_proofs ---------------------------
(***************************************************************************)
(* Proofs about connections, for every value of the bounds: the events of  *)
(* each application fit together, an RST leaves only after all data has    *)
(* arrived, and as long as neither end forgot a connection, both mean the  *)
(* same one and are told the truth about the end of it.                    *)
(***************************************************************************)
EXTENDS Connection, SequenceTheorems, TLAPS

-----------------------------------------------------------------------------
(* The inductive invariants *)

Kinds == {"SYN", "SYN-RST", "DATA", "ACK", "RST", "SYN-RST-ACK"}

Conn == [phase : {"closed", "opening", "open", "closing"}, sn : Nat, other : Nat,
         buffer : SUBSET {"SYN", "DATA", "RST"},
         doomed : BOOLEAN, hasSent : BOOLEAN, byApp : BOOLEAN]

\* What goes with the phase of a connection.
ConnInv(c) ==
  /\ c \in Conn
  /\ "SYN" \in c.buffer <=> c.phase = "opening"
  /\ "RST" \in c.buffer => c.buffer = {"RST"} /\ c.phase = "closing"
  /\ c.phase = "closing" => c.buffer # {}
  /\ c.phase = "closed" => c = NoConn
  /\ "DATA" \in c.buffer => c.hasSent

\* SYN and SYN-RST have one direction, and every message but the answer to an RST names
\* a connection.
MessageInv(m) ==
  /\ m.kind \in Kinds /\ m.to \in Ends /\ m.sn \in 0 .. lastSn
  /\ m.kind = "SYN" => m.to = Server
  /\ m.kind = "SYN-RST" => m.to = Client
  /\ m.kind # "SYN-RST-ACK" => m.sn # 0

\* Both ends have connections with numbers of their own, all generated before.
TypeInv ==
  /\ conn \in [Ends -> Conn] /\ lastSn \in Nat
  /\ \A e \in Ends : /\ ConnInv(conn[e])
                     /\ conn[e].sn \in 0 .. lastSn
                     /\ conn[e].phase # "closed" => conn[e].sn # 0
  /\ conn[Client].phase # "closed" => conn[Client].sn # conn[Server].sn
  /\ conn[Server].phase # "opening"
  /\ \A m \in net : MessageInv(m)
  /\ disturbed \in BOOLEAN /\ attempts \in Nat

\* EventsWellFormed, of one end.
LogOf(c, l) ==
  /\ c.phase = "opening" => l = <<>>
  /\ c.phase = "open"    => l = <<"opened">>
  /\ c.phase = "closing" => l \in {<<"opened">>, <<"failed">>}
  /\ c.phase = "closed"  => \/ l = <<>>
                            \/ \E k \in {"opened", "failed"}, r \in Reasons : l = <<k, r>>
LogInv == log = [e \in Ends |-> log[e]] /\ \A e \in Ends : LogOf(conn[e], log[e])

\* What is in the network of a connection tells how far it is: after its data or an
\* acknowledgement it has sent, after its RST it is closing and sends nothing new.
DataMessage(m) ==
  /\ m.kind \in {"ACK", "RST"} => m.sn \notin missing
  /\ \A e \in Ends :
       conn[e].phase # "closed" /\ m.sn = conn[e].sn =>
         /\ m.kind \in {"DATA", "ACK"} => conn[e].hasSent
         /\ m.kind = "RST" => conn[e].buffer = {"RST"}

\* Data that is missing is still in the sender buffer of its connection, if that exists.
DataInv ==
  /\ missing \subseteq 1 .. lastSn
  /\ \A m \in net : DataMessage(m)
  /\ \A e \in Ends : conn[e].sn \in missing => "DATA" \in conn[e].buffer

\* What is in the network as long as neither end forgot a connection: there is one
\* client connection, number 1, and until it is closed no packet could end the server's
\* connection, or be taken for the answer of another one.
UndisturbedMessage(m) ==
  LET c == conn[Client]
      s == conn[Server]
  IN
  /\ m.kind = "SYN" => m.sn = 1
  /\ m.kind = "RST" /\ m.to = Server => m.sn = 1
  /\ c.phase # "closed" /\ m.kind = "SYN-RST-ACK" => m.to = Client
  /\ c.phase = "opening" /\ m.to = Server => m.kind = "SYN"
  /\ c.phase \in {"opening", "open"} =>
       /\ m.kind # "SYN-RST-ACK"
       /\ m.kind = "SYN-RST" => s.phase # "closed" /\ m.sn = s.sn
       /\ m.kind = "RST" => m.to = Client /\ s.phase = "closing" /\ m.sn = s.sn

\* What the ends know of one another meanwhile.
UndisturbedConns ==
  LET c == conn[Client]
      s == conn[Server]
  IN
  /\ attempts <= 1 /\ ~c.doomed /\ ~s.doomed
  /\ c.phase # "closed" => c.sn = 1
  /\ s.phase # "closed" => s.other = 1
  /\ c.phase = "opening" => ~c.hasSent /\ c.other = 0
  /\ c.phase = "open" => s.phase # "closed" /\ c.other = s.sn

\* Before the client connects nothing happens.
Undisturbed ==
  /\ attempts = 0 => /\ net = {} /\ lastSn = 0
                     /\ \A e \in Ends : conn[e].phase = "closed"
  /\ ~disturbed => UndisturbedConns /\ \A m \in net : UndisturbedMessage(m)

ConnectionInv == TypeInv /\ LogInv /\ DataInv /\ Undisturbed

-----------------------------------------------------------------------------
(* Lemmas about the operators of the model *)

LEMMA Peers ==
  ASSUME NEW e \in Ends
  PROVE  /\ Peer(e) \in Ends /\ Peer(e) # e /\ Peer(Peer(e)) = e
         /\ Ends = {e, Peer(e)} /\ Client # Server
         /\ e = Server <=> Peer(e) = Client
  BY DEF Peer, Ends, Client, Server

\* The network may refuse new messages but makes up none.
LEMMA WithAdds ==
  ASSUME NEW messages, NEW new
  PROVE  With(messages, new) \subseteq messages \cup new
  BY DEF With

LEMMA ExchangeAdds ==
  ASSUME NEW m, NEW new, Exchange(m, new)
  PROVE  m \in net /\ Hears(m.to) /\ net' \subseteq net \cup new
<1>1. /\ With(net \ {m}, new) \subseteq (net \ {m}) \cup new
      /\ With(net, new) \subseteq net \cup new
  BY WithAdds
<1>2. QED
  BY <1>1 DEF Exchange

LEMMA MessageFields ==
  ASSUME NEW kind, NEW to, NEW sn
  PROVE  /\ Message(kind, to, sn).kind = kind /\ Message(kind, to, sn).to = to
         /\ Message(kind, to, sn).sn = sn
         /\ SynRstAck(to).kind = "SYN-RST-ACK" /\ SynRstAck(to).to = to /\ SynRstAck(to).sn = 0
  BY DEF Message, SynRstAck

\* What is sent again is what the connection has in its buffer.
LEMMA UnacknowledgedIs ==
  ASSUME NEW e, NEW c, NEW m \in Unacknowledged(e, c)
  PROVE  m.kind \in c.buffer /\ m.to = Peer(e) /\ m.sn = c.sn
  BY MessageFields DEF Unacknowledged

\* An acknowledgement leaves the connection as it is but for its buffer, which keeps
\* the rest, or gets the RST when there is none.
LEMMA ReleaseIs ==
  ASSUME NEW c \in Conn, NEW kind \in {"SYN", "DATA"}
  PROVE  LET d == Release(c, kind) IN
         /\ d \in Conn /\ d.phase = c.phase /\ d.sn = c.sn /\ d.other = c.other
         /\ d.doomed = c.doomed /\ d.hasSent = c.hasSent /\ d.byApp = c.byApp
         /\ c.phase = "closing" /\ c.buffer \subseteq {kind} => d.buffer = {"RST"}
         /\ ~(c.phase = "closing" /\ c.buffer \subseteq {kind}) => d.buffer = c.buffer \ {kind}
  BY DEF Release, Conn

LEMMA NewConnIs ==
  ASSUME NEW p \in {"opening", "open"}, NEW sn \in Nat, NEW other \in Nat, NEW buffer \in SUBSET {"SYN"}
  PROVE  LET d == NewConn(p, sn, other, buffer) IN
         /\ d \in Conn /\ d.phase = p /\ d.sn = sn /\ d.other = other /\ d.buffer = buffer
         /\ ~d.doomed /\ ~d.hasSent /\ ~d.byApp
  BY DEF NewConn, NoConn, Conn

LEMMA NoConnIs ==
  /\ NoConn \in Conn /\ NoConn.phase = "closed" /\ NoConn.sn = 0 /\ NoConn.other = 0
  /\ NoConn.buffer = {} /\ ~NoConn.doomed /\ ~NoConn.hasSent
  /\ ConnInv(NoConn)
  BY DEF NoConn, Conn, ConnInv

-----------------------------------------------------------------------------
(* What a step does *)

\* The connection of end e becomes c, and these messages enter the network.
Turns(e, c, new) ==
  /\ ConnInv(c) /\ conn' = [conn EXCEPT ![e] = c]
  /\ net' \subseteq net \cup new
  /\ e = Server => c.phase # "opening"

\* It goes on with the same connection, which has sent as much and is as far as these say.
Keeps(e, c) == c.sn = conn[e].sn /\ (c.phase = "closed" <=> conn[e].phase = "closed")

\* No number is generated, and nobody sends or gets data or forgets anything.
Quiet == UNCHANGED <<lastSn, missing, disturbed, attempts>>

LEMMA ConnectTurns ==
  ASSUME TypeInv, Connect
  PROVE  LET c == NewConn("opening", lastSn', 0, {"SYN"}) IN
         /\ Turns(Client, c, {Message("SYN", Server, lastSn')})
         /\ conn[Client].phase = "closed" /\ lastSn' = lastSn + 1
         /\ attempts' = attempts + 1 /\ disturbed' = (disturbed \/ attempts > 0)
         /\ log' = [log EXCEPT ![Client] = <<>>] /\ UNCHANGED missing
<1> DEFINE c == NewConn("opening", lastSn', 0, {"SYN"})
<1>1. lastSn' = lastSn + 1 /\ lastSn' \in Nat
  BY DEF Connect, TypeInv
<1>2. /\ conn' = [conn EXCEPT ![Client] = c]
      /\ conn[Client].phase = "closed"
      /\ net' = With(net, Unacknowledged(Client, conn'[Client]))
      /\ attempts' = attempts + 1 /\ disturbed' = (disturbed \/ attempts > 0)
      /\ log' = [log EXCEPT ![Client] = <<>>] /\ UNCHANGED missing
  BY DEF Connect
<1>3. c \in Conn /\ c.buffer = {"SYN"} /\ c.phase = "opening" /\ c.sn = lastSn'
  BY <1>1, NewConnIs
<1>4. ConnInv(c)
  BY <1>3 DEF ConnInv
<1>5. conn'[Client] = c
  BY <1>2 DEF TypeInv, Ends
<1>6. Unacknowledged(Client, c) = {Message("SYN", Server, lastSn')}
  BY <1>3 DEF Unacknowledged, Peer
<1>7. net' \subseteq net \cup {Message("SYN", Server, lastSn')}
  BY <1>2, <1>5, <1>6, WithAdds
<1>8. QED
  BY <1>1, <1>2, <1>4, <1>7 DEF Turns, Client, Server

LEMMA SendTurns ==
  ASSUME TypeInv, NEW e \in Ends, Send(e)
  PROVE  LET c == [conn[e] EXCEPT !.buffer = @ \cup {"DATA"}, !.hasSent = TRUE] IN
         /\ Turns(e, c, {Message("DATA", Peer(e), conn[e].sn)}) /\ Keeps(e, c)
         /\ c.phase = conn[e].phase /\ c.other = conn[e].other /\ c.doomed = conn[e].doomed
         /\ c.buffer = conn[e].buffer \cup {"DATA"} /\ c.hasSent
         /\ conn[e].phase \in {"opening", "open"} /\ ~conn[e].hasSent
         /\ missing' = missing \cup {conn[e].sn}
         /\ disturbed' = (disturbed \/ conn[e].phase = "opening")
         /\ UNCHANGED <<log, lastSn, attempts>>
<1> DEFINE c == [conn[e] EXCEPT !.buffer = @ \cup {"DATA"}, !.hasSent = TRUE]
<1>1. conn[e] \in Conn /\ ConnInv(conn[e]) /\ (e = Server => conn[e].phase # "opening")
  BY DEF TypeInv
<1>2. /\ conn' = [conn EXCEPT ![e].buffer = @ \cup {"DATA"}, ![e].hasSent = TRUE]
      /\ conn[e].phase \in {"opening", "open"} /\ ~conn[e].hasSent
      /\ net' = With(net, {Message("DATA", Peer(e), conn[e].sn)})
      /\ missing' = missing \cup {conn[e].sn}
      /\ disturbed' = (disturbed \/ conn[e].phase = "opening")
      /\ UNCHANGED <<log, lastSn, attempts>>
  BY DEF Send
<1>3. conn' = [conn EXCEPT ![e] = c]
  BY <1>2 DEF TypeInv
<1>4. c \in Conn /\ c.phase = conn[e].phase /\ c.buffer = conn[e].buffer \cup {"DATA"}
      /\ c.hasSent /\ c.sn = conn[e].sn /\ c.other = conn[e].other /\ c.doomed = conn[e].doomed
  BY <1>1 DEF Conn
<1>5. ConnInv(c)
  BY <1>1, <1>2, <1>4 DEF ConnInv
<1>6. net' \subseteq net \cup {Message("DATA", Peer(e), conn[e].sn)}
  BY <1>2, WithAdds
<1>7. QED
  BY <1>1, <1>2, <1>3, <1>4, <1>5, <1>6 DEF Turns, Keeps

LEMMA CloseTurns ==
  ASSUME TypeInv, NEW e \in Ends, Close(e)
  PROVE  \E c \in Conn :
         /\ Turns(e, c, Unacknowledged(e, c)) /\ Keeps(e, c)
         /\ c.phase = "closing" /\ c.doomed = conn[e].doomed /\ c.other = conn[e].other
         /\ c.hasSent = conn[e].hasSent
         /\ conn[e].phase \in {"opening", "open"}
         /\ c.buffer = IF "DATA" \in conn[e].buffer THEN {"DATA"} ELSE {"RST"}
         /\ log' = [log EXCEPT ![e] = IF conn[e].phase = "opening" THEN Append(@, "failed") ELSE @]
         /\ Quiet
<1> DEFINE b == [conn[e] EXCEPT !.phase = "closing", !.byApp = TRUE]
           c == Release(b, "SYN")
<1>1. conn[e] \in Conn /\ ConnInv(conn[e])
  BY DEF TypeInv
<1>2. /\ conn' = [conn EXCEPT ![e] = c]
      /\ conn[e].phase \in {"opening", "open"}
      /\ net' = With(net, Unacknowledged(e, conn'[e]))
      /\ log' = [log EXCEPT ![e] = IF conn[e].phase = "opening" THEN Append(@, "failed") ELSE @]
      /\ Quiet
  BY DEF Close, Quiet, history
<1>3. b \in Conn /\ b.phase = "closing" /\ b.buffer = conn[e].buffer /\ b.sn = conn[e].sn
      /\ b.other = conn[e].other /\ b.doomed = conn[e].doomed /\ b.hasSent = conn[e].hasSent
  BY <1>1 DEF Conn
<1>4. /\ c \in Conn /\ c.phase = "closing" /\ c.sn = conn[e].sn /\ c.other = conn[e].other
      /\ c.doomed = conn[e].doomed /\ c.hasSent = conn[e].hasSent
      /\ b.buffer \subseteq {"SYN"} => c.buffer = {"RST"}
      /\ ~(b.buffer \subseteq {"SYN"}) => c.buffer = b.buffer \ {"SYN"}
  BY <1>3, ReleaseIs
<1>5. conn[e].buffer \subseteq {"SYN", "DATA"}
  BY <1>1, <1>2 DEF ConnInv, Conn
<1>6. c.buffer = IF "DATA" \in conn[e].buffer THEN {"DATA"} ELSE {"RST"}
  BY <1>3, <1>4, <1>5
<1>7. ConnInv(c)
  BY <1>1, <1>4, <1>6 DEF ConnInv
<1>8. conn'[e] = c
  BY <1>2 DEF TypeInv
<1>9. net' \subseteq net \cup Unacknowledged(e, c)
  BY <1>2, <1>8, WithAdds
<1>10. QED
  BY <1>2, <1>4, <1>6, <1>7, <1>9 DEF Turns, Keeps

\* A connection that ends.
LEMMA NoConnTurns ==
  ASSUME TypeInv, NEW e \in Ends, NEW new, conn' = [conn EXCEPT ![e] = NoConn],
         net' \subseteq net \cup new
  PROVE  Turns(e, NoConn, new)
  BY NoConnIs DEF Turns

\* Nothing happens to a connection.
LEMMA SameTurns ==
  ASSUME TypeInv, NEW e \in Ends, NEW new, UNCHANGED conn, net' \subseteq net \cup new
  PROVE  Turns(e, conn[e], new) /\ Keeps(e, conn[e])
<1>1. conn' = [conn EXCEPT ![e] = conn[e]] /\ ConnInv(conn[e])
  BY DEF TypeInv
<1>2. QED
  BY <1>1 DEF Turns, Keeps, TypeInv

LEMMA ForceCloseTurns ==
  ASSUME TypeInv, NEW e \in Ends, ForceClose(e)
  PROVE  LET c == [conn[e] EXCEPT !.doomed = TRUE, !.byApp = TRUE] IN
         /\ Turns(e, c, {}) /\ Keeps(e, c)
         /\ c.phase = conn[e].phase /\ c.other = conn[e].other /\ c.hasSent = conn[e].hasSent
         /\ c.buffer = conn[e].buffer /\ conn[e].phase # "closed" /\ disturbed' = TRUE
         /\ UNCHANGED <<log, lastSn, missing, attempts>>
<1> DEFINE c == [conn[e] EXCEPT !.doomed = TRUE, !.byApp = TRUE]
<1>1. conn[e] \in Conn /\ ConnInv(conn[e]) /\ (e = Server => conn[e].phase # "opening")
  BY DEF TypeInv
<1>2. /\ conn' = [conn EXCEPT ![e].doomed = TRUE, ![e].byApp = TRUE]
      /\ conn[e].phase # "closed" /\ disturbed' = TRUE
      /\ UNCHANGED <<net, log, lastSn, missing, attempts>>
  BY DEF ForceClose, Forget
<1>3. conn' = [conn EXCEPT ![e] = c]
  BY <1>2 DEF TypeInv
<1>4. c \in Conn /\ c.phase = conn[e].phase /\ c.buffer = conn[e].buffer
      /\ c.hasSent = conn[e].hasSent /\ c.sn = conn[e].sn /\ c.other = conn[e].other
  BY <1>1 DEF Conn
<1>5. ConnInv(c)
  BY <1>1, <1>2, <1>4 DEF ConnInv
<1>6. QED
  BY <1>1, <1>2, <1>3, <1>4, <1>5 DEF Turns, Keeps

\* A SYN for another connection dooms the one that is open.
LEMMA ReceiveSynForOtherTurns ==
  ASSUME TypeInv, NEW m \in net, m.kind = "SYN", ReceiveSynForOther(m)
  PROVE  LET c == [conn[Server] EXCEPT !.doomed = TRUE] IN
         /\ Turns(Server, c, {}) /\ Keeps(Server, c)
         /\ c.phase = conn[Server].phase /\ c.other = conn[Server].other
         /\ c.hasSent = conn[Server].hasSent /\ c.buffer = conn[Server].buffer
         /\ conn[Server].phase = "open" /\ conn[Server].other # m.sn
         /\ UNCHANGED <<log, lastSn>>
<1> DEFINE c == [conn[Server] EXCEPT !.doomed = TRUE]
<1>1. conn[Server] \in Conn /\ ConnInv(conn[Server]) /\ conn[Server].phase # "opening"
  BY DEF TypeInv, Ends
<1>2. /\ conn' = [conn EXCEPT ![Server].doomed = TRUE]
      /\ conn[Server].phase = "open" /\ conn[Server].other # m.sn
      /\ UNCHANGED <<log, lastSn>> /\ net' \subseteq net \cup {}
  BY ExchangeAdds DEF ReceiveSynForOther
<1>3. conn' = [conn EXCEPT ![Server] = c]
  BY <1>2 DEF TypeInv
<1>4. c \in Conn /\ c.phase = conn[Server].phase /\ c.buffer = conn[Server].buffer
      /\ c.hasSent = conn[Server].hasSent /\ c.sn = conn[Server].sn
      /\ c.other = conn[Server].other
  BY <1>1 DEF Conn
<1>5. ConnInv(c)
  BY <1>1, <1>2, <1>4 DEF ConnInv
<1>6. QED
  BY <1>1, <1>2, <1>3, <1>4, <1>5 DEF Turns, Keeps

LEMMA ReceiveSynFirstTurns ==
  ASSUME TypeInv, NEW m \in net, m.kind = "SYN", ReceiveSynFirst(m)
  PROVE  LET c == NewConn("open", lastSn', m.sn, {}) IN
         /\ Turns(Server, c, {Message("SYN-RST", Client, lastSn')})
         /\ conn[Server].phase = "closed" /\ lastSn' = lastSn + 1
         /\ log' = [log EXCEPT ![Server] = <<"opened">>]
<1> DEFINE c == NewConn("open", lastSn', m.sn, {})
<1>1. /\ conn' = [conn EXCEPT ![Server] = c] /\ lastSn' = lastSn + 1 /\ lastSn' \in Nat
      /\ conn[Server].phase = "closed"
      /\ log' = [log EXCEPT ![Server] = <<"opened">>]
      /\ net' \subseteq net \cup {Message("SYN-RST", Client, lastSn')}
  BY ExchangeAdds DEF ReceiveSynFirst, TypeInv
<1>2. m.sn \in Nat
  BY DEF TypeInv, MessageInv
<1>3. c \in Conn /\ c.buffer = {} /\ c.phase = "open"
  BY <1>1, <1>2, NewConnIs
<1>4. ConnInv(c)
  BY <1>3 DEF ConnInv
<1>5. QED
  BY <1>1, <1>3, <1>4 DEF Turns

LEMMA ReceiveSynRstTurns ==
  ASSUME TypeInv, NEW m \in net, ReceiveSynRst(m)
  PROVE  \/ /\ conn[Client].phase # "opening" /\ UNCHANGED <<conn, log>>
            /\ net' \subseteq net /\ Quiet
         \/ \E c \in Conn :
            /\ Turns(Client, c, {}) /\ Keeps(Client, c)
            /\ conn[Client].phase = "opening" /\ c.phase = "open" /\ c.other = m.sn
            /\ c.buffer = conn[Client].buffer \ {"SYN"} /\ c.hasSent = conn[Client].hasSent
            /\ c.doomed = conn[Client].doomed
            /\ log' = [log EXCEPT ![Client] = Append(@, "opened")]
            /\ m.kind = "SYN-RST" /\ Quiet
<1>1. conn[Client] \in Conn /\ ConnInv(conn[Client]) /\ Client \in Ends /\ m.sn \in Nat
  BY DEF TypeInv, Ends, MessageInv
<1>2. net' \subseteq net \cup {} /\ m.kind = "SYN-RST" /\ Quiet
  BY ExchangeAdds DEF ReceiveSynRst, Quiet, history
<1>3. CASE conn[Client].phase # "opening"
  BY <1>2, <1>3 DEF ReceiveSynRst
<1>4. CASE conn[Client].phase = "opening"
  <2> DEFINE r == Release(conn[Client], "SYN")
             c == [r EXCEPT !.phase = "open", !.other = m.sn]
  <2>1. /\ conn' = [conn EXCEPT ![Client] = c]
        /\ log' = [log EXCEPT ![Client] = Append(@, "opened")]
    BY <1>4 DEF ReceiveSynRst
  <2>2. r \in Conn /\ r.sn = conn[Client].sn /\ r.hasSent = conn[Client].hasSent
        /\ r.doomed = conn[Client].doomed /\ r.buffer = conn[Client].buffer \ {"SYN"}
    BY <1>1, <1>4, ReleaseIs
  <2>3. c \in Conn /\ c.sn = r.sn /\ c.hasSent = r.hasSent /\ c.buffer = r.buffer
        /\ c.phase = "open" /\ c.other = m.sn /\ c.doomed = r.doomed
    BY <1>1, <2>2 DEF Conn
  <2>4. ConnInv(c)
    BY <1>1, <1>4, <2>2, <2>3 DEF ConnInv
  <2>5. QED
    BY <1>2, <1>4, <2>1, <2>2, <2>3, <2>4 DEF Turns, Keeps, Client, Server
<1>5. QED
  BY <1>3, <1>4

LEMMA ReceiveAckExpectedTurns ==
  ASSUME TypeInv, NEW m \in net, m.kind = "ACK", ReceiveAckExpected(m)
  PROVE  \E c \in Conn :
         /\ Turns(m.to, c, {}) /\ Keeps(m.to, c)
         /\ c.phase = conn[m.to].phase /\ c.other = conn[m.to].other
         /\ c.doomed = conn[m.to].doomed /\ c.hasSent = conn[m.to].hasSent
         /\ \/ c.buffer = conn[m.to].buffer
            \/ m.sn = conn[m.to].sn /\ c.buffer = conn[m.to].buffer \ {"DATA"}
            \/ m.sn = conn[m.to].sn /\ c.buffer = {"RST"} /\ c.phase = "closing"
         /\ conn[m.to].phase # "closed" /\ UNCHANGED missing
<1> DEFINE c == IF m.sn = conn[m.to].sn THEN Release(conn[m.to], "DATA") ELSE conn[m.to]
<1>1. conn[m.to] \in Conn /\ ConnInv(conn[m.to]) /\ m.to \in Ends
      /\ (m.to = Server => conn[m.to].phase # "opening")
  BY DEF TypeInv, MessageInv
<1>2. /\ conn' = [conn EXCEPT ![m.to] = c] /\ net' \subseteq net \cup {}
      /\ conn[m.to].phase # "closed" /\ UNCHANGED missing
  BY ExchangeAdds DEF ReceiveAckExpected
<1>3. /\ c \in Conn /\ c.phase = conn[m.to].phase /\ c.other = conn[m.to].other
      /\ c.doomed = conn[m.to].doomed /\ c.hasSent = conn[m.to].hasSent /\ c.sn = conn[m.to].sn
  BY <1>1, ReleaseIs
<1>4. \/ c.buffer = conn[m.to].buffer
      \/ /\ m.sn = conn[m.to].sn /\ c.phase = "closing" /\ c.buffer = {"RST"}
      \/ /\ m.sn = conn[m.to].sn /\ c.buffer = conn[m.to].buffer \ {"DATA"}
         /\ ~(c.phase = "closing" /\ conn[m.to].buffer \subseteq {"DATA"})
  BY <1>1, <1>3, ReleaseIs
<1>5. ConnInv(c)
  BY <1>1, <1>2, <1>3, <1>4 DEF ConnInv
<1>6. QED
  BY <1>1, <1>2, <1>3, <1>4, <1>5 DEF Turns, Keeps

-----------------------------------------------------------------------------
(* The steps that leave the connections alone, or end one *)

\* Messages are lost, repeated or answered: an end repeats what it has in its sender
\* buffer, a server its SYN-RST, a closed server says that it has no connection, and
\* data that is expected is acknowledged.
Answers ==
  /\ UNCHANGED <<conn, log, lastSn, disturbed, attempts>> /\ missing' \subseteq missing
  /\ \A x \in net' :
       \/ x \in net
       \/ \E e \in Ends : conn[e].phase # "closed" /\ x \in Unacknowledged(e, conn[e])
       \/ conn[Server].phase # "closed" /\ x = Message("SYN-RST", Client, conn[Server].sn)
       \/ /\ conn[Server].phase = "closed" /\ x = SynRstAck(Client)
          /\ \E m \in net : m.to = Server /\ m.kind \in {"DATA", "ACK", "RST"}
       \/ \E m \in net : /\ m.kind = "DATA" /\ conn[m.to].phase # "closed"
                         /\ m.sn = conn[m.to].other /\ m.sn \notin missing'
                         /\ x = Message("ACK", Peer(m.to), m.sn)

\* The connection of e, whatever it is, is over, and its application told so: it was
\* force closed before, timed out, or the other host said so.
Over(e, reason) ==
  /\ conn' = [conn EXCEPT ![e] = NoConn] /\ conn[e].phase # "closed" /\ reason \in Reasons
  /\ log' = [log EXCEPT ![e] = IF conn[e].phase = "opening" THEN @ \o <<"failed", reason>>
                               ELSE Append(@, reason)]
  /\ UNCHANGED <<lastSn, missing, attempts>>
  /\ \/ conn[e].doomed /\ reason = "this host closed" /\ net' \subseteq net /\ UNCHANGED disturbed
     \/ /\ reason = "timed out" /\ net' \subseteq net
        /\ disturbed' \/ (conn[Peer(e)].phase = "closed" /\ UNCHANGED disturbed)
        /\ disturbed' \in BOOLEAN
     \/ \E m \in net : /\ m.to = e /\ m.kind = "RST" /\ reason = "other host closed"
                       /\ net' \subseteq net \cup {SynRstAck(Peer(e))} /\ UNCHANGED disturbed
     \/ \E m \in net : /\ m.to = e /\ m.kind = "SYN-RST-ACK"
                       /\ net' \subseteq net /\ UNCHANGED disturbed

LEMMA RtoTimeoutAnswers ==
  ASSUME TypeInv, NEW e \in Ends, RtoTimeout(e)
  PROVE  Answers
<1>1. net' \subseteq net \cup Unacknowledged(e, conn[e])
      /\ UNCHANGED <<conn, log, lastSn, disturbed, attempts, missing>>
  BY WithAdds DEF RtoTimeout, history
<1>2. conn[e].phase # "closed"
  BY NoConnIs DEF RtoTimeout, TypeInv, ConnInv
<1>3. QED
  BY <1>1, <1>2 DEF Answers

\* A closed client hears nothing.
LEMMA ClosedIsServer ==
  ASSUME TypeInv, NEW m \in net, Hears(m.to), conn[m.to].phase = "closed"
  PROVE  m.to = Server /\ Peer(m.to) = Client
  BY DEF Hears, TypeInv, MessageInv, Peer, Client, Server

LEMMA ReceiveDataOrAckAnswers ==
  ASSUME TypeInv, NEW m \in net, ReceiveData(m) \/ (ReceiveAck(m) /\ ReceiveUnexpected(m))
  PROVE  Answers
<1>1. m.kind \in {"DATA", "ACK"} /\ UNCHANGED <<log, lastSn, disturbed, attempts>>
  BY DEF ReceiveData, ReceiveAck
<1>2. CASE ReceiveUnexpected(m)
  <2>1. /\ conn[m.to].phase = "closed" /\ Hears(m.to)
        /\ net' \subseteq net \cup {SynRstAck(Peer(m.to))} /\ UNCHANGED <<conn, missing>>
    BY <1>2, ExchangeAdds DEF ReceiveUnexpected
  <2>2. m.to = Server /\ Peer(m.to) = Client
    BY <2>1, ClosedIsServer
  <2>3. QED
    BY <1>1, <2>1, <2>2 DEF Answers
<1>3. CASE m.kind = "DATA" /\ ReceiveExpected(m)
  <2> DEFINE new == {Message("ACK", Peer(m.to), o) : o \in {m.sn} \cap {conn[m.to].other}}
  <2>1. /\ conn[m.to].phase # "closed" /\ UNCHANGED conn
        /\ net' \subseteq net \cup new
        /\ missing' = missing \ ({m.sn} \cap {conn[m.to].other})
    BY <1>3, ExchangeAdds DEF ReceiveExpected, AnswerData
  <2>2. \A x \in new : m.sn = conn[m.to].other /\ x = Message("ACK", Peer(m.to), m.sn)
                       /\ m.sn \notin missing'
    BY <2>1
  <2>3. QED
    BY <1>1, <1>3, <2>1, <2>2 DEF Answers
<1>4. QED
  BY <1>2, <1>3 DEF ReceiveData

LEMMA ReceiveRstSteps ==
  ASSUME TypeInv, NEW m \in net, ReceiveRst(m)
  PROVE  Answers \/ \E e \in Ends, reason \in Reasons : Over(e, reason)
<1>1. /\ m.kind = "RST" /\ net' \subseteq net \cup {SynRstAck(Peer(m.to))} /\ Hears(m.to)
      /\ UNCHANGED <<lastSn, missing, disturbed, attempts>> /\ m.to \in Ends
  BY ExchangeAdds DEF ReceiveRst, AnswerRst, history, TypeInv, MessageInv
<1>2. CASE conn[m.to].phase = "closed"
  <2>1. m.to = Server /\ Peer(m.to) = Client /\ UNCHANGED <<conn, log>>
    BY <1>1, <1>2, ClosedIsServer DEF ReceiveRst
  <2>2. QED
    BY <1>1, <1>2, <2>1 DEF Answers
<1>3. CASE conn[m.to].phase # "closed"
  <2>1. ForceClosed(m.to, "other host closed")
    BY <1>3 DEF ReceiveRst
  <2>2. Over(m.to, "other host closed")
    BY <1>1, <1>3, <2>1 DEF Over, ForceClosed, Reasons
  <2>3. QED
    BY <1>1, <2>2 DEF Reasons
<1>4. QED
  BY <1>2, <1>3

LEMMA ReceiveSynRstAckSteps ==
  ASSUME TypeInv, NEW m \in net, ReceiveSynRstAck(m)
  PROVE  Answers \/ \E e \in Ends, reason \in Reasons : Over(e, reason)
<1>1. /\ m.kind = "SYN-RST-ACK" /\ net' \subseteq net
      /\ UNCHANGED <<lastSn, missing, disturbed, attempts>> /\ m.to \in Ends
  <2>1. m.kind = "SYN-RST-ACK" /\ Exchange(m, {}) /\ UNCHANGED <<lastSn, history, attempts>>
    BY DEF ReceiveSynRstAck
  <2>2. net' \subseteq net \cup {}
    BY <2>1, ExchangeAdds
  <2>3. QED
    BY <2>1, <2>2 DEF history, TypeInv, MessageInv
<1>2. CASE conn[m.to].phase = "closed"
  BY <1>1, <1>2 DEF Answers, ReceiveSynRstAck
<1>3. CASE conn[m.to].phase # "closed"
  <2>1. PICK reason \in Reasons : ForceClosed(m.to, reason)
    BY <1>3 DEF ReceiveSynRstAck, Reasons
  <2>2. Over(m.to, reason)
    BY <1>1, <1>3, <2>1 DEF Over, ForceClosed
  <2>3. QED
    BY <1>1, <2>2
<1>4. QED
  BY <1>2, <1>3

LEMMA TimeoutSteps ==
  ASSUME TypeInv, NEW e \in Ends, ForceCloseTimeout(e) \/ ConnectionTimeout(e)
  PROVE  \E reason \in Reasons : Over(e, reason)
<1>1. CASE ForceCloseTimeout(e)
  <2>1. conn[e].phase # "closed"
    BY <1>1, NoConnIs DEF ForceCloseTimeout, TypeInv, ConnInv
  <2>2. Over(e, "this host closed")
    BY <1>1, <2>1 DEF ForceCloseTimeout, ForceClosed, Over, Reasons, history
  <2>3. QED
    BY <2>2 DEF Reasons
<1>2. CASE ConnectionTimeout(e)
  <2>1. /\ disturbed' \/ (conn[Peer(e)].phase = "closed" /\ UNCHANGED disturbed)
        /\ disturbed' \in BOOLEAN
    BY <1>2 DEF ConnectionTimeout, Forget, TypeInv
  <2>2. Over(e, "timed out")
    BY <1>2, <2>1 DEF ConnectionTimeout, ForceClosed, Over, Reasons
  <2>3. QED
    BY <2>2 DEF Reasons
<1>3. QED
  BY <1>1, <1>2

-----------------------------------------------------------------------------
(* The types *)

\* A new connection, or one that keeps its number, and messages of the right kind.
LEMMA TurnsKeepTypes ==
  ASSUME TypeInv, NEW e \in Ends, NEW c, NEW new, Turns(e, c, new),
         \/ lastSn' = lastSn /\ (Keeps(e, c) \/ c = NoConn)
         \/ lastSn' = lastSn + 1 /\ c.sn = lastSn',
         \A m \in new : MessageInv(m)',
         disturbed' \in BOOLEAN, attempts' \in Nat
  PROVE  TypeInv'
<1>1. ConnInv(c) /\ c \in Conn /\ conn' = [conn EXCEPT ![e] = c]
  BY DEF Turns, ConnInv
<1>2. conn' \in [Ends -> Conn] /\ conn'[e] = c /\ \A d \in Ends : d # e => conn'[d] = conn[d]
  BY <1>1 DEF TypeInv
<1>3. lastSn' \in Nat /\ lastSn <= lastSn'
  BY DEF TypeInv
<1>4. \A m \in net' : MessageInv(m)'
  <2>1. ASSUME NEW m \in net
        PROVE  MessageInv(m)'
    BY <1>3 DEF TypeInv, MessageInv
  <2>2. QED
    BY <2>1 DEF Turns
<1>5. c.sn \in 0 .. lastSn' /\ (c.phase # "closed" => c.sn # 0)
  BY <1>1, <1>3, NoConnIs DEF TypeInv, Keeps
<1>6. \A d \in Ends : /\ ConnInv(conn'[d]) /\ conn'[d].sn \in 0 .. lastSn'
                      /\ conn'[d].phase # "closed" => conn'[d].sn # 0
  BY <1>1, <1>2, <1>3, <1>5 DEF TypeInv
<1>7. conn'[Client].phase # "closed" => conn'[Client].sn # conn'[Server].sn
  BY <1>1, <1>2, <1>3, NoConnIs DEF TypeInv, Keeps, Ends, Client, Server
<1>8. conn'[Server].phase # "opening"
  BY <1>2 DEF TypeInv, Turns, Ends
<1>9. QED
  BY <1>2, <1>3, <1>4, <1>6, <1>7, <1>8 DEF TypeInv

\* What a connection sends again has its number.
LEMMA UnacknowledgedType ==
  ASSUME TypeInv, NEW e \in Ends, NEW c \in Conn, Keeps(e, c), ConnInv(c), c.phase # "closed",
         e = Server => c.phase # "opening", lastSn' = lastSn, NEW m \in Unacknowledged(e, c)
  PROVE  MessageInv(m)'
<1>1. m.kind \in c.buffer /\ m.to = Peer(e) /\ m.sn = c.sn
  BY UnacknowledgedIs
<1>2. m.kind \in {"SYN", "DATA", "RST"} /\ (m.kind = "SYN" => c.phase = "opening")
  BY <1>1 DEF ConnInv, Conn
<1>3. Peer(e) \in Ends /\ (e # Server => Peer(e) = Server)
  BY Peers DEF Ends, Client, Server
<1>4. c.sn \in 0 .. lastSn /\ c.sn # 0
  BY DEF Keeps, TypeInv
<1>5. QED
  BY <1>1, <1>2, <1>3, <1>4 DEF MessageInv, Kinds

LEMMA AnswersKeepTypes ==
  ASSUME TypeInv, Answers
  PROVE  TypeInv'
<1>1. UNCHANGED <<conn, lastSn, disturbed, attempts>>
  BY DEF Answers
<1>2. ASSUME NEW x \in net'
      PROVE  MessageInv(x)'
  <2>1. CASE x \in net
    BY <1>1, <2>1 DEF TypeInv, MessageInv
  <2>2. ASSUME NEW e \in Ends, conn[e].phase # "closed", x \in Unacknowledged(e, conn[e])
        PROVE  MessageInv(x)'
    <3>1. Keeps(e, conn[e]) /\ ConnInv(conn[e]) /\ conn[e] \in Conn
          /\ (e = Server => conn[e].phase # "opening")
      BY DEF TypeInv, Keeps
    <3>2. QED
      BY <1>1, <2>2, <3>1, UnacknowledgedType
  <2>3. CASE conn[Server].phase # "closed" /\ x = Message("SYN-RST", Client, conn[Server].sn)
    BY <1>1, <2>3, MessageFields DEF TypeInv, MessageInv, Kinds, Ends
  <2>4. CASE x = SynRstAck(Client)
    BY <1>1, <2>4, MessageFields DEF TypeInv, MessageInv, Kinds, Ends
  <2>5. ASSUME NEW m \in net, x = Message("ACK", Peer(m.to), m.sn), m.kind = "DATA"
        PROVE  MessageInv(x)'
    BY <1>1, <2>5, MessageFields, Peers DEF TypeInv, MessageInv, Kinds
  <2>6. QED
    BY <2>1, <2>2, <2>3, <2>4, <2>5 DEF Answers
<1>3. QED
  BY <1>1, <1>2 DEF TypeInv

LEMMA OverKeepsTypes ==
  ASSUME TypeInv, NEW e \in Ends, NEW reason, Over(e, reason)
  PROVE  TypeInv'
<1>1. /\ conn' = [conn EXCEPT ![e] = NoConn] /\ UNCHANGED <<lastSn, attempts>>
      /\ disturbed' \in BOOLEAN /\ net' \subseteq net \cup {SynRstAck(Peer(e))}
  BY DEF Over, TypeInv
<1>2. Turns(e, NoConn, {SynRstAck(Peer(e))})
  BY <1>1, NoConnTurns
<1>3. MessageInv(SynRstAck(Peer(e)))'
  BY <1>1, MessageFields, Peers DEF MessageInv, Kinds, TypeInv
<1>4. QED
  BY <1>1, <1>2, <1>3, TurnsKeepTypes DEF TypeInv

\* A step is one of these.
LEMMA Steps ==
  ASSUME TypeInv, Next
  PROVE  \/ Connect
         \/ \E e \in Ends : Send(e) \/ Close(e) \/ ForceClose(e) \/ Crash(e)
         \/ \E m \in net : /\ m.kind = "SYN" /\ UNCHANGED <<missing, disturbed, attempts>>
                           /\ ReceiveSynForOther(m) \/ ReceiveSynFirst(m)
         \/ \E m \in net : ReceiveSynRst(m)
         \/ \E m \in net : ReceiveAck(m) /\ ReceiveAckExpected(m)
         \/ \E e \in Ends, reason \in Reasons : Over(e, reason)
         \/ Answers
<1>1. ASSUME NEW m \in net, ReceiveSyn(m), ReceiveSynAgain(m)
      PROVE  Answers
  <2>1. /\ conn[Server].phase # "closed" /\ UNCHANGED <<conn, log, lastSn>>
        /\ net' \subseteq net \cup {Message("SYN-RST", Client, conn[Server].sn)}
    BY <1>1, ExchangeAdds DEF ReceiveSynAgain, Answer
  <2>2. UNCHANGED <<missing, disturbed, attempts>>
    BY <1>1 DEF ReceiveSyn, history
  <2>3. QED
    BY <2>1, <2>2 DEF Answers
<1>2. ASSUME NEW m \in net, Lose(m)
      PROVE  Answers
  BY <1>2 DEF Lose, Answers, history
<1>3. ASSUME NEW m \in net, ReceiveSyn(m)
      PROVE  \/ Answers
             \/ /\ m.kind = "SYN" /\ UNCHANGED <<missing, disturbed, attempts>>
                /\ ReceiveSynForOther(m) \/ ReceiveSynFirst(m)
  BY <1>1, <1>3 DEF ReceiveSyn, history
<1>4. ASSUME NEW e \in Ends,
             \/ Send(e) \/ Close(e) \/ ForceClose(e)
             \/ ForceCloseTimeout(e) \/ RtoTimeout(e) \/ ConnectionTimeout(e) \/ Crash(e)
      PROVE  \/ Send(e) \/ Close(e) \/ ForceClose(e) \/ Crash(e)
             \/ \E reason \in Reasons : Over(e, reason)
             \/ Answers
  BY <1>4, RtoTimeoutAnswers, TimeoutSteps
<1>5. ASSUME NEW m \in net,
             \/ ReceiveSynRst(m) \/ ReceiveData(m) \/ ReceiveAck(m)
             \/ ReceiveRst(m) \/ ReceiveSynRstAck(m)
      PROVE  \/ ReceiveSynRst(m)
             \/ (ReceiveAck(m) /\ ReceiveAckExpected(m))
             \/ \E e \in Ends, reason \in Reasons : Over(e, reason)
             \/ Answers
  BY <1>5, ReceiveDataOrAckAnswers, ReceiveRstSteps, ReceiveSynRstAckSteps DEF ReceiveAck
<1>6. QED
  BY <1>2, <1>3, <1>4, <1>5 DEF Next

LEMMA StepTypeInv ==
  ASSUME TypeInv, Next
  PROVE  TypeInv'
<1>1. CASE Connect
  <2> DEFINE c == NewConn("opening", lastSn', 0, {"SYN"})
             new == {Message("SYN", Server, lastSn')}
  <2>1. /\ Turns(Client, c, new) /\ lastSn' = lastSn + 1
        /\ attempts' = attempts + 1 /\ disturbed' = (disturbed \/ attempts > 0)
    BY <1>1, ConnectTurns
  <2>2. lastSn' \in Nat /\ lastSn' # 0 /\ attempts' \in Nat /\ disturbed' \in BOOLEAN
    BY <2>1 DEF TypeInv
  <2>3. c.sn = lastSn'
    BY <2>2, NewConnIs
  <2>4. \A m \in new : MessageInv(m)'
    BY <2>2, MessageFields DEF MessageInv, Kinds, Ends
  <2>5. Client \in Ends
    BY DEF Ends
  <2>6. QED
    BY <2>1, <2>2, <2>3, <2>4, <2>5, TurnsKeepTypes
<1>2. ASSUME NEW e \in Ends, Send(e)
      PROVE  TypeInv'
  <2> DEFINE c == [conn[e] EXCEPT !.buffer = @ \cup {"DATA"}, !.hasSent = TRUE]
             new == {Message("DATA", Peer(e), conn[e].sn)}
  <2>1. /\ Turns(e, c, new) /\ Keeps(e, c) /\ conn[e].phase # "closed"
        /\ UNCHANGED <<lastSn, attempts>> /\ disturbed' \in BOOLEAN
    BY <1>2, SendTurns DEF TypeInv
  <2>2. \A m \in new : MessageInv(m)'
    BY <2>1, MessageFields, Peers DEF TypeInv, MessageInv, Kinds
  <2>3. QED
    BY <2>1, <2>2, TurnsKeepTypes DEF TypeInv
<1>3. ASSUME NEW e \in Ends, Close(e)
      PROVE  TypeInv'
  <2>1. PICK c \in Conn : /\ Turns(e, c, Unacknowledged(e, c)) /\ Keeps(e, c)
                          /\ c.phase = "closing" /\ Quiet
    BY <1>3, CloseTurns
  <2>2. \A m \in Unacknowledged(e, c) : MessageInv(m)'
    BY <2>1, UnacknowledgedType DEF Turns, Quiet
  <2>3. QED
    BY <2>1, <2>2, TurnsKeepTypes DEF TypeInv, Quiet
<1>4. ASSUME NEW e \in Ends, ForceClose(e)
      PROVE  TypeInv'
  <2>1. PICK c : /\ Turns(e, c, {}) /\ Keeps(e, c) /\ disturbed' = TRUE
                 /\ UNCHANGED <<lastSn, attempts>>
    BY <1>4, ForceCloseTurns
  <2>2. QED
    BY <2>1, TurnsKeepTypes DEF TypeInv
<1>5. ASSUME NEW e \in Ends, Crash(e)
      PROVE  TypeInv'
  <2>1. /\ conn' = [conn EXCEPT ![e] = NoConn] /\ disturbed' = TRUE
        /\ UNCHANGED <<net, lastSn, attempts>>
    BY <1>5 DEF Crash, Forget
  <2>2. Turns(e, NoConn, {})
    BY <2>1, NoConnTurns
  <2>3. QED
    BY <2>1, <2>2, TurnsKeepTypes DEF TypeInv
<1>6. ASSUME NEW m \in net, m.kind = "SYN", UNCHANGED <<missing, disturbed, attempts>>,
             ReceiveSynForOther(m)
      PROVE  TypeInv'
  <2>1. PICK c : Turns(Server, c, {}) /\ Keeps(Server, c) /\ UNCHANGED lastSn
    BY <1>6, ReceiveSynForOtherTurns
  <2>2. QED
    BY <1>6, <2>1, TurnsKeepTypes DEF TypeInv, Ends
<1>7. ASSUME NEW m \in net, m.kind = "SYN", UNCHANGED <<missing, disturbed, attempts>>,
             ReceiveSynFirst(m)
      PROVE  TypeInv'
  <2> DEFINE c == NewConn("open", lastSn', m.sn, {})
             new == {Message("SYN-RST", Client, lastSn')}
  <2>1. Turns(Server, c, new) /\ lastSn' = lastSn + 1
    BY <1>7, ReceiveSynFirstTurns
  <2>2. lastSn' \in Nat /\ lastSn' # 0 /\ m.sn \in Nat
    BY <2>1 DEF TypeInv, MessageInv
  <2>3. c.sn = lastSn'
    BY <2>2, NewConnIs
  <2>4. \A x \in new : MessageInv(x)'
    BY <2>2, MessageFields DEF MessageInv, Kinds, Ends
  <2>5. QED
    BY <1>7, <2>1, <2>3, <2>4, TurnsKeepTypes DEF TypeInv, Ends
<1>8. ASSUME NEW m \in net, ReceiveSynRst(m)
      PROVE  TypeInv'
  <2>1. CASE UNCHANGED conn /\ net' \subseteq net /\ Quiet
    BY <2>1 DEF TypeInv, MessageInv, Quiet
  <2>2. ASSUME NEW c, Turns(Client, c, {}), Keeps(Client, c), Quiet
        PROVE  TypeInv'
    BY <2>2, TurnsKeepTypes DEF TypeInv, Ends, Quiet
  <2>3. QED
    BY <1>8, <2>1, <2>2, ReceiveSynRstTurns
<1>9. ASSUME NEW m \in net, ReceiveAck(m), ReceiveAckExpected(m)
      PROVE  TypeInv'
  <2>1. m.kind = "ACK" /\ m.to \in Ends /\ UNCHANGED <<lastSn, disturbed, attempts>>
    BY <1>9 DEF ReceiveAck, TypeInv, MessageInv
  <2>2. PICK c : Turns(m.to, c, {}) /\ Keeps(m.to, c)
    BY <1>9, <2>1, ReceiveAckExpectedTurns
  <2>3. QED
    BY <2>1, <2>2, TurnsKeepTypes DEF TypeInv
<1>10. QED
  BY <1>1, <1>2, <1>3, <1>4, <1>5, <1>6, <1>7, <1>8, <1>9, Steps,
     AnswersKeepTypes, OverKeepsTypes

-----------------------------------------------------------------------------
(* The events *)

LEMMA LastOfTwo ==
  ASSUME NEW a, NEW b
  PROVE  Last(<<a, b>>) = b
<1> DEFINE S == {a, b}
<1>1. <<a, b>> \in Seq(S) /\ Len(<<a, b>>) = 2 /\ <<a, b>>[2] = b
  OBVIOUS
<1>2. QED
  BY <1>1 DEF Last

LEMMA EventSequences ==
  ASSUME NEW a, NEW b
  PROVE  Append(<<>>, a) = <<a>> /\ Append(<<a>>, b) = <<a, b>> /\ <<>> \o <<a, b>> = <<a, b>>
<1> DEFINE S == {a, b}
<1>1. a \in S /\ b \in S /\ <<>> \in Seq(S) /\ <<a>> \in Seq(S) /\ <<a, b>> \in Seq(S)
  OBVIOUS
<1>2. Append(<<>>, a) = <<a>> /\ <<>> \o <<a, b>> = <<a, b>>
  BY <1>1, AppendIsConcat, ConcatEmptySeq
<1>3. Append(<<a>>, b) = <<a, b>>
  <2>1. /\ Append(<<a>>, b) \in Seq(S) /\ Len(Append(<<a>>, b)) = 2
        /\ Append(<<a>>, b)[1] = a /\ Append(<<a>>, b)[2] = b
    BY <1>1, AppendProperties
  <2>2. \A i \in 1 .. 2 : Append(<<a>>, b)[i] = <<a, b>>[i]
    <3> SUFFICES ASSUME NEW i \in 1 .. 2 PROVE Append(<<a>>, b)[i] = <<a, b>>[i]
      OBVIOUS
    <3>1. i = 1 \/ i = 2
      OBVIOUS
    <3>2. QED
      BY <2>1, <3>1
  <2>3. Len(<<a, b>>) = 2
    OBVIOUS
  <2>4. QED
    BY <1>1, <2>1, <2>2, <2>3, SeqEqual
<1>4. QED
  BY <1>2, <1>3

\* The log of one end becomes l with its connection.
LEMMA LogKept ==
  ASSUME TypeInv, LogInv, NEW e \in Ends, NEW c, NEW l,
         conn' = [conn EXCEPT ![e] = c], log' = [log EXCEPT ![e] = l], LogOf(c, l)
  PROVE  LogInv'
  BY DEF LogInv, TypeInv

LEMMA StepLogInv ==
  ASSUME TypeInv, LogInv, Next
  PROVE  LogInv'
<1>1. CASE Connect
  <2>1. PICK c : Turns(Client, c, {Message("SYN", Server, lastSn')}) /\ c.phase = "opening"
                 /\ log' = [log EXCEPT ![Client] = <<>>]
    BY <1>1, ConnectTurns, NewConnIs DEF TypeInv
  <2>2. LogOf(c, <<>>)
    BY <2>1 DEF LogOf
  <2>3. QED
    BY <2>1, <2>2, LogKept DEF Turns, Ends
<1>2. ASSUME NEW e \in Ends, NEW c, NEW new, Turns(e, c, new), c.phase = conn[e].phase,
             UNCHANGED log
      PROVE  LogInv'
  <2>1. log' = [log EXCEPT ![e] = log[e]] /\ LogOf(c, log[e])
    BY <1>2 DEF LogInv, LogOf
  <2>2. QED
    BY <1>2, <2>1, LogKept DEF Turns
<1>3. ASSUME NEW e \in Ends, Close(e)
      PROVE  LogInv'
  <2>1. PICK c : /\ conn' = [conn EXCEPT ![e] = c] /\ c.phase = "closing"
                 /\ conn[e].phase \in {"opening", "open"}
                 /\ log' = [log EXCEPT ![e] = IF conn[e].phase = "opening" THEN Append(@, "failed")
                                              ELSE @]
    BY <1>3, CloseTurns DEF Turns
  <2>2. CASE conn[e].phase = "opening"
    <3>1. log[e] = <<>>
      BY <2>2 DEF LogInv, LogOf
    <3>2. log' = [log EXCEPT ![e] = <<"failed">>]
      BY <2>1, <2>2, <3>1, EventSequences
    <3>3. LogOf(c, <<"failed">>)
      BY <2>1 DEF LogOf
    <3>4. QED
      BY <2>1, <3>2, <3>3, LogKept
  <2>3. CASE conn[e].phase = "open"
    <3>1. log[e] = <<"opened">>
      BY <2>3 DEF LogInv, LogOf
    <3>2. log' = [log EXCEPT ![e] = log[e]]
      BY <2>1, <2>3
    <3>3. LogOf(c, log[e])
      BY <2>1, <3>1 DEF LogOf
    <3>4. QED
      BY <2>1, <3>1, <3>2, <3>3, LogKept
  <2>4. QED
    BY <2>1, <2>2, <2>3
<1>4. ASSUME NEW e \in Ends, Crash(e)
      PROVE  LogInv'
  <2>1. conn' = [conn EXCEPT ![e] = NoConn] /\ log' = [log EXCEPT ![e] = <<>>]
    BY <1>4 DEF Crash
  <2>2. LogOf(NoConn, <<>>)
    BY NoConnIs DEF LogOf
  <2>3. QED
    BY <2>1, <2>2, LogKept
<1>5. ASSUME NEW m \in net, m.kind = "SYN", ReceiveSynFirst(m)
      PROVE  LogInv'
  <2>1. PICK c : /\ conn' = [conn EXCEPT ![Server] = c] /\ c.phase = "open"
                 /\ log' = [log EXCEPT ![Server] = <<"opened">>]
    <3>1. lastSn' \in Nat /\ m.sn \in Nat
      BY <1>5, ReceiveSynFirstTurns DEF TypeInv, MessageInv
    <3>2. QED
      BY <1>5, <3>1, ReceiveSynFirstTurns, NewConnIs DEF Turns
  <2>2. LogOf(c, <<"opened">>)
    BY <2>1 DEF LogOf
  <2>3. QED
    BY <2>1, <2>2, LogKept DEF Ends
<1>6. ASSUME NEW m \in net, ReceiveSynRst(m)
      PROVE  LogInv'
  <2>1. CASE UNCHANGED <<conn, log>>
    BY <2>1 DEF LogInv
  <2>2. ASSUME NEW c, Turns(Client, c, {}), conn[Client].phase = "opening", c.phase = "open",
               log' = [log EXCEPT ![Client] = Append(@, "opened")]
        PROVE  LogInv'
    <3>1. log[Client] = <<>>
      BY <2>2 DEF LogInv, LogOf, Ends
    <3>2. log' = [log EXCEPT ![Client] = <<"opened">>]
      BY <2>2, <3>1, EventSequences
    <3>3. LogOf(c, <<"opened">>)
      BY <2>2 DEF LogOf
    <3>4. QED
      BY <2>2, <3>2, <3>3, LogKept DEF Turns, Ends
  <2>3. QED
    BY <1>6, <2>1, <2>2, ReceiveSynRstTurns
<1>7. ASSUME NEW e \in Ends, NEW reason \in Reasons, Over(e, reason)
      PROVE  LogInv'
  <2>1. /\ conn' = [conn EXCEPT ![e] = NoConn] /\ conn[e].phase # "closed" /\ conn[e] \in Conn
        /\ log' = [log EXCEPT ![e] = IF conn[e].phase = "opening" THEN @ \o <<"failed", reason>>
                                     ELSE Append(@, reason)]
    BY <1>7 DEF Over, TypeInv, Reasons
  <2>2. PICK l : /\ log' = [log EXCEPT ![e] = l]
                 /\ \E k \in {"opened", "failed"} : l = <<k, reason>>
    <3>1. CASE conn[e].phase = "opening"
      <4>1. log[e] = <<>>
        BY <3>1 DEF LogInv, LogOf
      <4>2. log' = [log EXCEPT ![e] = <<"failed", reason>>]
        BY <2>1, <3>1, <4>1, EventSequences
      <4>3. QED
        BY <2>1, <4>2, EventSequences
    <3>2. CASE conn[e].phase \in {"open", "closing"}
      <4>1. PICK k \in {"opened", "failed"} : log[e] = <<k>>
        BY <3>2 DEF LogInv, LogOf
      <4>2. log' = [log EXCEPT ![e] = <<k, reason>>]
        BY <2>1, <3>2, <4>1, EventSequences
      <4>3. QED
        BY <2>1, <4>2, EventSequences
    <3>3. QED
      BY <2>1, <3>1, <3>2 DEF Conn
  <2>3. LogOf(NoConn, l)
    BY <2>2, NoConnIs DEF LogOf
  <2>4. QED
    BY <2>1, <2>2, <2>3, LogKept
<1>8. CASE Answers
  BY <1>8 DEF Answers, LogInv
<1>9. ASSUME NEW e \in Ends, Send(e) \/ ForceClose(e)
      PROVE  LogInv'
  BY <1>2, <1>9, SendTurns, ForceCloseTurns
<1>10. ASSUME NEW m \in net, m.kind = "SYN", ReceiveSynForOther(m)
       PROVE  LogInv'
  BY <1>2, <1>10, ReceiveSynForOtherTurns DEF Ends
<1>11. ASSUME NEW m \in net, ReceiveAck(m), ReceiveAckExpected(m)
       PROVE  LogInv'
  <2>1. m.kind = "ACK" /\ m.to \in Ends /\ UNCHANGED log
    BY <1>11 DEF ReceiveAck, TypeInv, MessageInv
  <2>2. QED
    BY <1>2, <1>11, <2>1, ReceiveAckExpectedTurns
<1>12. QED
  BY <1>1, <1>3, <1>4, <1>5, <1>6, <1>7, <1>8, <1>9, <1>10, <1>11, Steps

-----------------------------------------------------------------------------
(* The data *)

\* A number is that of one end at most.
LEMMA UniqueNumbers ==
  ASSUME NEW f \in [Ends -> Conn], \A e \in Ends : ConnInv(f[e]),
         \A e \in Ends : f[e].phase # "closed" => f[e].sn # 0,
         f[Client].phase # "closed" => f[Client].sn # f[Server].sn,
         NEW d \in Ends, NEW e \in Ends, f[e].phase # "closed", f[d].sn = f[e].sn
  PROVE  d = e
<1>1. f[e].sn # 0
  OBVIOUS
<1>2. f[d].phase # "closed"
  BY <1>1, NoConnIs DEF ConnInv
<1>3. QED
  BY <1>2 DEF Ends

\* What was said of a message stays true when its connection goes on, or is another one.
LEMMA TurnsKeepData ==
  ASSUME TypeInv, DataInv, TypeInv', NEW e \in Ends, NEW c, NEW new, Turns(e, c, new),
         \/ c = NoConn
         \/ c.sn = lastSn + 1
         \/ /\ Keeps(e, c) /\ (conn[e].hasSent => c.hasSent)
            /\ conn[e].buffer = {"RST"} => c.buffer = {"RST"},
         \A m \in net : m.kind \in {"ACK", "RST"} => m.sn \notin missing',
         \A m \in new : DataMessage(m)'
  PROVE  \A m \in net' : DataMessage(m)'
<1>1. conn'[e] = c /\ \A d \in Ends : d # e => conn'[d] = conn[d]
  BY DEF Turns, TypeInv
<1>2. ASSUME NEW m \in net
      PROVE  DataMessage(m)'
  <2>1. DataMessage(m) /\ m.sn <= lastSn /\ m.sn \in Nat /\ lastSn \in Nat
    BY DEF DataInv, TypeInv, MessageInv
  <2>2. ASSUME NEW d \in Ends, conn'[d].phase # "closed", m.sn = conn'[d].sn
        PROVE  /\ m.kind \in {"DATA", "ACK"} => conn'[d].hasSent
               /\ m.kind = "RST" => conn'[d].buffer = {"RST"}
    <3>1. CASE d # e
      BY <1>1, <2>1, <2>2, <3>1 DEF DataMessage
    <3>2. CASE d = e /\ Keeps(e, c)
      BY <1>1, <2>1, <2>2, <3>2, NoConnIs DEF DataMessage, Keeps
    <3>3. CASE d = e /\ c.sn = lastSn + 1
      BY <1>1, <2>1, <2>2, <3>3
    <3>4. CASE d = e /\ c = NoConn
      BY <1>1, <2>2, <3>4, NoConnIs
    <3>5. QED
      BY <3>1, <3>2, <3>3, <3>4
  <2>3. QED
    BY <2>2 DEF DataMessage
<1>3. QED
  BY <1>2 DEF Turns

\* Nor does data become missing that a connection does not have.
LEMMA TurnsKeepMissing ==
  ASSUME TypeInv, DataInv, TypeInv', NEW e \in Ends, NEW c, NEW new, Turns(e, c, new),
         missing' \subseteq missing, lastSn' \in {lastSn, lastSn + 1},
         \/ c = NoConn
         \/ c.sn = lastSn + 1
         \/ Keeps(e, c) /\ (c.sn \in missing /\ "DATA" \in conn[e].buffer => "DATA" \in c.buffer)
  PROVE  /\ missing' \subseteq 1 .. lastSn'
         /\ \A d \in Ends : conn'[d].sn \in missing' => "DATA" \in conn'[d].buffer
         /\ \A m \in net : m.kind \in {"ACK", "RST"} => m.sn \notin missing'
<1>1. conn'[e] = c /\ \A d \in Ends : d # e => conn'[d] = conn[d]
  BY DEF Turns, TypeInv
<1>2. lastSn \in Nat /\ missing \subseteq 1 .. lastSn
  BY DEF TypeInv, DataInv
<1>3. missing' \subseteq 1 .. lastSn'
  BY <1>2
<1>4. ASSUME NEW d \in Ends, conn'[d].sn \in missing'
      PROVE  "DATA" \in conn'[d].buffer
  <2>1. CASE d # e
    BY <1>1, <1>4, <2>1 DEF DataInv
  <2>2. CASE d = e /\ Keeps(e, c) /\ (c.sn \in missing /\ "DATA" \in conn[e].buffer => "DATA" \in c.buffer)
    <3>1. c.sn \in missing /\ c.sn = conn[e].sn
      BY <1>1, <1>4, <2>2 DEF Keeps
    <3>2. QED
      BY <1>1, <2>2, <3>1 DEF DataInv
  <2>3. CASE d = e /\ (c = NoConn \/ c.sn = lastSn + 1)
    BY <1>1, <1>2, <1>4, <2>3, NoConnIs
  <2>4. QED
    BY <2>1, <2>2, <2>3
<1>5. \A m \in net : m.kind \in {"ACK", "RST"} => m.sn \notin missing'
  BY DEF DataInv, DataMessage
<1>6. QED
  BY <1>3, <1>4, <1>5

\* What a connection sends again.
LEMMA UnacknowledgedData ==
  ASSUME TypeInv, TypeInv', NEW e \in Ends, conn'[e].phase # "closed",
         conn'[e].sn \in missing' => "DATA" \in conn'[e].buffer,
         NEW m \in Unacknowledged(e, conn'[e])
  PROVE  DataMessage(m)'
<1> DEFINE c == conn'[e]
<1>1. m.kind \in c.buffer /\ m.sn = c.sn
  BY UnacknowledgedIs
<1>2. ConnInv(c) /\ c \in Conn
  BY DEF TypeInv, ConnInv
<1>3. \A d \in Ends : conn'[d].phase # "closed" /\ m.sn = conn'[d].sn => d = e
  <2>1. /\ conn' \in [Ends -> Conn] /\ \A d \in Ends : ConnInv(conn'[d])
        /\ \A d \in Ends : conn'[d].phase # "closed" => conn'[d].sn # 0
        /\ conn'[Client].phase # "closed" => conn'[Client].sn # conn'[Server].sn
    BY DEF TypeInv
  <2>2. QED
    BY <1>1, <2>1, UniqueNumbers
<1>4. /\ m.kind = "DATA" => c.hasSent
      /\ m.kind = "RST" => c.buffer = {"RST"}
      /\ m.kind # "ACK"
  BY <1>1, <1>2 DEF ConnInv, Conn
<1>5. m.kind = "RST" => m.sn \notin missing'
  BY <1>1, <1>4
<1>6. QED
  BY <1>3, <1>4, <1>5 DEF DataMessage

LEMMA AnswersKeepData ==
  ASSUME TypeInv, DataInv, TypeInv', Answers
  PROVE  DataInv'
<1>1. UNCHANGED <<conn, lastSn>> /\ missing' \subseteq missing
  BY DEF Answers
<1>2. ASSUME NEW x \in net'
      PROVE  DataMessage(x)'
  <2>1. CASE x \in net
    BY <1>1, <2>1 DEF DataInv, DataMessage
  <2>2. ASSUME NEW e \in Ends, conn[e].phase # "closed", x \in Unacknowledged(e, conn[e])
        PROVE  DataMessage(x)'
    BY <1>1, <2>2, UnacknowledgedData DEF DataInv
  <2>3. CASE x.kind \in {"SYN-RST", "SYN-RST-ACK"}
    BY <2>3 DEF DataMessage
  <2>4. ASSUME NEW m \in net, m.kind = "DATA", m.sn \notin missing',
               x = Message("ACK", Peer(m.to), m.sn)
        PROVE  DataMessage(x)'
    <3>1. x.kind = "ACK" /\ x.sn = m.sn /\ DataMessage(m)
      BY <2>4, MessageFields DEF DataInv
    <3>2. QED
      BY <1>1, <2>4, <3>1 DEF DataMessage
  <2>5. QED
    BY <2>1, <2>2, <2>3, <2>4, MessageFields DEF Answers
<1>3. QED
  BY <1>1, <1>2 DEF DataInv

LEMMA StepDataInv ==
  ASSUME TypeInv, DataInv, TypeInv', Next
  PROVE  DataInv'
<1>1. CASE Connect
  <2> DEFINE c == NewConn("opening", lastSn', 0, {"SYN"})
             new == {Message("SYN", Server, lastSn')}
  <2>1. Turns(Client, c, new) /\ lastSn' = lastSn + 1 /\ UNCHANGED missing /\ Client \in Ends
    BY <1>1, ConnectTurns DEF Ends
  <2>2. c.sn = lastSn + 1
    <3>1. lastSn' \in Nat
      BY <2>1 DEF TypeInv
    <3>2. QED
      BY <2>1, <3>1, NewConnIs
  <2>3. \A m \in new : DataMessage(m)'
    BY MessageFields DEF DataMessage
  <2>4. QED
    BY <2>1, <2>2, <2>3, TurnsKeepMissing, TurnsKeepData DEF DataInv
<1>0. ASSUME NEW d \in Ends, NEW e \in Ends, conn[e].phase # "closed", conn[d].sn = conn[e].sn
       PROVE  d = e
  <2>1. /\ conn \in [Ends -> Conn] /\ \A x \in Ends : ConnInv(conn[x])
        /\ \A x \in Ends : conn[x].phase # "closed" => conn[x].sn # 0
        /\ conn[Client].phase # "closed" => conn[Client].sn # conn[Server].sn
    BY DEF TypeInv
  <2>2. QED
    BY <1>0, <2>1, UniqueNumbers
<1>2. ASSUME NEW e \in Ends, Send(e)
      PROVE  DataInv'
  <2> DEFINE c == [conn[e] EXCEPT !.buffer = @ \cup {"DATA"}, !.hasSent = TRUE]
             new == {Message("DATA", Peer(e), conn[e].sn)}
  <2>1. /\ Turns(e, c, new) /\ Keeps(e, c) /\ c.hasSent /\ c.buffer = conn[e].buffer \cup {"DATA"}
        /\ conn[e].phase \in {"opening", "open"} /\ ~conn[e].hasSent
        /\ missing' = missing \cup {conn[e].sn} /\ UNCHANGED lastSn
    BY <1>2, SendTurns
  <2>2. conn'[e] = c /\ \A d \in Ends : d # e => conn'[d] = conn[d]
    BY <2>1 DEF Turns, TypeInv
  <2>3. conn[e].sn \in 1 .. lastSn /\ conn[e].buffer # {"RST"}
    BY <2>1 DEF TypeInv, ConnInv
  <2>4. \A m \in net : m.kind \in {"ACK", "RST"} => m.sn \notin missing'
    BY <2>1, <2>3 DEF DataInv, DataMessage
  <2>5. \A d \in Ends : conn'[d].phase # "closed" /\ conn'[d].sn = conn[e].sn => d = e
    BY <2>1, <2>2, <1>0 DEF Keeps
  <2>6. ASSUME NEW m \in new
        PROVE  DataMessage(m)'
    <3>1. m.kind = "DATA" /\ m.sn = conn[e].sn
      BY MessageFields
    <3>2. QED
      BY <2>1, <2>2, <2>5, <3>1 DEF DataMessage
  <2>7. \A m \in net' : DataMessage(m)'
    BY <2>1, <2>3, <2>4, <2>6, TurnsKeepData
  <2>8. ASSUME NEW d \in Ends, conn'[d].sn \in missing'
        PROVE  "DATA" \in conn'[d].buffer
    <3>1. CASE d = e
      BY <2>1, <2>2, <3>1
    <3>2. CASE d # e
      <4>1. conn'[d] = conn[d] /\ (conn[d].sn \in missing \/ conn[d].sn = conn[e].sn)
        BY <2>1, <2>2, <2>8, <3>2
      <4>2. conn[d].sn # conn[e].sn
        BY <2>1, <3>2, <1>0
      <4>3. QED
        BY <4>1, <4>2 DEF DataInv
    <3>3. QED
      BY <3>1, <3>2
  <2>9. missing' \subseteq 1 .. lastSn'
    BY <2>1, <2>3 DEF DataInv
  <2>10. QED
    BY <2>7, <2>8, <2>9 DEF DataInv
<1>3. ASSUME NEW e \in Ends, Close(e)
      PROVE  DataInv'
  <2>1. PICK c \in Conn :
          /\ Turns(e, c, Unacknowledged(e, c)) /\ Keeps(e, c) /\ Quiet
          /\ c.phase = "closing" /\ c.hasSent = conn[e].hasSent
          /\ conn[e].phase \in {"opening", "open"}
          /\ c.buffer = IF "DATA" \in conn[e].buffer THEN {"DATA"} ELSE {"RST"}
    BY <1>3, CloseTurns
  <2>2. conn[e].buffer # {"RST"} /\ conn'[e] = c
    BY <2>1 DEF TypeInv, ConnInv, Turns
  <2>3. /\ missing' \subseteq 1 .. lastSn'
        /\ \A d \in Ends : conn'[d].sn \in missing' => "DATA" \in conn'[d].buffer
        /\ \A m \in net : m.kind \in {"ACK", "RST"} => m.sn \notin missing'
    BY <2>1, TurnsKeepMissing DEF Quiet
  <2>4. \A m \in Unacknowledged(e, c) : DataMessage(m)'
    BY <2>1, <2>2, <2>3, UnacknowledgedData
  <2>5. QED
    BY <2>1, <2>2, <2>3, <2>4, TurnsKeepData DEF DataInv
<1>4. ASSUME NEW e \in Ends, NEW c, Turns(e, c, {}), Keeps(e, c), c.hasSent = conn[e].hasSent,
             c.buffer = conn[e].buffer, UNCHANGED <<missing, lastSn>>
      PROVE  DataInv'
  BY <1>4, TurnsKeepMissing, TurnsKeepData DEF DataInv
<1>5. ASSUME NEW e \in Ends, NEW new, Turns(e, NoConn, new), UNCHANGED <<missing, lastSn>>,
             \A m \in new : m.kind = "SYN-RST-ACK"
      PROVE  DataInv'
  <2>1. \A m \in new : DataMessage(m)'
    BY <1>5 DEF DataMessage
  <2>2. QED
    BY <1>5, <2>1, TurnsKeepMissing, TurnsKeepData DEF DataInv
<1>6. ASSUME NEW m \in net, m.kind = "SYN", UNCHANGED missing, ReceiveSynFirst(m)
      PROVE  DataInv'
  <2> DEFINE c == NewConn("open", lastSn', m.sn, {})
             new == {Message("SYN-RST", Client, lastSn')}
  <2>1. Turns(Server, c, new) /\ lastSn' = lastSn + 1 /\ Server \in Ends
    BY <1>6, ReceiveSynFirstTurns DEF Ends
  <2>2. c.sn = lastSn + 1
    BY <2>1, NewConnIs DEF TypeInv, MessageInv
  <2>3. \A x \in new : DataMessage(x)'
    BY MessageFields DEF DataMessage
  <2>4. QED
    BY <1>6, <2>1, <2>2, <2>3, TurnsKeepMissing, TurnsKeepData DEF DataInv
<1>7. ASSUME NEW m \in net, ReceiveSynRst(m)
      PROVE  DataInv'
  <2>1. CASE UNCHANGED conn /\ net' \subseteq net /\ Quiet
    BY <2>1 DEF DataInv, DataMessage, Quiet
  <2>2. ASSUME NEW c, Turns(Client, c, {}), Keeps(Client, c), Quiet, conn[Client].phase = "opening",
               c.buffer = conn[Client].buffer \ {"SYN"}, c.hasSent = conn[Client].hasSent
        PROVE  DataInv'
    <3>1. conn[Client].buffer # {"RST"} /\ Client \in Ends
      BY <2>2 DEF TypeInv, ConnInv, Ends
    <3>2. QED
      BY <2>2, <3>1, TurnsKeepMissing, TurnsKeepData DEF DataInv, Quiet
  <2>3. QED
    BY <1>7, <2>1, <2>2, ReceiveSynRstTurns
<1>8. ASSUME NEW m \in net, ReceiveAck(m), ReceiveAckExpected(m)
      PROVE  DataInv'
  <2>1. m.kind = "ACK" /\ m.to \in Ends /\ UNCHANGED lastSn /\ m.sn \notin missing
    BY <1>8 DEF ReceiveAck, TypeInv, MessageInv, DataInv, DataMessage
  <2>2. PICK c : /\ Turns(m.to, c, {}) /\ Keeps(m.to, c) /\ c.hasSent = conn[m.to].hasSent
                 /\ UNCHANGED missing
                 /\ \/ c.buffer = conn[m.to].buffer
                    \/ m.sn = conn[m.to].sn /\ c.buffer = conn[m.to].buffer \ {"DATA"}
                    \/ m.sn = conn[m.to].sn /\ c.buffer = {"RST"}
    BY <1>8, <2>1, ReceiveAckExpectedTurns
  <2>3. conn[m.to].buffer = {"RST"} => c.buffer = {"RST"}
    BY <2>2
  <2>4. c.sn \in missing /\ "DATA" \in conn[m.to].buffer => "DATA" \in c.buffer
    BY <2>1, <2>2 DEF Keeps
  <2>5. QED
    BY <2>1, <2>2, <2>3, <2>4, TurnsKeepMissing, TurnsKeepData DEF DataInv
<1>9. ASSUME NEW e \in Ends, NEW reason, Over(e, reason)
      PROVE  DataInv'
  <2>1. /\ conn' = [conn EXCEPT ![e] = NoConn] /\ UNCHANGED <<lastSn, missing>>
        /\ net' \subseteq net \cup {SynRstAck(Peer(e))}
    BY <1>9 DEF Over
  <2>2. Turns(e, NoConn, {SynRstAck(Peer(e))})
    BY <2>1, NoConnTurns
  <2>3. QED
    BY <1>5, <2>1, <2>2, MessageFields
<1>10. ASSUME NEW e \in Ends, Crash(e)
       PROVE  DataInv'
  <2>1. conn' = [conn EXCEPT ![e] = NoConn] /\ UNCHANGED <<lastSn, missing, net>>
    BY <1>10 DEF Crash
  <2>2. Turns(e, NoConn, {})
    BY <2>1, NoConnTurns
  <2>3. QED
    BY <1>5, <2>1, <2>2
<1>11. ASSUME NEW e \in Ends, ForceClose(e)
       PROVE  DataInv'
  BY <1>4, <1>11, ForceCloseTurns
<1>12. ASSUME NEW m \in net, m.kind = "SYN", UNCHANGED missing, ReceiveSynForOther(m)
       PROVE  DataInv'
  BY <1>4, <1>12, ReceiveSynForOtherTurns DEF Ends
<1>13. QED
  BY <1>1, <1>2, <1>3, <1>6, <1>7, <1>8, <1>9, <1>10, <1>11, <1>12, Steps, AnswersKeepData

-----------------------------------------------------------------------------
(* As long as neither end forgot a connection *)

LEMMA TurnsIs ==
  ASSUME TypeInv, NEW e \in Ends, NEW c, NEW new, Turns(e, c, new)
  PROVE  /\ conn'[e] = c /\ conn'[Peer(e)] = conn[Peer(e)]
         /\ ConnInv(c) /\ \A x \in net' : x \in net \/ x \in new
<1>1. conn'[e] = c /\ \A d \in Ends : d # e => conn'[d] = conn[d]
  BY DEF Turns, TypeInv
<1>2. QED
  BY <1>1, Peers DEF Turns

\* Before the client connects nothing happens, and nothing that happened is undone.
LEMMA BeforeConnect ==
  ASSUME TypeInv, Undisturbed, Next
  PROVE  /\ attempts' = 0 => /\ net' = {} /\ lastSn' = 0
                             /\ \A e \in Ends : conn'[e].phase = "closed"
         /\ ~disturbed' => ~disturbed
         /\ \/ attempts = 0 /\ Connect
            \/ attempts' = 0 /\ attempts = 0 /\ UNCHANGED conn /\ net' = {}
            \/ attempts' = attempts /\ attempts # 0
            \/ disturbed'
<1>1. CASE Connect
  <2>1. /\ attempts \in Nat /\ attempts' = attempts + 1
        /\ disturbed' = (disturbed \/ attempts > 0)
    BY <1>1, ConnectTurns DEF TypeInv
  <2>2. attempts' # 0 /\ (attempts = 0 \/ attempts > 0)
    BY <2>1
  <2>3. ~disturbed' => ~disturbed /\ ~(attempts > 0)
    BY <2>1, Zenon
  <2>4. QED
    BY <1>1, <2>2, <2>3, Zenon
<1>2. CASE ~Connect
  <2>1. attempts' = attempts
    <3>1. ASSUME NEW e \in Ends, Send(e) \/ Close(e) \/ ForceClose(e) \/ Crash(e)
          PROVE  attempts' = attempts
      BY <3>1 DEF Send, Close, ForceClose, Crash
    <3>2. ASSUME NEW m \in net, ReceiveSynRst(m) \/ ReceiveAck(m)
          PROVE  attempts' = attempts
      BY <3>2 DEF ReceiveSynRst, ReceiveAck
    <3>3. QED
      BY <1>2, <3>1, <3>2, Steps DEF Over, Answers
  <2>2. ~disturbed' => ~disturbed
    <3>1. ASSUME NEW e \in Ends, Send(e) \/ Close(e) \/ ForceClose(e) \/ Crash(e)
          PROVE  ~disturbed' => ~disturbed
      BY <3>1 DEF Send, Close, ForceClose, Crash, Forget, history
    <3>2. ASSUME NEW m \in net, ReceiveSynRst(m) \/ ReceiveAck(m)
          PROVE  ~disturbed' => ~disturbed
      BY <3>2 DEF ReceiveSynRst, ReceiveAck, history
    <3>3. ASSUME NEW e \in Ends, NEW reason, Over(e, reason)
          PROVE  ~disturbed' => ~disturbed
      BY <3>3 DEF Over
    <3>4. QED
      BY <1>2, <3>1, <3>2, <3>3, Steps DEF Answers
  <2>3. ASSUME attempts = 0
        PROVE  net' = {} /\ UNCHANGED <<conn, lastSn>>
    <3>1. net = {} /\ \A e \in Ends : conn[e].phase = "closed"
      BY <2>3 DEF Undisturbed
    <3>2. ~\E e \in Ends : Send(e) \/ Close(e) \/ ForceClose(e) \/ Crash(e)
      BY <3>1 DEF Send, Close, ForceClose, Crash
    <3>3. ~\E e \in Ends, reason \in Reasons : Over(e, reason)
      BY <3>1 DEF Over
    <3>4. Answers
      BY <1>2, <3>1, <3>2, <3>3, Steps
    <3>5. conn[Server].phase = "closed"
      BY <3>1 DEF Ends
    <3>6. QED
      BY <3>1, <3>4, <3>5 DEF Answers
  <2>4. QED
    BY <2>1, <2>2, <2>3 DEF Undisturbed
<1>3. QED
  BY <1>1, <1>2

\* Messages are as before when the phases and numbers of both ends are.
LEMMA MessagesStay ==
  ASSUME TypeInv, \A m \in net : UndisturbedMessage(m),
         \A e \in Ends : conn'[e].phase = conn[e].phase /\ conn'[e].sn = conn[e].sn
  PROVE  \A m \in net : UndisturbedMessage(m)'
<1>1. /\ conn'[Client].phase = conn[Client].phase /\ conn'[Client].sn = conn[Client].sn
      /\ conn'[Server].phase = conn[Server].phase /\ conn'[Server].sn = conn[Server].sn
  BY DEF Ends
<1>2. QED
  BY <1>1 DEF UndisturbedMessage

LEMMA AnswersUndisturbed ==
  ASSUME TypeInv, UndisturbedConns, \A m \in net : UndisturbedMessage(m), Answers
  PROVE  UndisturbedConns' /\ \A m \in net' : UndisturbedMessage(m)'
<1> DEFINE c == conn[Client]
           s == conn[Server]
<1>1. UNCHANGED <<conn, lastSn, attempts>>
  BY DEF Answers
<1>2. ASSUME NEW x \in net'
      PROVE  UndisturbedMessage(x)
  <2>1. CASE x \in net
    BY <2>1
  <2>2. CASE c.phase # "closed" /\ x \in Unacknowledged(Client, c)
    <3>1. x.kind \in c.buffer /\ x.to = Server /\ x.sn = 1
      BY <2>2, UnacknowledgedIs DEF Peer, UndisturbedConns
    <3>2. c.buffer \subseteq {"SYN", "DATA", "RST"} /\ ConnInv(c)
      BY DEF TypeInv, Ends, ConnInv, Conn
    <3>3. /\ c.phase = "opening" => "DATA" \notin c.buffer
          /\ c.phase \in {"opening", "open"} => "RST" \notin c.buffer
      BY <3>2 DEF ConnInv, UndisturbedConns
    <3>4. QED
      BY <3>1, <3>2, <3>3 DEF UndisturbedMessage, Client, Server
  <2>3. CASE s.phase # "closed" /\ x \in Unacknowledged(Server, s)
    <3>1. x.kind \in s.buffer /\ x.to = Client /\ x.sn = s.sn
      BY <2>3, UnacknowledgedIs DEF Peer, Client, Server
    <3>2. ConnInv(s) /\ s.phase # "opening" /\ s.buffer \subseteq {"SYN", "DATA", "RST"}
      BY DEF TypeInv, Ends, ConnInv, Conn
    <3>3. x.kind = "DATA" \/ (x.kind = "RST" /\ s.phase = "closing")
      BY <3>1, <3>2 DEF ConnInv
    <3>4. QED
      BY <3>1, <3>3 DEF UndisturbedMessage, Client, Server
  <2>4. CASE s.phase # "closed" /\ x = Message("SYN-RST", Client, s.sn)
    BY <2>4, MessageFields DEF UndisturbedMessage, Client, Server
  <2>5. CASE /\ s.phase = "closed" /\ x = SynRstAck(Client)
             /\ \E m \in net : m.to = Server /\ m.kind \in {"DATA", "ACK", "RST"}
    <3>1. x.kind = "SYN-RST-ACK" /\ x.to = Client
      BY <2>5, MessageFields
    <3>2. c.phase # "opening"
      BY <2>5 DEF UndisturbedMessage
    <3>3. c.phase # "open"
      BY <2>5 DEF UndisturbedConns
    <3>4. QED
      BY <3>1, <3>2, <3>3 DEF UndisturbedMessage, Client, Server
  <2>6. ASSUME NEW m \in net, m.kind = "DATA", conn[m.to].phase # "closed",
               m.sn = conn[m.to].other, x = Message("ACK", Peer(m.to), m.sn)
        PROVE  UndisturbedMessage(x)
    <3>1. x.kind = "ACK" /\ x.to = Peer(m.to) /\ m.to \in Ends /\ m.sn # 0
      BY <2>6, MessageFields DEF TypeInv, MessageInv
    <3>2. x.to = Server => m.to = Client
      BY <3>1 DEF Peer, Ends, Client, Server
    <3>3. c.phase = "opening" => x.to # Server
      BY <2>6, <3>1, <3>2 DEF UndisturbedConns
    <3>4. QED
      BY <3>1, <3>3 DEF UndisturbedMessage
  <2>7. QED
    BY <2>1, <2>2, <2>3, <2>4, <2>5, <2>6 DEF Answers, Ends
<1>3. QED
  BY <1>1, <1>2 DEF UndisturbedConns, UndisturbedMessage

\* A connection that is over although neither end forgot one: nobody can take what is
\* left in the network for anything else.
LEMMA OverUndisturbed ==
  ASSUME TypeInv, UndisturbedConns, \A m \in net : UndisturbedMessage(m), ~disturbed',
         NEW e \in Ends, NEW reason, Over(e, reason)
  PROVE  UndisturbedConns' /\ \A m \in net' : UndisturbedMessage(m)'
<1> DEFINE c == conn[Client]
           s == conn[Server]
<1>1. conn' = [conn EXCEPT ![e] = NoConn] /\ UNCHANGED <<lastSn, attempts>>
      /\ conn \in [Ends -> Conn] /\ conn[e].phase # "closed"
  BY DEF Over, TypeInv
<1>2. ~conn[e].doomed
  BY DEF UndisturbedConns, Ends
<1>3. e = Server => c.phase \in {"closing", "closed"}
  <2>1. CASE conn[Peer(e)].phase = "closed"
    BY <2>1, Peers DEF Peer, Client, Server
  <2>2. ASSUME e = Server, NEW m \in net, m.to = e, m.kind \in {"RST", "SYN-RST-ACK"}
        PROVE  c.phase = "closing" \/ c.phase = "closed"
    <3>1. c.phase \in {"closed", "opening", "open", "closing"}
      BY <1>1 DEF Conn, Ends
    <3>2. Client # Server
      BY DEF Client, Server
    <3>3. QED
      BY <2>2, <3>1, <3>2 DEF UndisturbedMessage
  <2>3. QED
    BY <1>2, <2>1, <2>2 DEF Over
<1>4. \A x \in net' : x \in net \/ x = SynRstAck(Peer(e))
  BY DEF Over
<1>5. CASE e = Client
  <2>1. conn'[Client] = NoConn /\ conn'[Server] = s /\ Peer(e) = Server
    BY <1>1, <1>5, Peers DEF Ends, Client, Server, Peer
  <2>2. UndisturbedConns'
    BY <1>1, <2>1, NoConnIs DEF UndisturbedConns
  <2>3. ASSUME NEW x \in net'
        PROVE  UndisturbedMessage(x)'
    <3>1. x.kind = "SYN-RST-ACK" \/ x \in net
      BY <1>4, MessageFields
    <3>2. QED
      BY <2>1, <3>1, NoConnIs DEF UndisturbedMessage
  <2>4. QED
    BY <2>2, <2>3
<1>6. CASE e = Server
  <2>1. conn'[Server] = NoConn /\ conn'[Client] = c /\ Peer(e) = Client
    BY <1>1, <1>6, Peers DEF Ends, Client, Server, Peer
  <2>2. UndisturbedConns'
    BY <1>1, <1>3, <1>6, <2>1, NoConnIs DEF UndisturbedConns
  <2>3. ASSUME NEW x \in net'
        PROVE  UndisturbedMessage(x)'
    <3>1. (x.kind = "SYN-RST-ACK" /\ x.to = Client) \/ x \in net
      BY <1>4, <2>1, MessageFields
    <3>2. QED
      BY <1>3, <1>6, <2>1, <3>1, NoConnIs DEF UndisturbedMessage, Client, Server
  <2>4. QED
    BY <2>2, <2>3
<1>7. QED
  BY <1>5, <1>6 DEF Ends

LEMMA StepUndisturbed ==
  ASSUME TypeInv, Undisturbed, TypeInv', Next
  PROVE  Undisturbed'
<1>1. attempts' = 0 => /\ net' = {} /\ lastSn' = 0
                       /\ \A e \in Ends : conn'[e].phase = "closed"
  BY BeforeConnect
<1>2. ASSUME ~disturbed'
      PROVE  UndisturbedConns' /\ \A m \in net' : UndisturbedMessage(m)'
  <2> DEFINE c == conn[Client]
             s == conn[Server]
  <2>1. /\ UndisturbedConns /\ \A m \in net : UndisturbedMessage(m)
        /\ Client \in Ends /\ Server \in Ends /\ Client # Server
        /\ Peer(Client) = Server /\ Peer(Server) = Client
    BY <1>2, BeforeConnect DEF Undisturbed, Ends, Client, Server, Peer
  <2>2. CASE Connect
    <3> DEFINE n == NewConn("opening", lastSn', 0, {"SYN"})
               new == {Message("SYN", Server, lastSn')}
    <3>1. /\ Turns(Client, n, new) /\ lastSn' = lastSn + 1 /\ attempts' = attempts + 1
          /\ disturbed' = (disturbed \/ attempts > 0) /\ attempts \in Nat
      BY <2>2, ConnectTurns DEF TypeInv
    <3>2. ~(attempts > 0)
      BY <1>2, <3>1, Zenon
    <3>3. attempts = 0 /\ net = {} /\ lastSn' = 1 /\ s.phase = "closed"
      BY <2>1, <3>1, <3>2 DEF Undisturbed
    <3>4. n.phase = "opening" /\ n.sn = 1 /\ n.other = 0 /\ ~n.hasSent /\ ~n.doomed
      BY <3>3, NewConnIs
    <3>5. conn'[Client] = n /\ conn'[Server] = s /\ \A x \in net' : x = Message("SYN", Server, 1)
      BY <2>1, <3>1, <3>3, TurnsIs
    <3>6. attempts' <= 1
      BY <3>1, <3>3
    <3>7. UndisturbedConns'
      BY <2>1, <3>3, <3>4, <3>5, <3>6 DEF UndisturbedConns
    <3>8. \A x \in net' : UndisturbedMessage(x)'
      BY <3>5, MessageFields DEF UndisturbedMessage
    <3>9. QED
      BY <3>7, <3>8
  <2>3. ASSUME NEW e \in Ends, Send(e)
        PROVE  UndisturbedConns' /\ \A m \in net' : UndisturbedMessage(m)'
    <3> DEFINE n == [conn[e] EXCEPT !.buffer = @ \cup {"DATA"}, !.hasSent = TRUE]
               new == {Message("DATA", Peer(e), conn[e].sn)}
    <3>1. /\ Turns(e, n, new) /\ n.sn = conn[e].sn /\ n.phase = conn[e].phase
          /\ n.other = conn[e].other /\ n.doomed = conn[e].doomed
          /\ disturbed' = (disturbed \/ conn[e].phase = "opening")
          /\ conn[e].phase \in {"opening", "open"} /\ UNCHANGED attempts
      BY <2>3, SendTurns DEF Keeps
    <3>2. conn[e].phase # "opening"
      BY <1>2, <3>1, Zenon
    <3>3. /\ conn'[e] = n /\ conn'[Peer(e)] = conn[Peer(e)]
          /\ \A x \in net' : x \in net \/ x \in new
      BY <3>1, TurnsIs
    <3>4. \A d \in Ends : d = e \/ d = Peer(e)
      BY Peers
    <3>5. \A d \in Ends : /\ conn'[d].phase = conn[d].phase /\ conn'[d].sn = conn[d].sn
                          /\ conn'[d].other = conn[d].other /\ conn'[d].doomed = conn[d].doomed
      BY <3>1, <3>3, <3>4
    <3>6. conn'[Client].phase = "opening" => conn'[Client] = c
      BY <2>1, <3>1, <3>2, <3>3, <3>4
    <3>7. UndisturbedConns'
      BY <2>1, <3>1, <3>5, <3>6 DEF UndisturbedConns
    <3>8. \A x \in net : UndisturbedMessage(x)'
      BY <2>1, <3>5, MessagesStay
    <3>9. \A x \in new : UndisturbedMessage(x)'
      <4>1. \A x \in new : x.kind = "DATA" /\ x.to = Peer(e)
        BY MessageFields
      <4>2. Peer(e) = Server => e = Client
        BY <2>1, Peers
      <4>3. QED
        BY <3>2, <3>5, <4>1, <4>2 DEF UndisturbedMessage
    <3>10. QED
      BY <3>3, <3>7, <3>8, <3>9
  <2>4. ASSUME NEW e \in Ends, Close(e)
        PROVE  UndisturbedConns' /\ \A m \in net' : UndisturbedMessage(m)'
    <3>1. PICK n \in Conn :
            /\ Turns(e, n, Unacknowledged(e, n)) /\ n.sn = conn[e].sn
            /\ n.phase = "closing" /\ n.doomed = conn[e].doomed /\ n.other = conn[e].other
            /\ conn[e].phase \in {"opening", "open"}
            /\ n.buffer \subseteq {"DATA", "RST"} /\ UNCHANGED attempts
      BY <2>4, CloseTurns DEF Quiet, Keeps
    <3>2. /\ conn'[e] = n /\ conn'[Peer(e)] = conn[Peer(e)]
          /\ \A x \in net' : x \in net \/ x \in Unacknowledged(e, n)
      BY <3>1, TurnsIs
    <3>3. \A x \in Unacknowledged(e, n) : x.kind \in {"DATA", "RST"} /\ x.to = Peer(e) /\ x.sn = n.sn
      BY <3>1, UnacknowledgedIs
    <3>4. CASE e = Client
      <4>1. conn'[Client] = n /\ conn'[Server] = s
        BY <2>1, <3>2, <3>4
      <4>2. UndisturbedConns'
        BY <2>1, <3>1, <3>4, <4>1 DEF UndisturbedConns
      <4>3. c.sn = 1
        BY <2>1, <3>1, <3>4 DEF UndisturbedConns
      <4>4. \A x \in net' : UndisturbedMessage(x)'
        BY <2>1, <3>1, <3>2, <3>3, <3>4, <4>1, <4>3 DEF UndisturbedMessage
      <4>5. QED
        BY <4>2, <4>4
    <3>5. CASE e = Server
      <4>1. conn'[Client] = c /\ conn'[Server] = n
        BY <2>1, <3>2, <3>5
      <4>2. UndisturbedConns'
        BY <2>1, <3>1, <3>5, <4>1 DEF UndisturbedConns
      <4>3. \A x \in net' : UndisturbedMessage(x)'
        BY <2>1, <3>1, <3>2, <3>3, <3>5, <4>1 DEF UndisturbedMessage
      <4>4. QED
        BY <4>2, <4>3
    <3>6. QED
      BY <3>4, <3>5 DEF Ends
  <2>5. ~\E e \in Ends : ForceClose(e) \/ Crash(e)
    BY <1>2 DEF ForceClose, Crash, Forget
  <2>6. ~\E m \in net : m.kind = "SYN" /\ ReceiveSynForOther(m)
    BY <2>1 DEF UndisturbedConns, UndisturbedMessage, ReceiveSynForOther
  <2>7. ASSUME NEW m \in net, m.kind = "SYN", UNCHANGED attempts, ReceiveSynFirst(m)
        PROVE  UndisturbedConns' /\ \A x \in net' : UndisturbedMessage(x)'
    <3> DEFINE n == NewConn("open", lastSn', m.sn, {})
               new == {Message("SYN-RST", Client, lastSn')}
    <3>1. /\ Turns(Server, n, new) /\ s.phase = "closed" /\ lastSn' = lastSn + 1
      BY <2>7, ReceiveSynFirstTurns
    <3>2. m.sn = 1 /\ c.phase # "open"
      BY <2>1, <2>7, <3>1 DEF UndisturbedConns, UndisturbedMessage
    <3>3. lastSn' \in Nat
      BY <3>1 DEF TypeInv
    <3>4. n.phase = "open" /\ n.sn = lastSn' /\ n.other = 1 /\ ~n.doomed
      BY <3>2, <3>3, NewConnIs
    <3>5. /\ conn'[Server] = n /\ conn'[Client] = c
          /\ \A x \in net' : x \in net \/ x \in new
      BY <2>1, <3>1, TurnsIs
    <3>6. UndisturbedConns'
      BY <2>1, <2>7, <3>2, <3>4, <3>5 DEF UndisturbedConns
    <3>7. \A x \in net : UndisturbedMessage(x)'
      BY <2>1, <3>1, <3>2, <3>4, <3>5 DEF UndisturbedMessage
    <3>8. \A x \in new : UndisturbedMessage(x)'
      BY <2>1, <3>4, <3>5, MessageFields DEF UndisturbedMessage
    <3>9. QED
      BY <3>5, <3>6, <3>7, <3>8
  <2>8. ASSUME NEW m \in net, ReceiveSynRst(m)
        PROVE  UndisturbedConns' /\ \A x \in net' : UndisturbedMessage(x)'
    <3>1. CASE UNCHANGED conn /\ net' \subseteq net /\ Quiet
      BY <2>1, <3>1 DEF UndisturbedConns, UndisturbedMessage, Quiet
    <3>2. ASSUME NEW n, Turns(Client, n, {}), Keeps(Client, n), c.phase = "opening",
                 n.phase = "open", n.other = m.sn, n.doomed = c.doomed,
                 m.kind = "SYN-RST", Quiet
          PROVE  UndisturbedConns' /\ \A x \in net' : UndisturbedMessage(x)'
      <4>1. /\ conn'[Client] = n /\ conn'[Server] = s /\ \A x \in net' : x \in net
            /\ n.sn = c.sn /\ UNCHANGED attempts
        BY <2>1, <3>2, TurnsIs DEF Keeps, Quiet
      <4>2. s.phase # "closed" /\ m.sn = s.sn
        BY <2>1, <3>2 DEF UndisturbedMessage
      <4>3. UndisturbedConns'
        BY <2>1, <3>2, <4>1, <4>2 DEF UndisturbedConns
      <4>4. \A x \in net : UndisturbedMessage(x)'
        BY <2>1, <3>2, <4>1 DEF UndisturbedMessage
      <4>5. QED
        BY <4>1, <4>3, <4>4
    <3>3. QED
      BY <2>8, <3>1, <3>2, ReceiveSynRstTurns
  <2>9. ASSUME NEW m \in net, ReceiveAck(m), ReceiveAckExpected(m)
        PROVE  UndisturbedConns' /\ \A x \in net' : UndisturbedMessage(x)'
    <3>1. m.kind = "ACK" /\ m.to \in Ends /\ UNCHANGED attempts
      BY <2>9 DEF ReceiveAck, TypeInv, MessageInv
    <3>2. PICK n : /\ Turns(m.to, n, {}) /\ Keeps(m.to, n)
                   /\ n.phase = conn[m.to].phase /\ n.other = conn[m.to].other
                   /\ n.doomed = conn[m.to].doomed /\ n.hasSent = conn[m.to].hasSent
      BY <2>9, <3>1, ReceiveAckExpectedTurns
    <3>3. conn'[m.to] = n /\ conn'[Peer(m.to)] = conn[Peer(m.to)] /\ \A x \in net' : x \in net
      BY <3>1, <3>2, TurnsIs
    <3>4. \A d \in Ends : d = m.to \/ d = Peer(m.to)
      BY <3>1, Peers
    <3>5. \A d \in Ends : /\ conn'[d].phase = conn[d].phase /\ conn'[d].sn = conn[d].sn
                          /\ conn'[d].other = conn[d].other /\ conn'[d].doomed = conn[d].doomed
                          /\ conn'[d].hasSent = conn[d].hasSent
      BY <3>2, <3>3, <3>4 DEF Keeps
    <3>6. UndisturbedConns'
      BY <2>1, <3>1, <3>5 DEF UndisturbedConns
    <3>7. \A x \in net : UndisturbedMessage(x)'
      BY <2>1, <3>5, MessagesStay
    <3>8. QED
      BY <3>3, <3>6, <3>7
  <2>10. QED
    BY <1>2, <2>1, <2>2, <2>3, <2>4, <2>5, <2>6, <2>7, <2>8, <2>9, Steps, AnswersUndisturbed,
       OverUndisturbed
<1>3. QED
  BY <1>1, <1>2 DEF Undisturbed

-----------------------------------------------------------------------------
(* The theorems *)

LEMMA InitConnectionInv == Init => ConnectionInv
<1> SUFFICES ASSUME Init
             PROVE  ConnectionInv
  OBVIOUS
<1>1. /\ conn = [e \in Ends |-> NoConn] /\ net = {} /\ log = [e \in Ends |-> <<>>]
      /\ lastSn = 0 /\ missing = {} /\ disturbed = FALSE /\ attempts = 0
  BY DEF Init
<1>2. \A e \in Ends : conn[e] = NoConn
  BY <1>1
<1>3. TypeInv
  <2>1. conn \in [Ends -> Conn] /\ Client \in Ends /\ Server \in Ends
    BY <1>1, NoConnIs DEF Ends
  <2>2. \A e \in Ends : /\ ConnInv(conn[e]) /\ conn[e].phase = "closed"
                         /\ conn[e].sn = 0
    BY <1>2, NoConnIs
  <2>3. 0 \in 0 .. lastSn
    BY <1>1
  <2>4. QED
    BY <1>1, <2>1, <2>2, <2>3 DEF TypeInv
<1>4. LogInv
  BY <1>1, <1>2, NoConnIs DEF LogInv, LogOf
<1>5. DataInv
  BY <1>1 DEF DataInv
<1>6. Undisturbed
  BY <1>1, <1>2, NoConnIs DEF Undisturbed, UndisturbedConns, Ends
<1>7. QED
  BY <1>3, <1>4, <1>5, <1>6 DEF ConnectionInv

\* The invariant of connections.
LEMMA ConnectionInvariant == Spec => []ConnectionInv
<1>1. ConnectionInv /\ [Next]_vars => ConnectionInv'
  <2> SUFFICES ASSUME ConnectionInv, [Next]_vars
               PROVE  ConnectionInv'
    OBVIOUS
  <2>1. CASE Next
    <3>1. TypeInv'
      BY <2>1, StepTypeInv DEF ConnectionInv
    <3>2. LogInv' /\ DataInv' /\ Undisturbed'
      BY <2>1, <3>1, StepLogInv, StepDataInv, StepUndisturbed DEF ConnectionInv
    <3>3. QED
      BY <3>1, <3>2 DEF ConnectionInv
  <2>2. CASE UNCHANGED vars
    <3>1. UNCHANGED <<conn, net, log, lastSn, missing, disturbed, attempts>>
      BY <2>2 DEF vars, history
    <3>2. TypeInv'
      BY <3>1 DEF ConnectionInv, TypeInv, MessageInv
    <3>3. LogInv'
      BY <3>1 DEF ConnectionInv, LogInv
    <3>4. DataInv'
      BY <3>1 DEF ConnectionInv, DataInv, DataMessage
    <3>5. Undisturbed'
      BY <3>1 DEF ConnectionInv, Undisturbed, UndisturbedConns, UndisturbedMessage
    <3>6. QED
      BY <3>2, <3>3, <3>4, <3>5 DEF ConnectionInv
  <2>3. QED
    BY <2>1, <2>2
<1>2. QED
  BY InitConnectionInv, <1>1, PTL DEF Spec

\* What the application of each end is told fits together, whatever packets, timers and
\* calls come in whatever order: at most one answer to connect, then at most one
\* disconnect event, as EmiConn promises.
THEOREM EventsFitTogether == Spec => []EventsWellFormed
<1>1. ConnectionInv => EventsWellFormed
  <2> SUFFICES ASSUME ConnectionInv
               PROVE  EventsWellFormed
    OBVIOUS
  <2>1. TypeOK
    BY DEF ConnectionInv, TypeInv, ConnInv, Conn, MessageInv, TypeOK
  <2>2. \A e \in Ends : LogOf(conn[e], log[e]) /\ conn[e].phase \in {"closed", "opening", "open", "closing"}
    BY DEF ConnectionInv, LogInv, TypeInv, Conn
  <2>3. QED
    BY <2>1, <2>2 DEF EventsWellFormed, LogOf
<1>2. QED
  BY ConnectionInvariant, <1>1, PTL

\* A connection is closed gracefully: its RST leaves only after everything it sent
\* reliably was received, as EmiConn::close() promises.
THEOREM RstLeavesLast == Spec => []RstAfterData
<1>1. ConnectionInv => RstAfterData
  BY DEF ConnectionInv, DataInv, DataMessage, RstAfterData
<1>2. QED
  BY ConnectionInvariant, <1>1, PTL

\* As long as neither end forgot a connection, connected again, or sent data before its
\* connection was open, both ends mean the same connection.
THEOREM BothMeanTheSame == Spec => []OpenAgree
<1>1. ConnectionInv => OpenAgree
  BY DEF ConnectionInv, Undisturbed, UndisturbedConns, OpenAgree, Agree
<1>2. QED
  BY ConnectionInvariant, <1>1, PTL

\* Under the same condition, an open connection that is told that the other host closed
\* is told the truth, and has received everything the other host sent.
THEOREM ToldTheTruth == Spec => OtherHostClosedIsTrue
<1> DEFINE True(e) ==
      ~disturbed /\ conn[e].phase = "open" /\ Told(e, "other host closed") =>
      /\ conn[Peer(e)].phase \in {"closing", "closed"}
      /\ conn[Peer(e)].phase = "closing" => conn[Peer(e)].sn \notin missing
<1>1. ConnectionInv /\ [Next]_vars => \A e \in Ends : True(e)
  <2> SUFFICES ASSUME ConnectionInv, [Next]_vars, NEW e \in Ends, ~disturbed,
                      conn[e].phase = "open", Told(e, "other host closed")
               PROVE  /\ conn[Peer(e)].phase \in {"closing", "closed"}
                      /\ conn[Peer(e)].phase = "closing" => conn[Peer(e)].sn \notin missing
    OBVIOUS
  <2>1. /\ TypeInv /\ DataInv /\ UndisturbedConns /\ \A m \in net : UndisturbedMessage(m)
        /\ log = [d \in Ends |-> log[d]] /\ log[e] = <<"opened">>
        /\ Client # Server /\ Peer(Client) = Server /\ Peer(Server) = Client
    BY DEF ConnectionInv, Undisturbed, LogInv, LogOf, Client, Server, Peer
  <2>2. log'[e] # log[e] /\ log'[e] # <<>> /\ Last(log'[e]) = "other host closed"
    BY DEF Told
  <2>3. Next
    BY <2>2 DEF vars
  <2>4. ~Connect
    BY <2>1, <2>2 DEF Connect
  <2>5. ASSUME NEW d \in Ends
        PROVE  ~(Send(d) \/ Close(d) \/ ForceClose(d) \/ Crash(d))
    BY <2>1, <2>2, <2>5 DEF Send, Close, ForceClose, Crash
  <2>6. ASSUME NEW m \in net
        PROVE  ~(ReceiveSynForOther(m) \/ ReceiveSynFirst(m))
    BY <2>1, <2>2, <2>6 DEF ReceiveSynForOther, ReceiveSynFirst
  <2>7. ASSUME NEW m \in net
        PROVE  ~(ReceiveSynRst(m) \/ ReceiveAck(m))
    BY <2>1, <2>2, <2>7 DEF ReceiveSynRst, ReceiveAck
  <2>8. ~Answers
    BY <2>2 DEF Answers
  <2>9. PICK d \in Ends, reason \in Reasons : Over(d, reason)
    BY <2>1, <2>3, <2>4, <2>5, <2>6, <2>7, <2>8, Steps
  <2>10. d = e /\ log'[e] = Append(log[e], reason)
    BY <2>1, <2>2, <2>9 DEF Over
  <2>11. reason = "other host closed"
    <3>1. log'[e] = <<"opened", reason>>
      BY <2>1, <2>10, EventSequences DEF Reasons
    <3>2. QED
      BY <2>2, <3>1, LastOfTwo
  <2>12. PICK m \in net : m.to = e /\ m.kind \in {"RST", "SYN-RST-ACK"}
    <3>1. ~conn[e].doomed
      BY <2>1 DEF UndisturbedConns, Ends
    <3>2. QED
      BY <2>9, <2>10, <2>11, <3>1 DEF Over
  <2>13. UndisturbedMessage(m) /\ DataMessage(m)
    BY <2>1 DEF DataInv
  <2>14. CASE e = Client
    BY <2>1, <2>12, <2>13, <2>14 DEF UndisturbedMessage, DataMessage
  <2>15. CASE e = Server
    <3>1. conn[Client].phase \in {"closed", "opening", "open", "closing"}
      BY <2>1 DEF TypeInv, Conn, Ends
    <3>2. conn[Client].phase \in {"closing", "closed"}
      BY <2>1, <2>12, <2>13, <2>15, <3>1 DEF UndisturbedMessage
    <3>3. conn[Client].phase = "closing" => conn[Client].sn \notin missing
      BY <2>1, <2>12, <2>13, <2>15 DEF UndisturbedMessage, UndisturbedConns, DataMessage
    <3>4. QED
      BY <2>1, <2>15, <3>2, <3>3
  <2>16. QED
    BY <2>14, <2>15 DEF Ends
<1>2. ConnectionInv /\ [Next]_vars => [\A e \in Ends : True(e)]_vars
  BY <1>1
<1>3. QED
  BY ConnectionInvariant, <1>2, PTL DEF Spec, OtherHostClosedIsTrue
=============================================================================

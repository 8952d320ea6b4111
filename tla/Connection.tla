------------------------------ MODULE Connection ------------------------------
(***************************************************************************)
(* The life of client-server connections between one client address and a  *)
(* server socket: EmiSock, EmiConn, EmiLogicalConnection and               *)
(* EmiMessageHandler, from the SYN to the disconnect event, over a network *)
(* that loses, delays, reorders and duplicates packets, between processes  *)
(* that may forget a connection the other one still has.                   *)
(*                                                                         *)
(* All attempts use the same client port: the operating system may pick it *)
(* again, as the comment above EmiConn::forceClose() warns.  A connection  *)
(* is known by its initial sequence number, random in the code and a fresh *)
(* number here.  The reliable messages that each end sends are one burst   *)
(* of data; what a channel does with it is the module ReliableOrdered.     *)
(***************************************************************************)
EXTENDS Naturals, FiniteSets, SequencesExt

CONSTANTS
  MaxAttempts,     \* bound: calls of connect
  MaxForgets,      \* bound: crashes, calls of forceClose(), and connection
                   \* timeouts although the peer has a connection
  MaxDuplicates,   \* bound: packets that the network duplicates
  MaxBursts,       \* bound: connections over which data is sent, and ...
  MaxCalls,        \* bound: ... calls of connect and such connections together
  MaxInFlight,     \* bound: messages that the network holds, and ...
  MaxAlike         \* bound: ... those of one kind to one end; it loses the others

ASSUME ConnectionAssumption ==
  /\ MaxAttempts \in Nat /\ MaxForgets \in Nat /\ MaxDuplicates \in Nat
  /\ MaxBursts \in Nat /\ MaxCalls \in Nat /\ MaxInFlight \in Nat /\ MaxAlike \in Nat

Client == "client"
Server == "server"
Ends   == {Client, Server}
Peer(e) == IF e = Client THEN Server ELSE Client

VARIABLES
  conn,         \* the connection object of each end
  net,          \* messages in the network
  log,          \* events given to the application about the latest connection
  lastSn,       \* the latest initial sequence number generated
  missing,      \* connections whose data was sent and not received (history)
  disturbed,    \* an end forgot a connection, connected again, or sent data
                \* before the connection was open (history)
  attempts, forgets, duplicates, bursts   \* what was used of the bounds

history == <<missing, disturbed>>
vars    == <<conn, net, log, lastSn, history, attempts, forgets, duplicates, bursts>>

\* No connection object, or one whose _conn is NULL.  doomed: _forceCloseTimer
\* is scheduled; hasSent and byApp: the application sent data, and it closed or
\* force closed the connection (history).
NoConn == [phase |-> "closed", sn |-> 0, other |-> 0, buffer |-> {},
           doomed |-> FALSE, hasSent |-> FALSE, byApp |-> FALSE]

\* A new logical connection.
NewConn(p, sn, other, buffer) ==
  [NoConn EXCEPT !.phase = p, !.sn = sn, !.other = other, !.buffer = buffer]

Init ==
  /\ conn = [e \in Ends |-> NoConn] /\ net = {} /\ log = [e \in Ends |-> <<>>]
  /\ lastSn = 0 /\ missing = {} /\ disturbed = FALSE
  /\ attempts = 0 /\ forgets = 0 /\ duplicates = 0 /\ bursts = 0

-----------------------------------------------------------------------------
(* Helpers *)

Message(kind, to, sn) == [kind |-> kind, to |-> to, sn |-> sn]

\* The SYN-RST-ACK packet is the only one without a number.
SynRstAck(to) == Message("SYN-RST-ACK", to, 0)

\* What connection c of end e has in its sender buffer, as messages.
Unacknowledged(e, c) == {Message(kind, Peer(e), c.sn) : kind \in c.buffer}

\* A server socket is always there; a closed client has deleted its socket.
Hears(e) == e = Server \/ conn[e].phase # "closed"

\* Messages enter the network, as long as it can hold them.
With(messages, new) ==
  LET alike(m)  == {x \in messages : x.kind = m.kind /\ x.to = m.to /\ x # m}
      accepted  == {m \in new : Cardinality(alike(m)) < MaxAlike}
  IN IF Cardinality(messages \cup accepted) <= MaxInFlight
     THEN messages \cup accepted ELSE messages

\* Message m leaves the network, unless the network duplicated it, and new
\* messages enter it.
Exchange(m, new) ==
  /\ m \in net /\ Hears(m.to)
  /\ \/ net' = With(net \ {m}, new) /\ UNCHANGED duplicates
     \/ duplicates < MaxDuplicates /\ duplicates' = duplicates + 1 /\ net' = With(net, new)

\* EmiConn::deregisterReliableMessages.  A connection that is closing sends its
\* RST when, and only when, nothing else waits for an acknowledgement.  The
\* mutants send it at once, and not at all when the last acknowledgement comes.
ReleaseAtOnce(c, kind) ==
  [c EXCEPT !.buffer = IF c.phase = "closing" THEN (@ \ {kind}) \cup {"RST"}
                       ELSE @ \ {kind}]
ReleaseOnly(c, kind) == [c EXCEPT !.buffer = @ \ {kind}]
Release(c, kind) ==
  [c EXCEPT !.buffer = IF c.phase = "closing" /\ @ \subseteq {kind}
                       THEN {"RST"} ELSE @ \ {kind}]

\* EmiConn::forceClose(reason): the connection callback, if it is still due,
\* then the disconnect event, and the connection is gone.  The mutant forgets
\* the callback.
ForceClosedSilently(e, reason) ==
  /\ conn' = [conn EXCEPT ![e] = NoConn]
  /\ log' = [log EXCEPT ![e] = Append(@, reason)]
ForceClosed(e, reason) ==
  /\ conn' = [conn EXCEPT ![e] = NoConn]
  /\ log' = [log EXCEPT ![e] =
               IF conn[e].phase = "opening" THEN @ \o <<"failed", reason>>
               ELSE Append(@, reason)]

\* An end loses a connection that its peer may still have.
Forget == forgets < MaxForgets /\ forgets' = forgets + 1 /\ disturbed' = TRUE

-----------------------------------------------------------------------------
(* What the application does *)

\* EmiSock::connect: the SYN is sent reliably.
Connect ==
  /\ conn[Client].phase = "closed"
  /\ attempts < MaxAttempts /\ attempts + bursts < MaxCalls /\ attempts' = attempts + 1
  /\ lastSn' = lastSn + 1
  /\ conn' = [conn EXCEPT ![Client] = NewConn("opening", lastSn', 0, {"SYN"})]
  /\ net' = With(net, Unacknowledged(Client, conn'[Client]))
  /\ log' = [log EXCEPT ![Client] = <<>>]
  /\ disturbed' = (disturbed \/ attempts > 0)
  /\ UNCHANGED <<missing, forgets, duplicates, bursts>>

\* EmiConn::send on a reliable channel; one burst for each connection.
Send(e) ==
  /\ conn[e].phase \in {"opening", "open"} /\ ~conn[e].hasSent
  /\ bursts < MaxBursts /\ attempts + bursts < MaxCalls /\ bursts' = bursts + 1
  /\ conn' = [conn EXCEPT ![e].buffer = @ \cup {"DATA"}, ![e].hasSent = TRUE]
  /\ net' = With(net, {Message("DATA", Peer(e), conn[e].sn)})
  /\ missing' = missing \cup {conn[e].sn}
  /\ disturbed' = (disturbed \/ conn[e].phase = "opening")
  /\ UNCHANGED <<log, lastSn, attempts, forgets, duplicates>>

\* EmiConn::close: a handshake is given up, and its callback told; the RST
\* follows when the sender buffer is empty.  It fails on a closing connection.
Close(e) ==
  /\ conn[e].phase \in {"opening", "open"}
  /\ conn' = [conn EXCEPT ![e] =
                Release([@ EXCEPT !.phase = "closing", !.byApp = TRUE], "SYN")]
  /\ net' = With(net, Unacknowledged(e, conn'[e]))
  /\ log' = [log EXCEPT ![e] = IF conn[e].phase = "opening" THEN Append(@, "failed")
                               ELSE @]
  /\ UNCHANGED <<lastSn, history, attempts, forgets, duplicates, bursts>>

\* EmiConn::forceClose(), which never tells the other host.
ForceClose(e) ==
  /\ conn[e].phase # "closed" /\ ~conn[e].doomed
  /\ conn' = [conn EXCEPT ![e].doomed = TRUE, ![e].byApp = TRUE]
  /\ Forget
  /\ UNCHANGED <<net, log, lastSn, missing, attempts, duplicates, bursts>>

-----------------------------------------------------------------------------
(* Timers and failures *)

\* EmiConn::forceCloseTimeoutCallback.
ForceCloseTimeout(e) ==
  /\ conn[e].doomed
  /\ ForceClosed(e, "this host closed")
  /\ UNCHANGED <<net, lastSn, history, attempts, forgets, duplicates, bursts>>

\* The RTO timer: what waits for an acknowledgement is sent again.
RtoTimeout(e) ==
  /\ conn[e].buffer # {}
  /\ net' = With(net, Unacknowledged(e, conn[e]))
  /\ UNCHANGED <<conn, log, lastSn, history, attempts, forgets, duplicates, bursts>>

\* The connection timer: nothing was heard from the other host for long,
\* because it has no connection or because the network was down.
ConnectionTimeout(e) ==
  /\ conn[e].phase # "closed"
  /\ ForceClosed(e, "timed out")
  /\ \/ conn[Peer(e)].phase = "closed" /\ UNCHANGED <<forgets, disturbed>>
     \/ conn[Peer(e)].phase # "closed" /\ Forget
  /\ UNCHANGED <<net, lastSn, missing, attempts, duplicates, bursts>>

\* The process of one end restarts: nothing is persistent.
Crash(e) ==
  /\ conn[e].phase # "closed"
  /\ conn' = [conn EXCEPT ![e] = NoConn]
  /\ log' = [log EXCEPT ![e] = <<>>]
  /\ Forget
  /\ UNCHANGED <<net, lastSn, missing, attempts, duplicates, bursts>>

\* The network loses a message.
Lose(m) ==
  /\ net' = net \ {m}
  /\ UNCHANGED <<conn, log, lastSn, history, attempts, forgets, duplicates, bursts>>

-----------------------------------------------------------------------------
(* Incoming messages: EmiMessageHandler::processMessage *)

\* A SYN for another connection than the one that is open: the open one is
\* force closed and the packet dropped; the client will send the SYN again.  The
\* mutant keeps the open one.
ReceiveSynForOtherKept(m) ==
  /\ conn[Server].phase = "open" /\ conn[Server].other # m.sn
  /\ Exchange(m, {})
  /\ UNCHANGED <<conn, log, lastSn>>
ReceiveSynForOther(m) ==
  /\ conn[Server].phase = "open" /\ conn[Server].other # m.sn
  /\ Exchange(m, {})
  /\ conn' = [conn EXCEPT ![Server].doomed = TRUE]
  /\ UNCHANGED <<log, lastSn>>

\* EmiSock::makeServerConnection, and EmiConn::opened for the first time.
ReceiveSynFirst(m) ==
  /\ conn[Server].phase = "closed"
  /\ lastSn' = lastSn + 1
  /\ conn' = [conn EXCEPT ![Server] = NewConn("open", lastSn', m.sn, {})]
  /\ Exchange(m, {Message("SYN-RST", Client, lastSn')})
  /\ log' = [log EXCEPT ![Server] = <<"opened">>]

\* EmiConn::opened later on, which only sends the SYN-RST again, whatever SYN
\* came if the connection is closing.  The mutant makes a new logical connection.
AnswerRenewed(m) ==
  /\ lastSn' = lastSn + 1
  /\ conn' = [conn EXCEPT ![Server].sn = lastSn']
  /\ Exchange(m, {Message("SYN-RST", Client, lastSn')})
Answer(m) ==
  /\ Exchange(m, {Message("SYN-RST", Client, conn[Server].sn)})
  /\ UNCHANGED <<conn, lastSn>>
ReceiveSynAgain(m) ==
  /\ \/ conn[Server].phase = "open" /\ conn[Server].other = m.sn
     \/ conn[Server].phase = "closing"
  /\ Answer(m)
  /\ UNCHANGED log

ReceiveSyn(m) ==
  /\ m.kind = "SYN"
  /\ ReceiveSynForOther(m) \/ ReceiveSynFirst(m) \/ ReceiveSynAgain(m)
  /\ UNCHANGED <<history, attempts, forgets, bursts>>

\* The server accepted.  Only a client that is opening listens, and it does not
\* look which SYN the answer is for.
ReceiveSynRst(m) ==
  /\ m.kind = "SYN-RST"
  /\ Exchange(m, {})
  /\ IF conn[Client].phase = "opening"
     THEN /\ conn' = [conn EXCEPT ![Client] =
                        [Release(@, "SYN") EXCEPT !.phase = "open", !.other = m.sn]]
          /\ log' = [log EXCEPT ![Client] = Append(@, "opened")]
     ELSE UNCHANGED <<conn, log>>
  /\ UNCHANGED <<lastSn, history, attempts, forgets, bursts>>

\* A host without a connection answers data and acknowledgements with a
\* SYN-RST-ACK.
ReceiveUnexpected(m) ==
  /\ conn[m.to].phase = "closed"
  /\ Exchange(m, {SynRstAck(Peer(m.to))})
  /\ UNCHANGED <<conn, missing>>

\* Data with the numbers this end expects is delivered and acknowledged; other
\* data is kept back or taken for old, and its sender cannot make anything of
\* the acknowledgement.  The mutant takes a connection that is still opening
\* for none.
AnswerDataIfOpen(m) ==
  IF conn[m.to].phase = "opening" THEN Exchange(m, {SynRstAck(Peer(m.to))})
  ELSE Exchange(m, {Message("ACK", Peer(m.to), o) : o \in {m.sn} \cap {conn[m.to].other}})
AnswerData(m) ==
  Exchange(m, {Message("ACK", Peer(m.to), o) : o \in {m.sn} \cap {conn[m.to].other}})
ReceiveExpected(m) ==
  /\ conn[m.to].phase # "closed"
  /\ AnswerData(m)
  /\ missing' = missing \ ({m.sn} \cap {conn[m.to].other})
  /\ UNCHANGED conn

ReceiveData(m) ==
  /\ m.kind = "DATA"
  /\ ReceiveUnexpected(m) \/ ReceiveExpected(m)
  /\ UNCHANGED <<log, lastSn, disturbed, attempts, forgets, bursts>>

\* An acknowledgement; m.sn is the connection whose data it is for.
ReceiveAckExpected(m) ==
  /\ conn[m.to].phase # "closed"
  /\ Exchange(m, {})
  /\ conn' = [conn EXCEPT ![m.to] = IF m.sn = @.sn THEN Release(@, "DATA") ELSE @]
  /\ UNCHANGED missing

ReceiveAck(m) ==
  /\ m.kind = "ACK"
  /\ ReceiveUnexpected(m) \/ ReceiveAckExpected(m)
  /\ UNCHANGED <<log, lastSn, disturbed, attempts, forgets, bursts>>

\* The other host closes: whatever connection it means, it is answered, and the
\* connection of this address, if there is one, is closed.  The mutant answers
\* only while there is a connection.
AnswerRstIfOpen(m) ==
  Exchange(m, IF conn[m.to].phase = "closed" THEN {} ELSE {SynRstAck(Peer(m.to))})
AnswerRst(m) == Exchange(m, {SynRstAck(Peer(m.to))})
ReceiveRst(m) ==
  /\ m.kind = "RST"
  /\ AnswerRst(m)
  /\ IF conn[m.to].phase = "closed" THEN UNCHANGED <<conn, log>>
     ELSE ForceClosed(m.to, "other host closed")
  /\ UNCHANGED <<lastSn, history, attempts, forgets, bursts>>

ReceiveSynRstAck(m) ==
  /\ m.kind = "SYN-RST-ACK"
  /\ Exchange(m, {})
  /\ CASE conn[m.to].phase = "closed"  -> UNCHANGED <<conn, log>>
       [] conn[m.to].phase = "closing" -> ForceClosed(m.to, "this host closed")
       [] OTHER                        -> ForceClosed(m.to, "other host closed")
  /\ UNCHANGED <<lastSn, history, attempts, forgets, bursts>>

-----------------------------------------------------------------------------
Next ==
  \/ Connect
  \/ \E e \in Ends :
       \/ Send(e) \/ Close(e) \/ ForceClose(e)
       \/ ForceCloseTimeout(e) \/ RtoTimeout(e) \/ ConnectionTimeout(e) \/ Crash(e)
  \/ \E m \in net :
       \/ Lose(m)
       \/ ReceiveSyn(m) \/ ReceiveSynRst(m) \/ ReceiveData(m) \/ ReceiveAck(m)
       \/ ReceiveRst(m) \/ ReceiveSynRstAck(m)

Spec == Init /\ [][Next]_vars

(***************************************************************************)
(* What brings the client's calls to an end: the RTO timer runs while the  *)
(* sender buffer holds anything, the zero timer of forceClose fires once   *)
(* it is scheduled, and a packet that is sent over and over gets through,  *)
(* over a network that keeps the connection alive.  The connection timer   *)
(* may fire or not; nothing makes the application act; nothing has to      *)
(* fail.                                                                   *)
(***************************************************************************)
Fairness ==
  /\ WF_vars(RtoTimeout(Client))
  /\ WF_vars(ForceCloseTimeout(Server))
  /\ SF_vars(\E m \in net : m.to = Server /\ ReceiveSyn(m))
  /\ SF_vars(\E m \in net : m.to = Server /\ ReceiveData(m))
  /\ SF_vars(\E m \in net : m.to = Server /\ ReceiveRst(m))
  /\ SF_vars(\E m \in net : m.to = Client /\ ReceiveSynRst(m))
  /\ SF_vars(\E m \in net : m.to = Client /\ ReceiveAck(m))
  /\ SF_vars(\E m \in net : m.to = Client /\ ReceiveSynRstAck(m))

FairSpec == Spec /\ Fairness

-----------------------------------------------------------------------------
(* Properties *)

Reasons == {"this host closed", "other host closed", "timed out"}

\* The types of the state, and what goes with the phase: a client waits for the
\* answer to its SYN exactly while it is opening, and the RST is alone in the
\* sender buffer of a closing connection.
TypeOK ==
  /\ conn \in [Ends -> [phase : {"closed", "opening", "open", "closing"},
                        sn : Nat, other : Nat,
                        buffer : SUBSET {"SYN", "DATA", "RST"},
                        doomed : BOOLEAN, hasSent : BOOLEAN, byApp : BOOLEAN]]
  /\ \A e \in Ends :
        /\ "SYN" \in conn[e].buffer <=> conn[e].phase = "opening"
        /\ "RST" \in conn[e].buffer => conn[e].buffer = {"RST"}
        /\ conn[e].phase = "closing" => conn[e].buffer # {}
        /\ conn[e].phase = "closed" => conn[e] = NoConn
  /\ conn[Server].phase # "opening"
  /\ \A m \in net : m.to \in Ends /\ m.sn \in 0 .. lastSn

\* What the application of each end is told fits together, in whatever order
\* packets, timers and calls come: the connection callback exactly once, then
\* the disconnect event exactly once, and nothing after that.
EventsWellFormed ==
  /\ TypeOK
  /\ \A e \in Ends :
       /\ conn[e].phase = "opening" => log[e] = <<>>
       /\ conn[e].phase = "open"    => log[e] = <<"opened">>
       /\ conn[e].phase = "closing" => log[e] \in {<<"opened">>, <<"failed">>}
       /\ conn[e].phase = "closed"  =>
            log[e] = <<>> \/ \E c \in {"opened", "failed"}, r \in Reasons : log[e] = <<c, r>>

\* A connection is closed gracefully: its RST leaves only after everything it
\* sent reliably was received by a connection of the other host.
RstAfterData ==
  \A m \in net : m.kind = "RST" => m.sn \notin missing

\* Both ends mean the same connection, as long as neither forgot one: the
\* numbers each expects of the other are those the other uses.
Agree == conn[Client].other = conn[Server].sn /\ conn[Server].other = conn[Client].sn
OpenAgree ==
  ~disturbed /\ conn[Client].phase = "open" /\ conn[Server].phase # "closed" => Agree

\* This step tells the application of end e why its connection ended.
Told(e, reason) == log'[e] # log[e] /\ log'[e] # <<>> /\ Last(log'[e]) = reason

\* An open connection that hears that the other host closed is told the truth,
\* as long as neither forgot a connection: the connection over there is closing
\* or gone, and if it is closing, everything it sent has arrived.
OtherHostClosedIsTrue ==
  [][\A e \in Ends :
       ~disturbed /\ conn[e].phase = "open" /\ Told(e, "other host closed") =>
       /\ conn[Peer(e)].phase \in {"closing", "closed"}
       /\ conn[Peer(e)].phase = "closing" => conn[Peer(e)].sn \notin missing]_vars

\* EmiLogicalConnection::gotSynRstAck takes care not to give "this host closed"
\* as the reason to an application that did not close the connection, which
\* "could potentially be really confusing".
ThisHostClosedIsTrue ==
  [][\A e \in Ends : Told(e, "this host closed") => conn[e].byApp]_vars

\* connect() is answered in the end, however often the SYN or its answer is
\* lost and whatever the server still knows of an earlier connection.
ConnectAnswered == conn[Client].phase = "opening" ~> conn[Client].phase # "opening"

\* close() on the client comes to an end, even when the server forgets the
\* connection, or accepts it a second time from a late SYN.  This is about the
\* first attempt: after a second one the two ends may mean different connections,
\* and only the connection timer helps a client whose data waits for a connection
\* that the server does not know.
CloseFinishes ==
  (conn[Client].phase = "closing" /\ attempts = 1) ~> conn[Client].phase # "closing"
=============================================================================

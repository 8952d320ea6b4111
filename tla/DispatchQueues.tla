----------------------------- MODULE DispatchQueues -----------------------------
(***************************************************************************)
(* The Objective-C binding runs a listening socket on one serial dispatch  *)
(* queue, each connection on one of its own, and the application on a      *)
(* third, the delegate queue.  Modelled are the life of server connections *)
(* across these queues: who may run while whom waits, who holds a          *)
(* reference to a connection, and when its C++ object is deleted.          *)
(*                                                                         *)
(* A queue takes its blocks in order and runs one at a time; a block that  *)
(* dispatches synchronously holds its own queue until the other block has  *)
(* run.  Of the connection itself only what decides this is kept: whether  *)
(* there is a logical connection, and which timers run.                    *)
(***************************************************************************)
EXTENDS Integers, Sequences, FiniteSets

CONSTANTS
  Hosts,            \* addresses that packets come from
  ConnectionQueue,  \* the queue of each connection, 1, 2, ... in the order they are made
  DelegateQueue,    \* the queue that the application gives to the socket and its connections
  MaxArrivals,      \* bound: packets that come
  MaxCalls          \* bound: calls of the application

SocketQueue == "socket"
Nobody      == "nobody"
Conns       == DOMAIN ConnectionQueue
ConnQueues  == {ConnectionQueue[c] : c \in Conns}
Queues      == {SocketQueue, DelegateQueue} \cup ConnQueues
NoConn      == 0

\* The application supplies what queues it likes, also one for all.  By default the socket
\* and each connection make one of their own.
ASSUME DispatchQueuesAssumption ==
  /\ ConnectionQueue \in Seq(ConnQueues)
  /\ Nobody \notin Hosts \cup Queues
  /\ {MaxArrivals, MaxCalls} \subseteq Nat

VARIABLES
  conn,         \* the connection objects
  serverConns,  \* _serverConns of the socket
  queue,        \* blocks that each queue still has to run
  thread,       \* the block that each queue runs, its next step, and the queue it waits for
  early,        \* connections force closed while the socket still opens them (history)
  arrivals, calls   \* what was used of the bounds

vars == <<conn, serverConns, queue, thread, early, arrivals, calls>>

Block(kind, c, what, from) == [kind |-> kind, conn |-> c, what |-> what, from |-> from]
Idle == [block |-> Block("none", NoConn, "nothing", Nobody), step |-> "none", waits |-> Nobody]

\* logical: there is an EmiLogicalConnection ("open"), not yet or not any more.
\* delegate: EmiConnDelegate has its strong reference.  refs: the retain count.
\* listened, told: the application set a delegate before the connection was invalidated,
\* and was told that it was closed.
Unmade == [host |-> Nobody, alive |-> FALSE, logical |-> "none", delegate |-> FALSE, refs |-> 0,
           delegateQueue |-> FALSE, timers |-> {}, kept |-> FALSE,
           listened |-> FALSE, told |-> FALSE]

Init ==
  /\ conn = [c \in Conns |-> Unmade]
  /\ serverConns = [h \in Hosts |-> NoConn]
  /\ queue = [q \in Queues |-> <<>>] /\ thread = [q \in Queues |-> Idle]
  /\ early = {} /\ arrivals = 0 /\ calls = 0

-----------------------------------------------------------------------------
(* Grand Central Dispatch and reference counting *)

\* The objects and the queues, after a step.
Becomes(s) == conn' = s.conn /\ queue' = s.queue
Now == [conn |-> conn, queue |-> queue]

Enqueued(s, q, b) == [s EXCEPT !.queue[q] = Append(@, b)]

\* The next block of q is of this kind; what is left when q has taken it.
Takes(q, kind) == thread[q] = Idle /\ queue[q] # <<>> /\ Head(queue[q]).kind = kind
Taken(q) == [Now EXCEPT !.queue[q] = Tail(@)]

\* The block b that q runs ends, and whoever waits for it goes on.
Finishes(q, b) ==
  LET t == [thread EXCEPT ![q] = Idle] IN
  thread' = IF b.from = Nobody THEN t ELSE [t EXCEPT ![b.from].waits = Nobody]

\* The block b of q dispatched to another queue synchronously.
Waits(q, b, step, other) ==
  thread' = [thread EXCEPT ![q] = [block |-> b, step |-> step, waits |-> other]]
Resumes(q, step) == thread[q].step = step /\ thread[q].waits = Nobody

\* DISPATCH_SYNC runs the block at once when it is called on its queue.  The mutant is
\* dispatch_sync.
InlineNever(q, other) == FALSE
Inline(q, other) == q = other

\* A timer runs on the queue of its connection, and is scheduled there while block b of q
\* goes on to this step.
Schedule(c, timer, from) == Block("schedule", c, timer, from)
Scheduled(s, c, timer) == [s EXCEPT !.conn[c].timers = @ \cup {timer}]
Schedules(s, q, b, step, c, timer) ==
  LET to == ConnectionQueue[c] IN
  \/ Inline(q, to) /\ Becomes(Scheduled(s, c, timer)) /\ Waits(q, b, step, Nobody)
  \/ /\ ~Inline(q, to)
     /\ Becomes(Enqueued(s, to, Schedule(c, timer, q))) /\ Waits(q, b, step, to)

\* EmiConnection's dealloc, when its last reference goes: the C++ object is deleted by a
\* block behind all others that use it.  The mutants delete it at once, and never.
DeallocAtOnce(s, c) == [s EXCEPT !.conn[c].alive = FALSE, !.conn[c].timers = {}]
DeallocNever(s, c) == s
Dealloc(s, c) == Enqueued(s, ConnectionQueue[c], Block("delete", c, "nothing", Nobody))

Retained(s, c) == [s EXCEPT !.conn[c].refs = @ + 1]
Released(s, c) ==
  LET t == [s EXCEPT !.conn[c].refs = @ - 1] IN
  IF t.conn[c].refs = 0 THEN Dealloc(t, c) ELSE t

-----------------------------------------------------------------------------
(* The socket's queue *)

Packet(type, h) == Block("packet", NoConn, <<type, h>>, Nobody)

\* A packet for a connection is passed on to its queue, with a pointer to it.
PassOn ==
  /\ Takes(SocketQueue, "packet")
  /\ LET b == Head(queue[SocketQueue])
         c == serverConns[b.what[2]]
     IN /\ c # NoConn
        /\ Becomes(Enqueued(Taken(SocketQueue), ConnectionQueue[c],
                            Block("message", c, b.what[1], Nobody)))
        /\ Finishes(SocketQueue, b)
  /\ UNCHANGED <<serverConns, early, arrivals, calls>>

\* Other packets of unknown hosts are errors, or answered by SYN-RST-ACK.  (Bound: there
\* are no more connections than Conns.)
Stray ==
  /\ Takes(SocketQueue, "packet")
  /\ LET b == Head(queue[SocketQueue]) IN
     /\ serverConns[b.what[2]] = NoConn
     /\ b.what[1] # "SYN" \/ \A c \in Conns : conn[c] # Unmade
     /\ Becomes(Taken(SocketQueue)) /\ Finishes(SocketQueue, b)
  /\ UNCHANGED <<serverConns, early, arrivals, calls>>

\* The constructor schedules the connection timer on the queue of the connection.
Accept ==
  /\ Takes(SocketQueue, "packet")
  /\ LET b == Head(queue[SocketQueue]) IN
     /\ serverConns[b.what[2]] = NoConn /\ b.what[1] = "SYN"
     /\ \E c \in Conns :
          /\ conn[c] = Unmade /\ \A d \in 1 .. c - 1 : conn[d] # Unmade
          /\ Schedules(
               [Taken(SocketQueue) EXCEPT !.conn[c] =
                  [Unmade EXCEPT !.host = b.what[2], !.alive = TRUE, !.delegate = TRUE, !.refs = 1]],
               SocketQueue, [b EXCEPT !.conn = c], "constructing", c, "connection")
  /\ UNCHANGED <<serverConns, early, arrivals, calls>>

\* The application is going to be told, and opening schedules a tick and sends SYN-RST.
MakeServerConnection ==
  /\ Resumes(SocketQueue, "constructing")
  /\ LET b == thread[SocketQueue].block
         c == b.conn
     IN /\ serverConns' = [serverConns EXCEPT ![conn[c].host] = c]
        /\ Schedules(Enqueued(Now, DelegateQueue, Block("gotConnection", c, "nothing", Nobody)),
                     SocketQueue, b, "opening", c, "tick")
  /\ UNCHANGED <<early, arrivals, calls>>

\* There is a logical connection; its connection timer is scheduled anew.
Opened ==
  /\ Resumes(SocketQueue, "opening")
  /\ LET b == thread[SocketQueue].block
         c == b.conn
     IN Schedules([Now EXCEPT !.conn[c].logical = "open"],
                  SocketQueue, b, "opened", c, "connection")
  /\ UNCHANGED <<serverConns, early, arrivals, calls>>

\* deregisterServerConnection erases the address of the connection.
Deregister ==
  /\ Takes(SocketQueue, "deregister")
  /\ LET b == Head(queue[SocketQueue]) IN
     /\ serverConns' = [serverConns EXCEPT ![conn[b.conn].host] = NoConn]
     /\ Becomes(Taken(SocketQueue)) /\ Finishes(SocketQueue, b)
  /\ UNCHANGED <<early, arrivals, calls>>

\* A block that waited at its end.
Return(q) ==
  /\ \E step \in {"opened", "called", "closing"} : Resumes(q, step)
  /\ Finishes(q, thread[q].block)
  /\ UNCHANGED <<conn, serverConns, queue, early, arrivals, calls>>

-----------------------------------------------------------------------------
(* The queue of a connection *)

\* Events go to the delegate queue, if there is one, with a reference to the connection.
Emitted(s, c, event) ==
  IF s.conn[c].delegate /\ s.conn[c].delegateQueue
  THEN Enqueued(Retained(s, c), DelegateQueue, Block("callback", c, event, Nobody))
  ELSE s

\* EmiConnTimers::deschedule; the timer of forceClose is not one of them.
Descheduled(s, c) == [s EXCEPT !.conn[c].timers = @ \cap {"force"}]

\* forceClose() of the application, and of a SYN with another number: a timer for it, if
\* there is none.
ScheduleForceClose(s, q, b) ==
  LET to == ConnectionQueue[b.conn] IN
  \/ Inline(q, to) /\ Becomes(Scheduled(s, b.conn, "force")) /\ Finishes(q, b)
  \/ /\ ~Inline(q, to)
     /\ Becomes(Enqueued(s, to, Schedule(b.conn, "force", q)))
     /\ Waits(q, b, "called", to)

\* EmiLogicalConnection::wasClosed.  The mutant comes after invalidate.
WasClosedLate(s, c) == s
WasClosed(s, c) == Emitted(s, c, "disconnect")

\* forceClose(reason), up to the wait of EmiConnDelegate::invalidate for the socket, which
\* is a dispatch_sync whatever queue it is called on.
ForceClose(s, q, b) ==
  LET c == b.conn
      t == WasClosed([s EXCEPT !.conn[c].logical = "closed"], c)
  IN \/ /\ s.conn[c].logical # "open"
        /\ Becomes(s) /\ Finishes(q, b)
     \/ /\ s.conn[c].logical = "open" /\ ~s.conn[c].delegate
        /\ Becomes(Descheduled(t, c)) /\ Finishes(q, b)
     \/ /\ s.conn[c].logical = "open" /\ s.conn[c].delegate
        /\ Becomes(Enqueued(t, SocketQueue, Block("deregister", c, "nothing", q)))
        /\ Waits(q, b, "invalidating", SocketQueue)

\* The rest of it: invalidate gives up the reference.
LetGo(s, c) == Released([s EXCEPT !.conn[c].delegate = FALSE], c)
Invalidated(q) ==
  /\ Resumes(q, "invalidating")
  /\ LET b == thread[q].block IN
     Becomes(Descheduled(LetGo(Now, b.conn), b.conn)) /\ Finishes(q, b)
  /\ UNCHANGED <<serverConns, early, arrivals, calls>>

\* A SYN opens a connection that was closed while it was in the queue.  One for an open
\* connection has the number it was opened with, or another.  Every packet schedules the
\* connection timer anew.
GotSyn(s, q, b) ==
  LET c == b.conn IN
  \/ /\ s.conn[c].logical # "open"
     /\ Becomes([s EXCEPT !.conn[c].logical = "open"]) /\ Finishes(q, b)
  \/ s.conn[c].logical = "open" /\ Becomes(s) /\ Finishes(q, b)
  \/ s.conn[c].logical = "open" /\ ScheduleForceClose(s, q, b)

GotMessage(q) ==
  /\ Takes(q, "message")
  /\ LET b == Head(queue[q])
         s == Scheduled(Taken(q), b.conn, "connection")
     IN \/ b.what = "SYN" /\ GotSyn(s, q, b)
        \/ b.what = "RST" /\ ForceClose(s, q, b)
        \/ /\ b.what = "DATA" /\ Finishes(q, b)
           /\ Becomes(IF s.conn[b.conn].logical = "open" THEN Emitted(s, b.conn, "message") ELSE s)
  /\ UNCHANGED <<serverConns, early, arrivals, calls>>

RunSchedule(q) ==
  /\ Takes(q, "schedule")
  /\ LET b == Head(queue[q]) IN
     Becomes(Scheduled(Taken(q), b.conn, b.what)) /\ Finishes(q, b)
  /\ UNCHANGED <<serverConns, early, arrivals, calls>>

\* setDelegate:delegateQueue:, for the first time.
DelegateSet(s, c) ==
  [s EXCEPT !.conn[c].delegateQueue = TRUE, !.conn[c].listened = conn[c].delegate]
RunSetDelegate(q) ==
  /\ Takes(q, "setDelegate")
  /\ LET b == Head(queue[q]) IN Becomes(DelegateSet(Taken(q), b.conn)) /\ Finishes(q, b)
  /\ UNCHANGED <<serverConns, early, arrivals, calls>>

RunForceClose(q) ==
  /\ Takes(q, "forceClose") /\ ScheduleForceClose(Taken(q), q, Head(queue[q]))
  /\ UNCHANGED <<serverConns, early, arrivals, calls>>

\* send:, and what the getters return by SYNC_RETURN.
RunSend(q) ==
  /\ Takes(q, "send") /\ Becomes(Taken(q)) /\ Finishes(q, Head(queue[q]))
  /\ UNCHANGED <<serverConns, early, arrivals, calls>>

RunDelete(q) ==
  /\ Takes(q, "delete")
  /\ LET b == Head(queue[q])
         s == Taken(q)
     IN /\ Becomes([s EXCEPT !.conn[b.conn].alive = FALSE, !.conn[b.conn].timers = {}])
        /\ Finishes(q, b)
  /\ UNCHANGED <<serverConns, early, arrivals, calls>>

-----------------------------------------------------------------------------
(* The delegate queue *)

\* emiSocket:gotConnection: with the connection that the object has now.  If it was
\* invalidated the application gets nil; if it is deleted, the read is undefined, and
\* this is one of its outcomes.
GotNoConnection ==
  /\ Takes(DelegateQueue, "gotConnection")
  /\ LET b == Head(queue[DelegateQueue]) IN
     /\ ~conn[b.conn].delegate
     /\ Becomes(Taken(DelegateQueue)) /\ Finishes(DelegateQueue, b)
  /\ UNCHANGED <<serverConns, early, arrivals, calls>>

\* The application keeps it and sets a delegate, or leaves it alone.
GotConnection ==
  /\ Takes(DelegateQueue, "gotConnection")
  /\ LET b == Head(queue[DelegateQueue])
         c == b.conn
         s == Taken(DelegateQueue)
         t == Retained([s EXCEPT !.conn[c].kept = TRUE], c)
         to == ConnectionQueue[c]
     IN /\ conn[c].delegate
        /\ \/ Becomes(s) /\ Finishes(DelegateQueue, b)
           \/ Inline(DelegateQueue, to) /\ Becomes(DelegateSet(t, c)) /\ Finishes(DelegateQueue, b)
           \/ /\ ~Inline(DelegateQueue, to)
              /\ Becomes(Enqueued(t, to, Block("setDelegate", c, "nothing", DelegateQueue)))
              /\ Waits(DelegateQueue, b, "called", to)
  /\ UNCHANGED <<serverConns, early, arrivals, calls>>

\* emiConnectionMessage: or emiConnectionDisconnect:.
RunCallback ==
  /\ Takes(DelegateQueue, "callback")
  /\ LET b == Head(queue[DelegateQueue])
         s == Taken(DelegateQueue)
     IN /\ Becomes(Released([s EXCEPT !.conn[b.conn].told = @ \/ b.what = "disconnect"], b.conn))
        /\ Finishes(DelegateQueue, b)
  /\ UNCHANGED <<serverConns, early, arrivals, calls>>

\* The socket's queue is in the constructor or in opened() of c.
Inside(c) ==
  /\ thread[SocketQueue].step \in {"constructing", "opening", "opened"}
  /\ thread[SocketQueue].block.conn = c

\* The application calls a connection that it keeps, and cannot know whether the socket's
\* queue still opens it.
Calls(c) ==
  /\ thread[DelegateQueue] = Idle /\ conn[c].kept
  /\ calls < MaxCalls /\ calls' = calls + 1
  /\ UNCHANGED <<serverConns, arrivals>>

Call(c, method) ==
  LET b  == Block("call", c, method, Nobody)
      to == ConnectionQueue[c]
  IN /\ Calls(c)
     /\ early' = IF method = "forceClose" /\ Inside(c) THEN early \cup {c} ELSE early
     /\ \/ /\ ~Inline(DelegateQueue, to)
           /\ Becomes(Enqueued(Now, to, Block(method, c, "nothing", DelegateQueue)))
           /\ Waits(DelegateQueue, b, "called", to)
        \/ /\ Inline(DelegateQueue, to) /\ method = "send"
           /\ UNCHANGED <<conn, queue, thread>>
        \/ /\ Inline(DelegateQueue, to) /\ method = "forceClose"
           /\ ScheduleForceClose(Now, DelegateQueue, b)

\* closeWithError: runs on the queue of the caller, and fails unless the connection is open
\* and not closing yet.  The RST that it enqueues schedules a tick, at once or when the
\* sender buffer is empty.
CloseWithError(c) ==
  /\ Calls(c) /\ UNCHANGED early
  /\ \/ UNCHANGED <<conn, queue, thread>>
     \/ /\ conn[c].logical = "open"
        /\ Schedules(Now, DelegateQueue, Block("call", c, "closeWithError", Nobody),
                     "closing", c, "tick")

LoseInterest(c) ==
  /\ thread[DelegateQueue] = Idle /\ conn[c].kept
  /\ Becomes(Released([Now EXCEPT !.conn[c].kept = FALSE], c))
  /\ UNCHANGED <<serverConns, thread, early, arrivals, calls>>

-----------------------------------------------------------------------------
(* The timers and the network *)

\* A timer fires on its queue unless it was cancelled, between any two blocks.  A time-out
\* takes seconds: it is not up before the connection is opened.
RunTimer(c, timer) ==
  LET q == ConnectionQueue[c] IN
  /\ thread[q] = Idle /\ timer \in conn[c].timers
  /\ timer = "connection" => ~Inside(c)
  /\ ForceClose([Now EXCEPT !.conn[c].timers = @ \ {timer}], q, Block("timer", c, timer, Nobody))
  /\ UNCHANGED <<serverConns, early, arrivals, calls>>

Arrive(type, h) ==
  /\ arrivals < MaxArrivals /\ arrivals' = arrivals + 1
  /\ Becomes(Enqueued(Now, SocketQueue, Packet(type, h)))
  /\ UNCHANGED <<serverConns, thread, early, calls>>

RunSocket ==
  \/ PassOn \/ Stray \/ Accept \/ MakeServerConnection \/ Opened \/ Deregister
  \/ Return(SocketQueue)

RunConnection(q) ==
  \/ GotMessage(q) \/ Invalidated(q) \/ Return(q)
  \/ RunSchedule(q) \/ RunSetDelegate(q) \/ RunForceClose(q)
  \/ RunSend(q) \/ RunDelete(q)

RunDelegate == GotNoConnection \/ GotConnection \/ RunCallback \/ Return(DelegateQueue)

Next ==
  \/ RunSocket \/ RunDelegate \/ \E q \in ConnQueues : RunConnection(q)
  \/ \E c \in Conns :
       \/ \E method \in {"send", "forceClose"} : Call(c, method)
       \/ CloseWithError(c)
       \/ \E timer \in {"connection", "force"} : RunTimer(c, timer)
       \/ LoseInterest(c)
  \/ \E type \in {"SYN", "DATA", "RST"}, h \in Hosts : Arrive(type, h)

Spec == Init /\ [][Next]_vars

\* A queue that has a block to run runs it.
Fairness ==
  /\ WF_vars(RunSocket) /\ WF_vars(RunDelegate)
  /\ \A q \in ConnQueues : WF_vars(RunConnection(q))

FairSpec == Spec /\ Fairness

-----------------------------------------------------------------------------
(* Properties *)

\* The references to c that a pending callback holds.
Callbacks(c) ==
  {i \in DOMAIN queue[DelegateQueue] :
     queue[DelegateQueue][i].kind = "callback" /\ queue[DelegateQueue][i].conn = c}

\* The types, and the retain count: the delegate's own reference, the application's and
\* those of the callbacks.
TypeOK ==
  /\ \A c \in Conns :
       /\ conn[c].logical \in {"none", "open", "closed"}
       /\ conn[c].timers \subseteq {"connection", "tick", "force"}
       /\ conn[c].refs = Cardinality({x \in {"delegate", "kept"} : conn[c][x]})
                         + Cardinality(Callbacks(c))
  /\ serverConns \in [Hosts -> Conns \cup {NoConn}]
  /\ \A q \in Queues : thread[q].waits \in Queues \cup {Nobody}

\* An address leads to a connection that has its delegate, whose queue can be asked for;
\* and a connection with a delegate is found, unless it is being made or invalidated.
\* (EmiSockDelegate::connectionGotMessage, EmiConnDelegate::invalidate)
MapLeadsToLive ==
  /\ \A h \in Hosts :
       LET c == serverConns[h] IN
       c # NoConn => conn[c].alive /\ conn[c].delegate /\ conn[c].host = h
  /\ \A c \in Conns :
       conn[c].delegate /\ serverConns[conn[c].host] # c =>
         \E q \in Queues : /\ thread[q].block.conn = c
                           /\ thread[q].step \in {"constructing", "invalidating"}

\* The map leads to nothing that is gone, and no block uses a connection object that was
\* deleted or that will be before it runs,
\* whatever order packets, timers, calls and callbacks come in; but for gotConnection:,
\* which is GotConnectionExists.  (EmiConnection's dealloc, EmiSockDelegate::connectionGotMessage)
OutlivesItsBlocks ==
  /\ TypeOK /\ MapLeadsToLive
  /\ \A q \in Queues : thread[q].block.conn # NoConn => conn[thread[q].block.conn].alive
  /\ \A q \in Queues : \A i \in DOMAIN queue[q] :
       LET b == queue[q][i] IN
       b.conn # NoConn /\ b.kind # "gotConnection" =>
         /\ conn[b.conn].alive
         /\ \A j \in 1 .. i - 1 : queue[q][j].kind = "delete" => queue[q][j].conn # b.conn

\* Queues that wait for one another, and none of them for another queue.
Circles ==
  {waiting \in (SUBSET Queues) \ {{}} : \A q \in waiting : thread[q].waits \in waiting}

\* While the queues are all different, they wait for one another in a circle (the application
\* for a connection, the connection for the socket, the socket for a connection that it
\* opens) only when the application has force closed a connection that the socket's queue
\* was opening: the connection's queue invalidates it, and waits for the socket's, which
\* waits for it.  Packets, timers and other calls never bring that about.  (DISPATCH_SYNC,
\* EmiConnDelegate::invalidate)
NoCircle ==
  \A waiting \in Circles :
    \E c \in early : /\ Inside(c) /\ {SocketQueue, ConnectionQueue[c]} \subseteq waiting
                    /\ thread[ConnectionQueue[c]].step = "invalidating"

\* An application that set its delegate before the connection was invalidated is told that
\* it was closed, unless queues wait for one another for ever.
\* (forceClose(reason), with callbacks on another queue)
DisconnectIsTold ==
  \A c \in Conns : (conn[c].listened /\ ~conn[c].delegate) ~> (conn[c].told \/ Circles # {})

\* A connection that was invalidated and that the application does not keep is deleted,
\* unless queues wait for one another for ever.
DeletedInTheEnd ==
  \A c \in Conns : (conn[c].logical = "closed" /\ ~conn[c].kept)
                     ~> (~conn[c].alive \/ conn[c].kept \/ Circles # {})

\* README.md: "it's also very easy to run all EmiNet logic on the main runloop."
\* EmiSocket.h: "The delegate queue and socket queue can optionally be the same."  No call
\* and no packet makes queues wait for ever.
NeverCircle == Circles = {}

\* EmiSock.h: "An EmiConn object must be accessed in a strictly sequenced manner."  While
\* the socket's queue opens a connection, no block that uses it can run elsewhere.
StrictlySequenced ==
  \A c \in Conns :
    LET q == ConnectionQueue[c] IN
    Inside(c) /\ thread[q] = Idle /\ queue[q] # <<>> =>
      Head(queue[q]).kind \in {"schedule", "setDelegate"}

\* EmiSock.h: "An EmiConn object must be accessed in a strictly sequenced manner."  While
\* the application's queue closes a connection, no block that uses it can run elsewhere.
CloseIsSequenced ==
  \A c \in Conns :
    LET q == ConnectionQueue[c]
        b == thread[DelegateQueue]
    IN b.step = "closing" /\ b.block.conn = c /\ thread[q] = Idle /\ queue[q] # <<>> =>
         Head(queue[q]).kind \in {"schedule", "setDelegate"}

\* EmiSockDelegate.mm, of connectionOpened: the delegate is set before "the connection
\* might receive messages".  No message is dropped for lack of a delegate.
MessagesAreHeard ==
  \A q \in ConnQueues :
    Takes(q, "message") /\ Head(queue[q]).what = "DATA"
      => LET c == Head(queue[q]).conn IN
         conn[c].logical = "open" /\ conn[c].delegate => conn[c].delegateQueue

\* The connection that the application is told of exists when it is told.
GotConnectionExists ==
  Takes(DelegateQueue, "gotConnection") => conn[Head(queue[DelegateQueue]).conn].delegate

\* A connection that was closed is never open again.
ClosedStaysClosed ==
  [][\A c \in Conns : conn[c].logical = "closed" => conn'[c].logical = "closed"]_vars
=============================================================================

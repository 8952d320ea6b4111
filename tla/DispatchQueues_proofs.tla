------------------------- MODULE DispatchQueues_proofs -------------------------
(***************************************************************************)
(* Proof that dispatch queues wait for one another in a circle only when   *)
(* the application force closes a connection that is still being opened,   *)
(* and that a connection outlives the blocks that use it, for any number   *)
(* of connections, hosts, packets and calls, while each queue is its own.  *)
(*                                                                         *)
(* The first invariant, QueueInv, says who waits for whom, and that        *)
(* nothing invalidates a connection that is being opened, but for those in *)
(* a set E.  E is a constant, so that the lemmas can be cited for the set  *)
(* early as it is after a step.  The second, LifeInv, says who refers to a *)
(* connection and what its queue still has to run; the steps of its proof  *)
(* follow those of the first.  A step keeps the first given the second:    *)
(* the application has no connection whose constructor is not over.        *)
(***************************************************************************)
EXTENDS DispatchQueues, FiniteSetTheorems, SequenceTheorems, TLAPS

\* The application's queue is not the socket's, and each connection has a queue that
\* nobody else has, as it is unless the application asks for something else.
OwnQueues ==
  /\ DelegateQueue # SocketQueue
  /\ ConnQueues \cap {SocketQueue, DelegateQueue} = {}
  /\ \A c, d \in Conns : ConnectionQueue[c] = ConnectionQueue[d] => c = d

-----------------------------------------------------------------------------
(* The inductive invariant *)

Types  == {"SYN", "DATA", "RST"}
Timers == {"connection", "tick", "force"}
Kinds == {"none", "packet", "deregister", "message", "schedule", "setDelegate", "forceClose",
          "send", "delete", "gotConnection", "callback", "timer", "call"}
Words == Types \cup {"nothing", "connection", "tick", "force", "disconnect", "message",
                     "send", "forceClose", "closeWithError"}
Blocks == [kind : Kinds, conn : Conns \cup {NoConn}, what : Words \cup (Types \X Hosts),
           from : Queues \cup {Nobody}]

Objects == [host : Hosts \cup {Nobody}, alive : BOOLEAN, logical : {"none", "open", "closed"},
            delegate : BOOLEAN, refs : Int, delegateQueue : BOOLEAN,
            timers : SUBSET Timers, kept : BOOLEAN,
            listened : BOOLEAN, told : BOOLEAN]

States == [conn : [Conns -> Objects], queue : [Queues -> Seq(Blocks)]]

Making == {"constructing", "opening", "opened"}
Threads == [block : Blocks, step : Making \cup {"none", "called", "closing", "invalidating"},
            waits : Queues \cup {Nobody}]

\* Blocks that neither close a connection nor have it closed.
Harmless(b) ==
  /\ b.kind \in {"schedule", "setDelegate", "delete", "send"}
  /\ b.kind = "schedule" => b.what # "force"

\* The blocks that may be in queue q: those of a connection are in its own queue, and
\* those of the connections in Y are harmless.
Suits(q, Y) ==
  {b \in Blocks :
     /\ q \in ConnQueues => /\ b.conn \in Conns /\ ConnectionQueue[b.conn] = q
                            /\ b.conn \in Y => Harmless(b)
                            /\ b.kind = "schedule" => b.what \in Timers
     /\ q = DelegateQueue => b.conn \in Conns
     /\ q = SocketQueue /\ b.kind = "packet" => b.what \in Types \X Hosts}

\* The objects have these hosts, and nothing is about to close a connection in Y.
Good(s, Y, hosts) ==
  /\ s \in States
  /\ \A c \in Conns : /\ s.conn[c].host = hosts[c]
                      /\ s.conn[c].delegate \/ s.conn[c].kept => hosts[c] # Nobody
                      /\ c \in Y => "force" \notin s.conn[c].timers
  /\ \A q \in Queues : s.queue[q] \in Seq(Suits(q, Y))

HostsNow == [c \in Conns |-> conn[c].host]

Constructing(c) == thread[SocketQueue].step = "constructing" /\ thread[SocketQueue].block.conn = c

\* Connections that are not made yet, or that the socket's queue is making and that the
\* application did not force close meanwhile.  E: those that it did.
Young(E) ==
  {c \in Conns : \/ conn[c].host = Nobody \/ Constructing(c)
                 \/ Inside(c) /\ c \notin E}

\* The socket waits for the connection it makes, a connection that is invalidated for the
\* socket, the application for a connection; and no young connection waits.
ThreadInv(E) ==
  /\ thread \in [Queues -> Threads]
  /\ thread[SocketQueue].step \in Making =>
       LET c == thread[SocketQueue].block.conn IN c \in Conns /\ conn[c].host # Nobody
  /\ thread[SocketQueue].waits # Nobody =>
       /\ thread[SocketQueue].step \in Making
       /\ thread[SocketQueue].waits = ConnectionQueue[thread[SocketQueue].block.conn]
  /\ thread[DelegateQueue].waits \in ConnQueues \cup {Nobody}
  /\ \A q \in ConnQueues :
       /\ thread[q].waits \in {Nobody, SocketQueue}
       /\ thread[q].waits # Nobody => thread[q].step = "invalidating"
       /\ thread[q].step = "invalidating" =>
            thread[q].block.conn \in Conns /\ ConnectionQueue[thread[q].block.conn] = q
  /\ \A c \in Young(E) : thread[ConnectionQueue[c]].waits = Nobody

MapInv ==
  /\ serverConns \in [Hosts -> Conns \cup {NoConn}]
  /\ \A h \in Hosts : serverConns[h] # NoConn => conn[serverConns[h]].host # Nobody

QueueInv(E) == Good(Now, Young(E), HostsNow) /\ ThreadInv(E) /\ MapInv

-----------------------------------------------------------------------------
(* Queues and connections *)

LEMMA QueueNames ==
  ASSUME OwnQueues
  PROVE
  /\ \A c \in Conns : ConnectionQueue[c] \in ConnQueues
  /\ \A q \in ConnQueues : q \in Queues /\ q # SocketQueue /\ q # DelegateQueue
  /\ SocketQueue \in Queues /\ DelegateQueue \in Queues /\ Nobody \notin Queues
  /\ Nobody \notin Hosts /\ NoConn \notin Conns
<1>1. NoConn \notin Conns
  BY DispatchQueuesAssumption DEF NoConn, Conns
<1>2. QED
  BY <1>1, DispatchQueuesAssumption DEF Queues, ConnQueues, OwnQueues

\* A block put at the end of a queue where it may be.
LEMMA EnqueuedGood ==
  ASSUME NEW Y, NEW hosts, NEW s, Good(s, Y, hosts), NEW q \in Queues, NEW b \in Suits(q, Y)
  PROVE  Good(Enqueued(s, q, b), Y, hosts)
<1> DEFINE t == Enqueued(s, q, b)
<1>1. s \in States /\ s.queue \in [Queues -> Seq(Blocks)] /\ s.queue[q] \in Seq(Suits(q, Y))
  BY DEF Good, States
<1>2. Suits(q, Y) \subseteq Blocks
  BY DEF Suits
<1>3. Append(s.queue[q], b) \in Seq(Suits(q, Y)) /\ Append(s.queue[q], b) \in Seq(Blocks)
  BY <1>1, <1>2, AppendProperties
<1>4. /\ t \in States /\ t.conn = s.conn
      /\ t.queue = [s.queue EXCEPT ![q] = Append(s.queue[q], b)]
  BY <1>1, <1>3 DEF Enqueued, States
<1>5. \A r \in Queues : t.queue[r] \in Seq(Suits(r, Y))
  BY <1>1, <1>3, <1>4 DEF Good
<1>6. QED
  BY <1>4, <1>5 DEF Good

\* A connection that becomes r.
LEMMA ChangedGood ==
  ASSUME NEW Y, NEW hosts, NEW s, Good(s, Y, hosts), NEW c \in Conns, NEW r \in Objects,
         r.host = hosts[c], r.delegate \/ r.kept => hosts[c] # Nobody,
         c \in Y => "force" \notin r.timers
  PROVE  Good([s EXCEPT !.conn[c] = r], Y, hosts)
<1> DEFINE t == [s EXCEPT !.conn[c] = r]
<1>1. s \in States
  BY DEF Good
<1>2. t \in States /\ t.queue = s.queue /\ t.conn = [s.conn EXCEPT ![c] = r]
  BY <1>1 DEF States
<1>3. \A d \in Conns : t.conn[d] = IF d = c THEN r ELSE s.conn[d]
  BY <1>1, <1>2 DEF States
<1>4. QED
  BY <1>2, <1>3 DEF Good

\* What is known of a connection.
LEMMA GoodObject ==
  ASSUME NEW Y, NEW hosts, NEW s, Good(s, Y, hosts), NEW c \in Conns
  PROVE  /\ s.conn[c] \in Objects /\ s.conn[c].host = hosts[c]
         /\ s.conn[c].delegate \/ s.conn[c].kept => hosts[c] # Nobody
         /\ c \in Y => "force" \notin s.conn[c].timers
         /\ s.conn \in [Conns -> Objects] /\ DOMAIN s = {"conn", "queue"}
  BY DEF Good, States

\* A block with which a queue deletes a connection suits it always.
LEMMA HarmlessSuits ==
  ASSUME OwnQueues, NEW Y, NEW c \in Conns,
         NEW kind \in {"schedule", "setDelegate", "delete", "send"},
         NEW what \in Words, NEW from \in Queues \cup {Nobody},
         kind = "schedule" => what \in {"connection", "tick"}
  PROVE  Block(kind, c, what, from) \in Suits(ConnectionQueue[c], Y)
<1> DEFINE b == Block(kind, c, what, from)
<1>1. b \in Blocks /\ b.kind = kind /\ b.conn = c /\ b.what = what
  BY DEF Block, Blocks, Kinds
<1>2. ConnectionQueue[c] # SocketQueue /\ ConnectionQueue[c] # DelegateQueue
  BY QueueNames
<1>3. Harmless(b) /\ (b.kind = "schedule" => b.what \in Timers)
  BY <1>1 DEF Harmless, Timers
<1>4. QED
  BY <1>1, <1>2, <1>3 DEF Suits

LEMMA DelegateSuits ==
  ASSUME NEW Y, NEW c \in Conns, NEW kind \in {"gotConnection", "callback"}, NEW what \in Words,
         OwnQueues
  PROVE  Block(kind, c, what, Nobody) \in Suits(DelegateQueue, Y)
<1> DEFINE b == Block(kind, c, what, Nobody)
<1>1. b \in Blocks /\ b.kind = kind /\ b.conn = c
  BY DEF Block, Blocks, Kinds
<1>2. QED
  BY <1>1, QueueNames DEF Suits, OwnQueues

LEMMA RetainedGood ==
  ASSUME NEW Y, NEW hosts, NEW s, Good(s, Y, hosts), NEW c \in Conns
  PROVE  Good(Retained(s, c), Y, hosts)
<1> DEFINE r == [s.conn[c] EXCEPT !.refs = @ + 1]
<1>1. /\ r \in Objects /\ r.host = s.conn[c].host /\ r.delegate = s.conn[c].delegate
      /\ r.kept = s.conn[c].kept /\ r.timers = s.conn[c].timers
  BY GoodObject DEF Objects
<1>2. Retained(s, c) = [s EXCEPT !.conn[c] = r]
  BY DEF Retained
<1>3. /\ r.host = hosts[c] /\ (r.delegate \/ r.kept => hosts[c] # Nobody)
      /\ c \in Y => "force" \notin r.timers
  BY <1>1, GoodObject
<1> HIDE DEF r
<1>4. QED
  BY <1>1, <1>2, <1>3, ChangedGood

LEMMA ReleasedGood ==
  ASSUME OwnQueues, NEW Y, NEW hosts, NEW s, Good(s, Y, hosts), NEW c \in Conns
  PROVE  Good(Released(s, c), Y, hosts)
<1> DEFINE r == [s.conn[c] EXCEPT !.refs = @ - 1]
           t == [s EXCEPT !.conn[c] = r]
<1>1. /\ r \in Objects /\ r.host = s.conn[c].host /\ r.delegate = s.conn[c].delegate
      /\ r.kept = s.conn[c].kept /\ r.timers = s.conn[c].timers
  BY GoodObject DEF Objects
<1>2. Good(t, Y, hosts)
  <2>1. /\ r.host = hosts[c] /\ (r.delegate \/ r.kept => hosts[c] # Nobody)
        /\ c \in Y => "force" \notin r.timers
    BY <1>1, GoodObject
  <2> HIDE DEF r
  <2>2. QED
    BY <1>1, <2>1, ChangedGood
<1>3. Good(Dealloc(t, c), Y, hosts)
  <2>1. Block("delete", c, "nothing", Nobody) \in Suits(ConnectionQueue[c], Y)
    BY HarmlessSuits DEF Words
  <2>2. QED
    BY <1>2, <2>1, QueueNames, EnqueuedGood DEF Dealloc
<1>4. Released(s, c) = IF t.conn[c].refs = 0 THEN Dealloc(t, c) ELSE t
  BY DEF Released
<1>5. QED
  BY <1>2, <1>3, <1>4

LEMMA ScheduledGood ==
  ASSUME NEW Y, NEW hosts, NEW s, Good(s, Y, hosts), NEW c \in Conns,
         NEW timer \in Timers, timer = "force" => c \notin Y
  PROVE  Good(Scheduled(s, c, timer), Y, hosts)
<1> DEFINE r == [s.conn[c] EXCEPT !.timers = @ \cup {timer}]
<1>1. /\ r \in Objects /\ r.host = s.conn[c].host /\ r.delegate = s.conn[c].delegate
      /\ r.kept = s.conn[c].kept /\ r.timers = s.conn[c].timers \cup {timer}
  BY GoodObject DEF Objects, Timers
<1>2. Scheduled(s, c, timer) = [s EXCEPT !.conn[c] = r]
  BY DEF Scheduled
<1>3. /\ r.host = hosts[c] /\ (r.delegate \/ r.kept => hosts[c] # Nobody)
      /\ c \in Y => "force" \notin r.timers
  BY <1>1, GoodObject
<1> HIDE DEF r
<1>4. QED
  BY <1>1, <1>2, <1>3, ChangedGood

LEMMA DescheduledGood ==
  ASSUME NEW Y, NEW hosts, NEW s, Good(s, Y, hosts), NEW c \in Conns
  PROVE  Good(Descheduled(s, c), Y, hosts)
<1> DEFINE r == [s.conn[c] EXCEPT !.timers = @ \cap {"force"}]
<1>1. /\ r \in Objects /\ r.host = s.conn[c].host /\ r.delegate = s.conn[c].delegate
      /\ r.kept = s.conn[c].kept /\ r.timers \subseteq s.conn[c].timers
  BY GoodObject DEF Objects
<1>2. Descheduled(s, c) = [s EXCEPT !.conn[c] = r]
  BY DEF Descheduled
<1>3. /\ r.host = hosts[c] /\ (r.delegate \/ r.kept => hosts[c] # Nobody)
      /\ c \in Y => "force" \notin r.timers
  BY <1>1, GoodObject
<1> HIDE DEF r
<1>4. QED
  BY <1>1, <1>2, <1>3, ChangedGood

LEMMA EmittedGood ==
  ASSUME NEW Y, NEW hosts, NEW s, Good(s, Y, hosts), NEW c \in Conns, NEW event \in Words, OwnQueues
  PROVE  Good(Emitted(s, c, event), Y, hosts)
<1>1. Good(Enqueued(Retained(s, c), DelegateQueue, Block("callback", c, event, Nobody)), Y, hosts)
  BY RetainedGood, DelegateSuits, EnqueuedGood, QueueNames
<1>2. QED
  BY <1>1 DEF Emitted

-----------------------------------------------------------------------------
(* Threads *)

\* A smaller set of connections asks for less.
LEMMA GoodFewer ==
  ASSUME NEW Y, NEW Z, Z \subseteq Y, NEW hosts, NEW s, Good(s, Y, hosts)
  PROVE  Good(s, Z, hosts)
<1>1. ASSUME NEW q \in Queues
      PROVE  s.queue[q] \in Seq(Suits(q, Z))
  <2>1. Suits(q, Y) \subseteq Suits(q, Z)
    BY DEF Suits
  <2>2. s.queue[q] \in Seq(Suits(q, Y))
    BY DEF Good
  <2>3. QED
    BY <2>1, <2>2
<1>2. QED
  BY <1>1 DEF Good

LEMMA BecomesGood ==
  ASSUME NEW Y, NEW s, Good(s, Y, HostsNow), Becomes(s)
  PROVE  /\ HostsNow' = HostsNow /\ Good(Now', Y, HostsNow')
         /\ \A c \in Conns : conn'[c].host = conn[c].host
<1>1. /\ s \in States /\ conn' = s.conn /\ queue' = s.queue
      /\ \A c \in Conns : conn'[c].host = conn[c].host
  BY DEF Good, Becomes, HostsNow
<1>2. s = [conn |-> conn', queue |-> queue']
  BY <1>1 DEF States
<1>3. HostsNow' = HostsNow
  BY <1>1 DEF HostsNow
<1>4. Now' = s
  BY <1>2 DEF Now
<1>5. QED
  BY <1>1, <1>3, <1>4

LEMMA MapStays ==
  ASSUME MapInv, UNCHANGED serverConns, \A c \in Conns : conn'[c].host = conn[c].host
  PROVE  MapInv'
  BY DEF MapInv

LEMMA IdleIs ==
  Idle \in Threads /\ Idle.step = "none" /\ Idle.waits = Nobody
  BY DEF Idle, Threads, Block, Blocks, Kinds, Words, NoConn

\* A block that ends leaves its queue idle, and whoever waited for it goes on.
LEMMA FinishesIs ==
  ASSUME OwnQueues, thread \in [Queues -> Threads], NEW q \in Queues,
         NEW b \in Blocks, Finishes(q, b)
  PROVE  /\ thread' \in [Queues -> Threads]
         /\ \A r \in Queues :
              /\ thread'[r].waits \in {thread[r].waits, Nobody}
              /\ \/ thread'[r].step = "none" /\ thread'[r].waits = Nobody
                 \/ thread'[r].step = thread[r].step /\ thread'[r].block = thread[r].block
<1> DEFINE t == [thread EXCEPT ![q] = Idle]
<1>1. /\ t \in [Queues -> Threads]
      /\ \A r \in Queues : /\ t[r].waits \in {thread[r].waits, Nobody}
                           /\ \/ t[r].step = "none" /\ t[r].waits = Nobody
                              \/ t[r].step = thread[r].step /\ t[r].block = thread[r].block
  BY IdleIs
<1>2. thread' = IF b.from = Nobody THEN t ELSE [t EXCEPT ![b.from].waits = Nobody]
  BY DEF Finishes
<1>3. b.from \in Queues \cup {Nobody}
  BY DEF Blocks
<1> HIDE DEF t
<1>4. CASE b.from = Nobody
  BY <1>1, <1>2, <1>4
<1>5. CASE b.from \in Queues
  <2> DEFINE u == [t[b.from] EXCEPT !.waits = Nobody]
  <2>1. thread' = [t EXCEPT ![b.from] = u]
    BY <1>2, <1>5, QueueNames
  <2>2. u \in Threads /\ u.waits = Nobody /\ u.step = t[b.from].step /\ u.block = t[b.from].block
    BY <1>1, <1>5 DEF Threads
  <2> HIDE DEF u
  <2>3. \A r \in Queues : thread'[r] = IF r = b.from THEN u ELSE t[r]
    BY <1>1, <2>1
  <2>4. QED
    BY <1>1, <2>1, <2>2, <2>3
<1>6. QED
  BY <1>3, <1>4, <1>5

\* When the threads are as they have to be, the connections that are young stay so.
LEMMA YoungStay ==
  ASSUME NEW E, QueueInv(E), \A c \in Conns : conn'[c].host = conn[c].host,
         thread'[SocketQueue].step \in Making =>
           /\ thread[SocketQueue].step \in Making
           /\ thread'[SocketQueue].block.conn = thread[SocketQueue].block.conn,
         thread'[SocketQueue].step = "constructing" => thread[SocketQueue].step = "constructing"
  PROVE  Young(E)' \subseteq Young(E)
<1> SUFFICES ASSUME NEW c \in Young(E)'
             PROVE  c \in Young(E)
  OBVIOUS
<1>1. /\ c \in Conns
      /\ conn'[c].host = Nobody \/ Constructing(c)' \/ (Inside(c)' /\ c \notin E)
  BY DEF Young
<1>2. (Inside(c)' => Inside(c)) /\ (Constructing(c)' => Constructing(c))
  BY DEF Inside, Constructing, Making
<1>3. QED
  BY <1>1, <1>2 DEF Young

\* A step of a block that ends.
LEMMA FinishStep ==
  ASSUME NEW E, OwnQueues, QueueInv(E), NEW q \in Queues, NEW b \in Blocks, Finishes(q, b),
         NEW s, Good(s, Young(E), HostsNow), Becomes(s), UNCHANGED serverConns \/ MapInv'
  PROVE  QueueInv(E)'
<1>1. /\ HostsNow' = HostsNow /\ Good(Now', Young(E), HostsNow')
      /\ \A c \in Conns : conn'[c].host = conn[c].host
  BY BecomesGood
<1>2. /\ thread \in [Queues -> Threads] /\ thread' \in [Queues -> Threads]
      /\ \A r \in Queues :
           /\ thread'[r].waits \in {thread[r].waits, Nobody}
           /\ \/ thread'[r].step = "none" /\ thread'[r].waits = Nobody
              \/ thread'[r].step = thread[r].step /\ thread'[r].block = thread[r].block
  BY FinishesIs DEF QueueInv, ThreadInv
<1>3. Young(E)' \subseteq Young(E)
  BY <1>1, <1>2, QueueNames, YoungStay DEF Making
<1>4. ThreadInv(E)'
  <2>1. thread'[SocketQueue].step \in Making =>
          LET c == thread'[SocketQueue].block.conn IN c \in Conns /\ conn'[c].host # Nobody
    BY <1>1, <1>2, QueueNames DEF QueueInv, ThreadInv, Making
  <2>2. thread'[SocketQueue].waits # Nobody =>
          /\ thread'[SocketQueue].step \in Making
          /\ thread'[SocketQueue].waits = ConnectionQueue[thread'[SocketQueue].block.conn]
    BY <1>2, QueueNames DEF QueueInv, ThreadInv
  <2>3. thread'[DelegateQueue].waits \in ConnQueues \cup {Nobody}
    BY <1>2, QueueNames DEF QueueInv, ThreadInv
  <2>4. \A r \in ConnQueues :
          /\ thread'[r].waits \in {Nobody, SocketQueue}
          /\ thread'[r].waits # Nobody => thread'[r].step = "invalidating"
          /\ thread'[r].step = "invalidating" =>
               thread'[r].block.conn \in Conns /\ ConnectionQueue[thread'[r].block.conn] = r
    BY <1>2, QueueNames DEF QueueInv, ThreadInv
  <2>5. \A c \in Young(E)' : thread'[ConnectionQueue[c]].waits = Nobody
    BY <1>2, <1>3, QueueNames DEF QueueInv, ThreadInv, Young
  <2>6. QED
    BY <1>2, <2>1, <2>2, <2>3, <2>4, <2>5 DEF ThreadInv
<1>5. MapInv'
  BY <1>1, MapStays DEF QueueInv
<1>6. QED
  BY <1>1, <1>3, <1>4, <1>5, GoodFewer DEF QueueInv

\* A step of a block of the delegate queue or a connection that waits for another one.
LEMMA WaitStep ==
  ASSUME NEW E, QueueInv(E), OwnQueues, NEW q \in Queues, NEW b \in Blocks, NEW step,
         NEW other \in Queues,
         Waits(q, b, step, other),
         \/ q = DelegateQueue /\ step \in {"called", "closing"} /\ other \in ConnQueues
         \/ /\ q \in ConnQueues /\ step = "invalidating" /\ other = SocketQueue
            /\ b.conn \in Conns \ Young(E) /\ ConnectionQueue[b.conn] = q,
         NEW s, Good(s, Young(E), HostsNow), Becomes(s), UNCHANGED serverConns \/ MapInv'
  PROVE  QueueInv(E)'
<1> DEFINE t == [block |-> b, step |-> step, waits |-> other]
<1>1. /\ HostsNow' = HostsNow /\ Good(Now', Young(E), HostsNow')
      /\ \A c \in Conns : conn'[c].host = conn[c].host
  BY BecomesGood
<1>2. t \in Threads /\ t.block = b /\ t.step = step /\ t.waits = other
  BY DEF Threads
<1> HIDE DEF t
<1>3. /\ thread \in [Queues -> Threads] /\ thread' \in [Queues -> Threads] /\ thread'[q] = t
      /\ \A r \in Queues : r # q => thread'[r] = thread[r]
  BY <1>2 DEF QueueInv, ThreadInv, Waits, t
<1>4. q # SocketQueue /\ thread'[SocketQueue] = thread[SocketQueue]
  BY <1>3, QueueNames DEF OwnQueues
<1>5. Young(E)' \subseteq Young(E)
  BY <1>1, <1>4, YoungStay
<1>6. ThreadInv(E)'
  <2>1. thread'[SocketQueue].step \in Making =>
          LET c == thread'[SocketQueue].block.conn IN c \in Conns /\ conn'[c].host # Nobody
    BY <1>1, <1>4 DEF QueueInv, ThreadInv
  <2>2. thread'[SocketQueue].waits # Nobody =>
          /\ thread'[SocketQueue].step \in Making
          /\ thread'[SocketQueue].waits = ConnectionQueue[thread'[SocketQueue].block.conn]
    BY <1>4 DEF QueueInv, ThreadInv
  <2>3. thread'[DelegateQueue].waits \in ConnQueues \cup {Nobody}
    BY <1>2, <1>3, QueueNames DEF QueueInv, ThreadInv
  <2>4. \A r \in ConnQueues :
          /\ thread'[r].waits \in {Nobody, SocketQueue}
          /\ thread'[r].waits # Nobody => thread'[r].step = "invalidating"
          /\ thread'[r].step = "invalidating" =>
               thread'[r].block.conn \in Conns /\ ConnectionQueue[thread'[r].block.conn] = r
    BY <1>2, <1>3, QueueNames DEF QueueInv, ThreadInv
  <2>5. ASSUME NEW c \in Young(E)'
        PROVE  thread'[ConnectionQueue[c]].waits = Nobody
    <3>1. c \in Young(E) /\ c \in Conns /\ thread[ConnectionQueue[c]].waits = Nobody
      BY <1>5 DEF QueueInv, ThreadInv, Young
    <3>2. ConnectionQueue[c] # q
      BY <3>1, QueueNames DEF OwnQueues
    <3>3. QED
      BY <1>3, <3>1, <3>2, QueueNames
  <2>6. QED
    BY <1>3, <2>1, <2>2, <2>3, <2>4, <2>5 DEF ThreadInv
<1>7. MapInv'
  BY <1>1, MapStays DEF QueueInv
<1>8. QED
  BY <1>1, <1>5, <1>6, <1>7, GoodFewer DEF QueueInv

\* A step of the socket's queue that waits for the connection it makes.
LEMMA MakingStep ==
  ASSUME NEW E, QueueInv(E), OwnQueues, NEW c \in Conns, NEW b \in Blocks,
         NEW step \in {"opening", "opened"},
         Waits(SocketQueue, b, step, ConnectionQueue[c]), b.conn = c,
         thread[SocketQueue].step \in Making, thread[SocketQueue].block.conn = c,
         NEW s, Good(s, Young(E), HostsNow), Becomes(s), MapInv'
  PROVE  QueueInv(E)'
<1> DEFINE t == [block |-> b, step |-> step, waits |-> ConnectionQueue[c]]
<1>1. /\ HostsNow' = HostsNow /\ Good(Now', Young(E), HostsNow')
      /\ \A d \in Conns : conn'[d].host = conn[d].host
  BY BecomesGood
<1>2. /\ t \in Threads /\ t.block = b /\ t.step = step /\ t.waits = ConnectionQueue[c]
      /\ step \in Making /\ step # "constructing"
  BY QueueNames DEF Threads, Making
<1> HIDE DEF t
<1>3. /\ thread \in [Queues -> Threads] /\ thread' \in [Queues -> Threads]
      /\ thread'[SocketQueue] = t
      /\ \A r \in Queues : r # SocketQueue => thread'[r] = thread[r]
  BY <1>2, QueueNames DEF QueueInv, ThreadInv, Waits, t
<1>4. Young(E)' \subseteq Young(E)
  BY <1>1, <1>2, <1>3, YoungStay
<1>5. ThreadInv(E)'
  <2>1. c \in Conns /\ conn'[c].host # Nobody
    BY <1>1 DEF QueueInv, ThreadInv
  <2>2. thread'[DelegateQueue].waits \in ConnQueues \cup {Nobody}
    BY <1>3, QueueNames DEF QueueInv, ThreadInv, OwnQueues
  <2>3. \A r \in ConnQueues :
          /\ thread'[r].waits \in {Nobody, SocketQueue}
          /\ thread'[r].waits # Nobody => thread'[r].step = "invalidating"
          /\ thread'[r].step = "invalidating" =>
               thread'[r].block.conn \in Conns /\ ConnectionQueue[thread'[r].block.conn] = r
    BY <1>3, QueueNames DEF QueueInv, ThreadInv
  <2>4. \A d \in Young(E)' : thread'[ConnectionQueue[d]].waits = Nobody
    BY <1>3, <1>4, QueueNames DEF QueueInv, ThreadInv, Young
  <2>5. QED
    BY <1>2, <1>3, <2>1, <2>2, <2>3, <2>4 DEF ThreadInv
<1>6. QED
  BY <1>1, <1>4, <1>5, GoodFewer DEF QueueInv

\* What is dispatched to the queue of a connection is never run at once.
LEMMA SchedulesIs ==
  ASSUME OwnQueues, NEW s, NEW q \in Queues \ ConnQueues, NEW b, NEW step, NEW c \in Conns,
         NEW timer, Schedules(s, q, b, step, c, timer)
  PROVE  /\ Becomes(Enqueued(s, ConnectionQueue[c], Schedule(c, timer, q)))
         /\ Waits(q, b, step, ConnectionQueue[c])
<1>1. q # ConnectionQueue[c]
  BY QueueNames
<1>2. QED
  BY <1>1 DEF Schedules, Inline

\* Fewer connections are young.
LEMMA QueueInvFewer ==
  ASSUME NEW D, NEW E, D \subseteq E, QueueInv(D)
  PROVE  QueueInv(E)
<1>1. Young(E) \subseteq Young(D)
  BY DEF Young
<1>2. ThreadInv(E)
  BY <1>1 DEF QueueInv, ThreadInv
<1>3. QED
  BY <1>1, <1>2, GoodFewer DEF QueueInv

-----------------------------------------------------------------------------
(* What the blocks do *)

LEMMA TakesIs ==
  ASSUME NEW E, QueueInv(E), NEW q \in Queues, NEW kind, Takes(q, kind)
  PROVE  LET b == Head(queue[q]) IN
         /\ b \in Suits(q, Young(E)) /\ b \in Blocks /\ b.kind = kind
         /\ thread[q] = Idle
         /\ Good(Taken(q), Young(E), HostsNow) /\ Taken(q).conn = conn
<1> DEFINE b == Head(queue[q])
           t == Taken(q)
<1>1. /\ Now \in States /\ Now.conn = conn /\ Now.queue = queue
      /\ queue \in [Queues -> Seq(Blocks)]
      /\ queue[q] \in Seq(Suits(q, Young(E))) /\ queue[q] # <<>>
  BY DEF QueueInv, Good, Now, States, Takes
<1>2. /\ b \in Suits(q, Young(E)) /\ b \in Blocks
      /\ Tail(queue[q]) \in Seq(Suits(q, Young(E))) /\ Tail(queue[q]) \in Seq(Blocks)
  <2>1. Suits(q, Young(E)) \subseteq Blocks
    BY DEF Suits
  <2>2. queue[q] \in Seq(Blocks)
    BY <1>1
  <2>3. QED
    BY <1>1, <2>1, <2>2, HeadTailProperties
<1>3. t \in States /\ t.conn = conn /\ t.queue = [queue EXCEPT ![q] = Tail(queue[q])]
  BY <1>1, <1>2 DEF Taken, States
<1>4. \A r \in Queues : t.queue[r] \in Seq(Suits(r, Young(E)))
  <2>1. \A r \in Queues : queue[r] \in Seq(Suits(r, Young(E)))
    BY <1>1 DEF QueueInv, Good
  <2>2. QED
    BY <1>1, <1>2, <1>3, <2>1
<1>5. Good(t, Young(E), HostsNow)
  BY <1>1, <1>3, <1>4 DEF QueueInv, Good
<1>6. QED
  BY <1>2, <1>3, <1>5 DEF Takes

\* The connection of a block in the queue of a connection.
LEMMA TakenConn ==
  ASSUME NEW E, NEW q \in ConnQueues, NEW b \in Suits(q, Young(E))
  PROVE  /\ b.conn \in Conns /\ ConnectionQueue[b.conn] = q /\ b \in Blocks
         /\ b.conn \in Young(E) => Harmless(b)
         /\ b.kind = "schedule" => b.what \in Timers
  BY DEF Suits

\* A change of fields that no part of the invariant is about.
LEMMA ClosedGood ==
  ASSUME NEW Y, NEW hosts, NEW s, Good(s, Y, hosts), NEW c \in Conns,
         NEW logical \in {"none", "open", "closed"}
  PROVE  Good([s EXCEPT !.conn[c].logical = logical], Y, hosts)
<1> DEFINE r == [s.conn[c] EXCEPT !.logical = logical]
<1>1. /\ r \in Objects /\ r.host = s.conn[c].host /\ r.delegate = s.conn[c].delegate
      /\ r.kept = s.conn[c].kept /\ r.timers = s.conn[c].timers
  BY GoodObject DEF Objects
<1>2. [s EXCEPT !.conn[c].logical = logical] = [s EXCEPT !.conn[c] = r]
  OBVIOUS
<1>3. /\ r.host = hosts[c] /\ (r.delegate \/ r.kept => hosts[c] # Nobody)
      /\ c \in Y => "force" \notin r.timers
  BY <1>1, GoodObject
<1> HIDE DEF r
<1>4. QED
  BY <1>1, <1>2, <1>3, ChangedGood

LEMMA ForceCloseSchedules ==
  ASSUME NEW E, OwnQueues, QueueInv(E), NEW q \in ConnQueues, NEW b \in Blocks,
         b.conn \in Conns \ Young(E), ConnectionQueue[b.conn] = q,
         NEW s, Good(s, Young(E), HostsNow), ScheduleForceClose(s, q, b), UNCHANGED serverConns
  PROVE  QueueInv(E)'
<1>1. Becomes(Scheduled(s, b.conn, "force")) /\ Finishes(q, b) /\ q \in Queues
  BY QueueNames DEF ScheduleForceClose, Inline
<1>2. Good(Scheduled(s, b.conn, "force"), Young(E), HostsNow)
  BY ScheduledGood DEF Timers
<1>3. QED
  BY <1>1, <1>2, FinishStep

LEMMA ForceCloseStep ==
  ASSUME NEW E, QueueInv(E), OwnQueues, NEW q \in ConnQueues, NEW b \in Blocks,
         b.conn \in Conns, ConnectionQueue[b.conn] = q,
         NEW s, Good(s, Young(E), HostsNow), s.conn[b.conn].delegate => b.conn \notin Young(E),
         ForceClose(s, q, b), UNCHANGED serverConns
  PROVE  QueueInv(E)'
<1> DEFINE c == b.conn
           u == [s EXCEPT !.conn[c].logical = "closed"]
           t == WasClosed(u, c)
           d == Block("deregister", c, "nothing", q)
<1>1. Good(u, Young(E), HostsNow)
  BY ClosedGood
<1> HIDE DEF u
<1>2. Good(t, Young(E), HostsNow)
  BY <1>1, EmittedGood DEF WasClosed, Words
<1>3. q \in Queues
  BY QueueNames
<1>4. CASE Becomes(s) /\ Finishes(q, b)
  BY <1>3, <1>4, FinishStep
<1>5. CASE Becomes(Descheduled(t, c)) /\ Finishes(q, b)
  BY <1>2, <1>3, <1>5, DescheduledGood, FinishStep
<1>6. CASE /\ s.conn[c].delegate /\ Becomes(Enqueued(t, SocketQueue, d))
           /\ Waits(q, b, "invalidating", SocketQueue)
  <2>1. d \in Blocks /\ d.kind = "deregister" /\ d.conn \in Conns
    BY <1>3 DEF Block, Blocks, Kinds, Words
  <2>2. d \in Suits(SocketQueue, Young(E))
    BY <2>1, QueueNames DEF Suits
  <2>3. Good(Enqueued(t, SocketQueue, d), Young(E), HostsNow)
    BY <1>2, <2>2, EnqueuedGood, QueueNames
  <2>4. QED
    BY <1>3, <1>6, <2>3, WaitStep, QueueNames
<1>7. QED
  BY <1>4, <1>5, <1>6 DEF ForceClose, u

LEMMA GotMessageStep ==
  ASSUME NEW E, QueueInv(E), OwnQueues, NEW q \in ConnQueues, GotMessage(q)
  PROVE  QueueInv(E)'
<1> DEFINE b == Head(queue[q])
           s == Scheduled(Taken(q), b.conn, "connection")
<1>1. /\ Takes(q, "message") /\ q \in Queues /\ UNCHANGED serverConns
      /\ \/ GotSyn(s, q, b) \/ ForceClose(s, q, b)
         \/ /\ Finishes(q, b)
            /\ Becomes(IF s.conn[b.conn].logical = "open" THEN Emitted(s, b.conn, "message") ELSE s)
  BY QueueNames DEF GotMessage
<1>2. /\ b \in Blocks /\ b.conn \in Conns \ Young(E) /\ ConnectionQueue[b.conn] = q
      /\ Good(Taken(q), Young(E), HostsNow)
  BY <1>1, TakesIs, TakenConn DEF Harmless
<1>3. Good(s, Young(E), HostsNow)
  BY <1>2, ScheduledGood DEF Timers
<1> HIDE DEF b, s
<1>4. CASE GotSyn(s, q, b)
  <2>1. CASE Becomes([s EXCEPT !.conn[b.conn].logical = "open"]) /\ Finishes(q, b)
    BY <1>1, <1>2, <1>3, <2>1, ClosedGood, FinishStep
  <2>2. CASE Becomes(s) /\ Finishes(q, b)
    BY <1>1, <1>2, <1>3, <2>2, FinishStep
  <2>3. CASE ScheduleForceClose(s, q, b)
    BY <1>1, <1>2, <1>3, <2>3, ForceCloseSchedules
  <2>4. QED
    BY <1>4, <2>1, <2>2, <2>3 DEF GotSyn
<1>5. CASE ForceClose(s, q, b)
  BY <1>1, <1>2, <1>3, <1>5, ForceCloseStep
<1>6. CASE /\ Finishes(q, b)
           /\ Becomes(IF s.conn[b.conn].logical = "open" THEN Emitted(s, b.conn, "message") ELSE s)
  <2>1. Good(Emitted(s, b.conn, "message"), Young(E), HostsNow)
    BY <1>2, <1>3, EmittedGood DEF Words
  <2>2. QED
    BY <1>1, <1>2, <1>3, <1>6, <2>1, FinishStep
<1>7. QED
  BY <1>1, <1>4, <1>5, <1>6

\* The end of EmiConnDelegate::invalidate.
LEMMA LetGoGood ==
  ASSUME OwnQueues, NEW Y, NEW hosts, NEW s, Good(s, Y, hosts), NEW c \in Conns
  PROVE  Good(Descheduled(LetGo(s, c), c), Y, hosts)
<1> DEFINE r == [s.conn[c] EXCEPT !.delegate = FALSE]
           t == [s EXCEPT !.conn[c] = r]
<1>1. /\ r \in Objects /\ r.host = s.conn[c].host /\ r.delegate = FALSE
      /\ r.kept = s.conn[c].kept /\ r.timers = s.conn[c].timers
  <2>1. s.conn[c] \in Objects
    BY GoodObject
  <2>2. QED
    BY <2>1 DEF Objects
<1>2. LetGo(s, c) = Released(t, c)
  BY DEF LetGo
<1>3. /\ r.host = hosts[c] /\ (r.delegate \/ r.kept => hosts[c] # Nobody)
      /\ c \in Y => "force" \notin r.timers
  BY <1>1, GoodObject
<1> HIDE DEF r
<1>4. Good(t, Y, hosts)
  BY <1>1, <1>3, ChangedGood
<1>5. QED
  BY <1>2, <1>4, ReleasedGood, DescheduledGood

\* The other blocks of a connection.
LEMMA ConnectionStep ==
  ASSUME NEW E, QueueInv(E), OwnQueues, NEW q \in ConnQueues, RunConnection(q)
  PROVE  QueueInv(E)'
<1> DEFINE b == Head(queue[q])
           s == Taken(q)
<1>1. q \in Queues /\ UNCHANGED serverConns
  BY QueueNames DEF RunConnection, GotMessage, Invalidated, Return, RunSchedule, RunSetDelegate,
                    RunForceClose, RunSend, RunDelete
<1>2. ASSUME NEW kind \in {"schedule", "setDelegate", "forceClose", "send", "delete"}, Takes(q, kind)
      PROVE  /\ b \in Blocks /\ b.conn \in Conns /\ ConnectionQueue[b.conn] = q /\ b.kind = kind
             /\ b.conn \in Young(E) => Harmless(b)
             /\ b.kind = "schedule" => b.what \in Timers
             /\ Good(s, Young(E), HostsNow) /\ s.conn = conn
             /\ s \in States /\ s.conn[b.conn] \in Objects
  <2>1. /\ b \in Blocks /\ b.conn \in Conns /\ ConnectionQueue[b.conn] = q /\ b.kind = kind
        /\ b.conn \in Young(E) => Harmless(b)
        /\ b.kind = "schedule" => b.what \in Timers
        /\ Good(s, Young(E), HostsNow) /\ s.conn = conn
    BY <1>1, <1>2, TakesIs, TakenConn
  <2> HIDE DEF b, s
  <2>2. s \in States
    BY <2>1 DEF Good
  <2>3. s.conn[b.conn] \in Objects
    BY <2>1, GoodObject
  <2>4. QED
    BY <2>1, <2>2, <2>3
<1>3. CASE RunSchedule(q)
  <2>1. /\ Becomes(Scheduled(s, b.conn, b.what)) /\ Finishes(q, b) /\ Takes(q, "schedule")
    BY <1>3 DEF RunSchedule
  <2>2. b.what \in Timers /\ (b.what = "force" => b.conn \notin Young(E))
    BY <1>2, <2>1 DEF Harmless
  <2>3. QED
    BY <1>1, <1>2, <2>1, <2>2, ScheduledGood, FinishStep
<1>4. CASE RunSetDelegate(q)
  <2> DEFINE c == b.conn
             r == [s.conn[c] EXCEPT !.delegateQueue = TRUE, !.listened = conn[c].delegate]
             t == DelegateSet(s, c)
  <2>1. Becomes(t) /\ Finishes(q, b) /\ Takes(q, "setDelegate")
    BY <1>4 DEF RunSetDelegate
  <2>2. c \in Conns /\ s.conn[c] \in Objects /\ s \in States /\ s.conn = conn
    BY <1>2, <2>1
  <2>3. Good(s, Young(E), HostsNow)
    BY <1>2, <2>1
  <2> HIDE DEF b, s, c
  <2>4. /\ r \in Objects /\ r.host = s.conn[c].host /\ r.delegate = s.conn[c].delegate
        /\ r.kept = s.conn[c].kept /\ r.timers = s.conn[c].timers
    BY <2>2 DEF Objects
  <2>5. t = [s EXCEPT !.conn[c] = r]
    BY <2>2 DEF States, DelegateSet
  <2> HIDE DEF r, t
  <2>6. Good(t, Young(E), HostsNow)
    BY <2>2, <2>3, <2>4, <2>5, GoodObject, ChangedGood
  <2>7. QED
    BY <1>1, <1>2, <2>1, <2>6, FinishStep
<1>5. CASE RunForceClose(q)
  <2>1. Takes(q, "forceClose") /\ ScheduleForceClose(s, q, b)
    BY <1>5 DEF RunForceClose
  <2>2. b.conn \notin Young(E)
    BY <1>2, <2>1 DEF Harmless
  <2>3. QED
    BY <1>1, <1>2, <2>1, <2>2, ForceCloseSchedules
<1>6. CASE RunSend(q)
  <2>1. Takes(q, "send") /\ Becomes(s) /\ Finishes(q, b)
    BY <1>6 DEF RunSend
  <2>2. QED
    BY <1>1, <1>2, <2>1, FinishStep
<1>7. CASE RunDelete(q)
  <2> DEFINE c == b.conn
             r == [s.conn[c] EXCEPT !.alive = FALSE, !.timers = {}]
             t == [s EXCEPT !.conn[c].alive = FALSE, !.conn[c].timers = {}]
  <2>1. Becomes(t) /\ Finishes(q, b) /\ Takes(q, "delete")
    BY <1>7 DEF RunDelete
  <2>2. c \in Conns /\ s.conn[c] \in Objects /\ s \in States
    BY <1>2, <2>1
  <2>3. Good(s, Young(E), HostsNow)
    BY <1>2, <2>1
  <2> HIDE DEF b, s, c
  <2>4. /\ r \in Objects /\ r.host = s.conn[c].host /\ r.delegate = s.conn[c].delegate
        /\ r.kept = s.conn[c].kept /\ r.timers = {}
    BY <2>2 DEF Objects
  <2>5. t = [s EXCEPT !.conn[c] = r]
    BY <2>2 DEF States
  <2> HIDE DEF r, t
  <2>6. Good(t, Young(E), HostsNow)
    BY <2>2, <2>3, <2>4, <2>5, GoodObject, ChangedGood
  <2>7. QED
    BY <1>1, <1>2, <2>1, <2>6, FinishStep
<1>8. CASE Invalidated(q)
  <2> DEFINE d == thread[q].block
  <2>1. /\ Becomes(Descheduled(LetGo(Now, d.conn), d.conn)) /\ Finishes(q, d)
        /\ thread[q].step = "invalidating"
    BY <1>8 DEF Invalidated, Resumes
  <2>2. d \in Blocks /\ d.conn \in Conns /\ Good(Now, Young(E), HostsNow)
    BY <1>1, <2>1 DEF QueueInv, ThreadInv, Threads
  <2>3. QED
    BY <1>1, <2>1, <2>2, LetGoGood, FinishStep
<1>9. CASE Return(q)
  <2>1. thread[q].block \in Blocks /\ Good(Now, Young(E), HostsNow)
    BY <1>1 DEF QueueInv, ThreadInv, Threads
  <2>2. Finishes(q, thread[q].block) /\ Becomes(Now)
    BY <1>9 DEF Return, Becomes, Now
  <2>3. QED
    BY <1>1, <2>1, <2>2, FinishStep
<1>10. QED
  BY <1>3, <1>4, <1>5, <1>6, <1>7, <1>8, <1>9, GotMessageStep DEF RunConnection

-----------------------------------------------------------------------------
(* The socket's queue *)

\* The packet that the socket's queue takes.
LEMMA PacketIs ==
  ASSUME NEW E, OwnQueues, QueueInv(E), Takes(SocketQueue, "packet")
  PROVE  LET b == Head(queue[SocketQueue]) IN
         /\ b \in Blocks /\ b.what \in Types \X Hosts /\ b.what[1] \in Types /\ b.what[2] \in Hosts
         /\ thread[SocketQueue] = Idle
         /\ Good(Taken(SocketQueue), Young(E), HostsNow) /\ Taken(SocketQueue).conn = conn
<1> DEFINE b == Head(queue[SocketQueue])
<1>1. /\ b \in Suits(SocketQueue, Young(E)) /\ b \in Blocks /\ b.kind = "packet"
      /\ thread[SocketQueue] = Idle
      /\ Good(Taken(SocketQueue), Young(E), HostsNow) /\ Taken(SocketQueue).conn = conn
  BY TakesIs, QueueNames
<1>2. b.what \in Types \X Hosts
  BY <1>1 DEF Suits
<1>3. QED
  BY <1>1, <1>2

\* Nobody is young behind an address that leads to it, while the socket makes nobody.
LEMMA FoundIsGrown ==
  ASSUME NEW E, QueueInv(E), thread[SocketQueue] = Idle, NEW h \in Hosts, serverConns[h] # NoConn
  PROVE  serverConns[h] \in Conns \ Young(E)
  BY IdleIs DEF QueueInv, MapInv, Young, Inside, Constructing

LEMMA PassOnStep ==
  ASSUME NEW E, OwnQueues, QueueInv(E), PassOn
  PROVE  QueueInv(E)'
<1> DEFINE b == Head(queue[SocketQueue])
           c == serverConns[b.what[2]]
           m == Block("message", c, b.what[1], Nobody)
           s == Taken(SocketQueue)
<1>1. /\ Takes(SocketQueue, "packet") /\ c # NoConn /\ UNCHANGED serverConns
      /\ Becomes(Enqueued(s, ConnectionQueue[c], m)) /\ Finishes(SocketQueue, b)
  BY DEF PassOn
<1>2. /\ b \in Blocks /\ b.what[1] \in Types /\ b.what[2] \in Hosts
      /\ thread[SocketQueue] = Idle /\ Good(s, Young(E), HostsNow)
  BY <1>1, PacketIs
<1>3. c \in Conns \ Young(E)
  BY <1>1, <1>2, FoundIsGrown
<1> HIDE DEF c, s, b
<1>4. m \in Blocks /\ m.kind = "message" /\ m.conn = c
  BY <1>2, <1>3 DEF Block, Blocks, Kinds, Words
<1>5. m \in Suits(ConnectionQueue[c], Young(E))
  BY <1>3, <1>4, QueueNames DEF Suits
<1>6. Good(Enqueued(s, ConnectionQueue[c], m), Young(E), HostsNow)
  BY <1>2, <1>3, <1>5, QueueNames, EnqueuedGood
<1>7. QED
  BY <1>1, <1>2, <1>6, QueueNames, FinishStep

LEMMA AcceptStep ==
  ASSUME NEW E, QueueInv(E), OwnQueues, Accept
  PROVE  QueueInv(E)'
<1> DEFINE b == Head(queue[SocketQueue])
           s == Taken(SocketQueue)
           h == b.what[2]
<1>1. Takes(SocketQueue, "packet") /\ UNCHANGED serverConns
  BY DEF Accept
<1>2. /\ b \in Blocks /\ h \in Hosts
      /\ thread[SocketQueue] = Idle /\ Good(s, Young(E), HostsNow) /\ s.conn = conn
  BY <1>1, PacketIs
<1>3. PICK c \in Conns :
        /\ conn[c] = Unmade
        /\ Becomes(Enqueued(
             [s EXCEPT !.conn[c] =
                [Unmade EXCEPT !.host = h, !.alive = TRUE, !.delegate = TRUE, !.refs = 1]],
             ConnectionQueue[c], Schedule(c, "connection", SocketQueue)))
        /\ Waits(SocketQueue, [b EXCEPT !.conn = c], "constructing", ConnectionQueue[c])
  <2>1. PICK c \in Conns :
          /\ conn[c] = Unmade
          /\ Schedules(
               [s EXCEPT !.conn[c] =
                  [Unmade EXCEPT !.host = h, !.alive = TRUE, !.delegate = TRUE, !.refs = 1]],
               SocketQueue, [b EXCEPT !.conn = c], "constructing", c, "connection")
    BY DEF Accept
  <2> HIDE DEF b, s
  <2>2. SocketQueue \in Queues \ ConnQueues
    BY QueueNames
  <2>3. QED
    BY <2>1, <2>2, SchedulesIs
<1> HIDE DEF b, s
<1> DEFINE r  == [Unmade EXCEPT !.host = h, !.alive = TRUE, !.delegate = TRUE, !.refs = 1]
           u  == [s EXCEPT !.conn[c] = r]
           hs == [HostsNow EXCEPT ![c] = h]
           d  == [b EXCEPT !.conn = c]
           n  == Enqueued(u, ConnectionQueue[c], Schedule(c, "connection", SocketQueue))
           t  == [block |-> d, step |-> "constructing", waits |-> ConnectionQueue[c]]
<1>4. r \in Objects /\ r.host = h /\ r.timers = {} /\ h # Nobody
  <2>1. Unmade \in Objects /\ Unmade.timers = {}
    BY DEF Unmade, Objects
  <2>2. 1 \in Int
    OBVIOUS
  <2> HIDE DEF h
  <2>3. r \in Objects /\ r.host = h /\ r.timers = Unmade.timers
    BY <1>2, <2>1, <2>2, Zenon DEF Objects
  <2>4. QED
    BY <1>2, <2>1, <2>3, QueueNames
<1> HIDE DEF r
<1>5. c \in Young(E) /\ conn[c].host = Nobody
  BY <1>3 DEF Young, Unmade
<1>6. Good(u, Young(E), hs)
  <2>1. s \in States
    BY <1>2 DEF Good
  <2>2. u \in States /\ u.queue = s.queue /\ u.conn = [s.conn EXCEPT ![c] = r]
    BY <1>4, <2>1 DEF States
  <2>3. \A e \in Conns : /\ u.conn[e] = IF e = c THEN r ELSE s.conn[e]
                         /\ hs[e] = IF e = c THEN h ELSE HostsNow[e]
    BY <2>1, <2>2 DEF States, HostsNow
  <2>4. QED
    BY <1>2, <1>4, <2>2, <2>3 DEF Good
<1>7. Good(n, Young(E), hs)
  <2>1. Schedule(c, "connection", SocketQueue) \in Suits(ConnectionQueue[c], Young(E))
    BY HarmlessSuits, QueueNames DEF Schedule, Words
  <2>2. QED
    BY <1>6, <2>1, QueueNames, EnqueuedGood
<1>8. /\ conn' = n.conn /\ queue' = n.queue /\ n \in States
      /\ \A e \in Conns : conn'[e].host = IF e = c THEN h ELSE conn[e].host
  <2>1. conn' = n.conn /\ queue' = n.queue
    BY <1>3 DEF Becomes, r
  <2> HIDE DEF n
  <2>2. QED
    BY <1>7, <2>1 DEF Good, HostsNow
<1>9. HostsNow' = hs
  <2> HIDE DEF n
  <2>1. QED
    BY <1>8 DEF HostsNow
<1>10. Now' = n
  <2> HIDE DEF n
  <2>1. QED
    BY <1>8 DEF Now, States
<1>11. d \in Blocks /\ d.conn = c
  BY <1>2 DEF Blocks
<1>12. t \in Threads /\ t.block.conn = c /\ t.step = "constructing" /\ t.waits = ConnectionQueue[c]
  BY <1>11, QueueNames DEF Threads, Making
<1> HIDE DEF t, n, d
<1>13. /\ thread \in [Queues -> Threads] /\ thread' \in [Queues -> Threads]
       /\ thread'[SocketQueue] = t
       /\ \A q \in Queues : q # SocketQueue => thread'[q] = thread[q]
  BY <1>3, <1>12, QueueNames DEF QueueInv, ThreadInv, Waits, t, d
<1>14. Young(E)' \subseteq Young(E)
  <2> SUFFICES ASSUME NEW e \in Young(E)'
               PROVE  e \in Young(E)
    OBVIOUS
  <2>1. e \in Conns /\ (conn'[e].host = Nobody \/ Inside(e)' \/ Constructing(e)')
    BY DEF Young
  <2>2. Inside(e)' \/ Constructing(e)' => e = c
    BY <1>12, <1>13 DEF Inside, Constructing
  <2>3. QED
    BY <1>5, <1>8, <2>1, <2>2 DEF Young
<1>15. ThreadInv(E)'
  <2>1. thread'[DelegateQueue].waits \in ConnQueues \cup {Nobody}
    BY <1>13, QueueNames DEF QueueInv, ThreadInv, OwnQueues
  <2>2. \A q \in ConnQueues :
          /\ thread'[q].waits \in {Nobody, SocketQueue}
          /\ thread'[q].waits # Nobody => thread'[q].step = "invalidating"
          /\ thread'[q].step = "invalidating" =>
               thread'[q].block.conn \in Conns /\ ConnectionQueue[thread'[q].block.conn] = q
    BY <1>13, QueueNames DEF QueueInv, ThreadInv
  <2>3. \A e \in Young(E)' : thread'[ConnectionQueue[e]].waits = Nobody
    BY <1>13, <1>14, QueueNames DEF QueueInv, ThreadInv, Young
  <2>4. conn'[c].host # Nobody
    BY <1>4, <1>8
  <2>5. QED
    BY <1>12, <1>13, <2>1, <2>2, <2>3, <2>4 DEF ThreadInv, Making
<1>16. MapInv'
  BY <1>1, <1>4, <1>8 DEF QueueInv, MapInv
<1>17. QED
  BY <1>7, <1>9, <1>10, <1>14, <1>15, <1>16, GoodFewer DEF QueueInv

LEMMA MakeServerConnectionStep ==
  ASSUME NEW E, QueueInv(E), OwnQueues, MakeServerConnection
  PROVE  QueueInv(E)'
<1> DEFINE b == thread[SocketQueue].block
           c == b.conn
           s == Enqueued(Now, DelegateQueue, Block("gotConnection", c, "nothing", Nobody))
           t == Enqueued(s, ConnectionQueue[c], Schedule(c, "tick", SocketQueue))
<1>1. /\ thread[SocketQueue].step = "constructing"
      /\ serverConns' = [serverConns EXCEPT ![conn[c].host] = c]
      /\ Schedules(s, SocketQueue, b, "opening", c, "tick")
  BY DEF MakeServerConnection, Resumes
<1>2. /\ b \in Blocks /\ c \in Conns /\ conn[c].host # Nobody
      /\ Good(Now, Young(E), HostsNow)
  BY <1>1, QueueNames DEF QueueInv, ThreadInv, Threads, Making
<1>3. Block("gotConnection", c, "nothing", Nobody) \in Suits(DelegateQueue, Young(E))
  BY <1>2, DelegateSuits DEF Words
<1>4. Schedule(c, "tick", SocketQueue) \in Suits(ConnectionQueue[c], Young(E))
  BY <1>2, HarmlessSuits, QueueNames DEF Schedule, Words
<1>5. Good(s, Young(E), HostsNow)
  BY <1>2, <1>3, EnqueuedGood, QueueNames
<1> HIDE DEF s, b
<1>10. Becomes(t) /\ Waits(SocketQueue, b, "opening", ConnectionQueue[c])
  BY <1>1, <1>2, SchedulesIs, QueueNames
<1>6. Good(t, Young(E), HostsNow)
  BY <1>2, <1>4, <1>5, EnqueuedGood, QueueNames
<1> HIDE DEF t
<1>7. \A d \in Conns : conn'[d].host = conn[d].host
  BY <1>6, <1>10, BecomesGood
<1>8. MapInv'
  BY <1>1, <1>2, <1>7 DEF QueueInv, MapInv
<1>9. QED
  BY <1>1, <1>2, <1>6, <1>8, <1>10, MakingStep DEF Making, b

LEMMA OpenedStep ==
  ASSUME NEW E, QueueInv(E), OwnQueues, Opened
  PROVE  QueueInv(E)'
<1> DEFINE b == thread[SocketQueue].block
           c == b.conn
           s == [Now EXCEPT !.conn[c].logical = "open"]
           t == Enqueued(s, ConnectionQueue[c], Schedule(c, "connection", SocketQueue))
<1>1. /\ thread[SocketQueue].step = "opening" /\ UNCHANGED serverConns
      /\ Schedules(s, SocketQueue, b, "opened", c, "connection")
  BY DEF Opened, Resumes
<1>2. b \in Blocks /\ c \in Conns /\ Good(Now, Young(E), HostsNow)
  BY <1>1, QueueNames DEF QueueInv, ThreadInv, Threads, Making
<1>3. Schedule(c, "connection", SocketQueue) \in Suits(ConnectionQueue[c], Young(E))
  BY <1>2, HarmlessSuits, QueueNames DEF Schedule, Words
<1>4. Good(s, Young(E), HostsNow)
  BY <1>2, ClosedGood
<1> HIDE DEF s, b
<1>8. Becomes(t) /\ Waits(SocketQueue, b, "opened", ConnectionQueue[c])
  BY <1>1, <1>2, SchedulesIs, QueueNames
<1>5. Good(t, Young(E), HostsNow)
  BY <1>2, <1>3, <1>4, EnqueuedGood, QueueNames
<1> HIDE DEF t
<1>6. MapInv'
  BY <1>1, <1>5, <1>8, BecomesGood, MapStays DEF QueueInv
<1>7. QED
  BY <1>1, <1>2, <1>5, <1>6, <1>8, MakingStep DEF Making, b

\* The other blocks of the socket.
LEMMA SocketStep ==
  ASSUME NEW E, QueueInv(E), OwnQueues, RunSocket
  PROVE  QueueInv(E)'
<1> DEFINE b == Head(queue[SocketQueue])
           s == Taken(SocketQueue)
<1>1. CASE Stray
  <2>1. Takes(SocketQueue, "packet") /\ Becomes(s) /\ Finishes(SocketQueue, b) /\ UNCHANGED serverConns
    BY <1>1 DEF Stray
  <2>2. QED
    BY <2>1, PacketIs, QueueNames, FinishStep
<1>2. CASE Deregister
  <2>1. /\ Takes(SocketQueue, "deregister") /\ Becomes(s) /\ Finishes(SocketQueue, b)
        /\ serverConns' = [serverConns EXCEPT ![conn[b.conn].host] = NoConn]
    BY <1>2 DEF Deregister
  <2>2. b \in Blocks /\ Good(s, Young(E), HostsNow) /\ SocketQueue \in Queues
    BY <2>1, TakesIs, QueueNames
  <2>3. /\ HostsNow' = HostsNow /\ Good(Now', Young(E), HostsNow')
        /\ \A c \in Conns : conn'[c].host = conn[c].host
    BY <2>1, <2>2, BecomesGood
  <2>4. MapInv'
    BY <2>1, <2>3 DEF QueueInv, MapInv
  <2>5. QED
    BY <2>1, <2>2, <2>4, FinishStep
<1>3. CASE Return(SocketQueue)
  <2>1. thread[SocketQueue].block \in Blocks /\ Good(Now, Young(E), HostsNow)
    BY QueueNames DEF QueueInv, ThreadInv, Threads
  <2>2. Finishes(SocketQueue, thread[SocketQueue].block) /\ Becomes(Now) /\ UNCHANGED serverConns
    BY <1>3 DEF Return, Becomes, Now
  <2>3. QED
    BY <2>1, <2>2, QueueNames, FinishStep
<1>4. QED
  BY <1>1, <1>2, <1>3, PassOnStep, AcceptStep, MakeServerConnectionStep, OpenedStep DEF RunSocket

-----------------------------------------------------------------------------
(* The delegate queue, the timers and the network *)

\* The application keeps a connection, or does not any more.
LEMMA KeptGood ==
  ASSUME NEW Y, NEW hosts, NEW s, Good(s, Y, hosts), NEW c \in Conns, NEW kept \in BOOLEAN,
         kept => hosts[c] # Nobody
  PROVE  Good([s EXCEPT !.conn[c].kept = kept], Y, hosts)
<1> DEFINE r == [s.conn[c] EXCEPT !.kept = kept]
<1>1. /\ r \in Objects /\ r.host = s.conn[c].host /\ r.delegate = s.conn[c].delegate
      /\ r.kept = kept /\ r.timers = s.conn[c].timers
  <2>1. s.conn[c] \in Objects
    BY GoodObject
  <2>2. QED
    BY <2>1, Zenon DEF Objects
<1>2. /\ r.host = hosts[c] /\ (r.delegate \/ r.kept => hosts[c] # Nobody)
      /\ c \in Y => "force" \notin r.timers
  BY <1>1, GoodObject
<1>3. [s EXCEPT !.conn[c].kept = kept] = [s EXCEPT !.conn[c] = r]
  OBVIOUS
<1> HIDE DEF r
<1>4. QED
  BY <1>1, <1>2, <1>3, ChangedGood

LEMMA DelegateStep ==
  ASSUME NEW E, QueueInv(E), OwnQueues, RunDelegate
  PROVE  QueueInv(E)'
<1> DEFINE b == Head(queue[DelegateQueue])
           c == b.conn
           s == Taken(DelegateQueue)
<1>1. DelegateQueue \in Queues /\ UNCHANGED serverConns
  BY QueueNames DEF RunDelegate, GotNoConnection, GotConnection, RunCallback, Return
<1>2. ASSUME NEW kind, Takes(DelegateQueue, kind)
      PROVE  /\ b \in Blocks /\ c \in Conns
             /\ Good(s, Young(E), HostsNow) /\ s.conn = conn
  BY <1>1, <1>2, TakesIs DEF Suits
<1>3. CASE GotNoConnection
  <2>1. Takes(DelegateQueue, "gotConnection") /\ Becomes(s) /\ Finishes(DelegateQueue, b)
    BY <1>3 DEF GotNoConnection
  <2>2. QED
    BY <1>1, <1>2, <2>1, FinishStep
<1>4. CASE GotConnection
  <2> DEFINE u == [s EXCEPT !.conn[c].kept = TRUE]
             d == Block("setDelegate", c, "nothing", DelegateQueue)
             n == Enqueued(Retained(u, c), ConnectionQueue[c], d)
  <2>1. /\ Takes(DelegateQueue, "gotConnection") /\ conn[c].delegate
        /\ \/ Becomes(s) /\ Finishes(DelegateQueue, b)
           \/ Inline(DelegateQueue, ConnectionQueue[c])
           \/ Becomes(n) /\ Waits(DelegateQueue, b, "called", ConnectionQueue[c])
    BY <1>4 DEF GotConnection
  <2>2. /\ b \in Blocks /\ c \in Conns /\ ConnectionQueue[c] \in ConnQueues
        /\ ConnectionQueue[c] \in Queues /\ Good(s, Young(E), HostsNow) /\ s.conn = conn
    BY <1>2, <2>1, QueueNames
  <2> HIDE DEF s, b
  <2>3. HostsNow[c] # Nobody
    BY <2>1, <2>2 DEF Good
  <2>4. Good(u, Young(E), HostsNow)
    BY <2>2, <2>3, KeptGood
  <2>5. d \in Suits(ConnectionQueue[c], Young(E))
    BY <1>1, <2>2, HarmlessSuits DEF Words
  <2>6. Good(n, Young(E), HostsNow)
    BY <2>2, <2>4, <2>5, RetainedGood, EnqueuedGood
  <2> HIDE DEF n
  <2>7. QED
    BY <1>1, <2>1, <2>2, <2>6, FinishStep, WaitStep, QueueNames DEF Inline
<1>5. CASE RunCallback
  <2> DEFINE r == [s.conn[c] EXCEPT !.told = @ \/ b.what = "disconnect"]
             u == [s EXCEPT !.conn[c].told = @ \/ b.what = "disconnect"]
  <2>1. /\ Takes(DelegateQueue, "callback") /\ Becomes(Released(u, c))
        /\ Finishes(DelegateQueue, b)
    BY <1>5 DEF RunCallback
  <2>2. b \in Blocks /\ c \in Conns /\ Good(s, Young(E), HostsNow)
    BY <1>2, <2>1
  <2> HIDE DEF s, b
  <2>3. s.conn[c] \in Objects
    BY <2>2, GoodObject
  <2>4. /\ r \in Objects /\ r.host = s.conn[c].host /\ r.delegate = s.conn[c].delegate
        /\ r.kept = s.conn[c].kept /\ r.timers = s.conn[c].timers
    BY <2>3, Zenon DEF Objects
  <2>5. /\ r.host = HostsNow[c] /\ (r.delegate \/ r.kept => HostsNow[c] # Nobody)
        /\ c \in Young(E) => "force" \notin r.timers
    BY <2>2, <2>4, GoodObject
  <2>6. u = [s EXCEPT !.conn[c] = r]
    OBVIOUS
  <2> HIDE DEF r, u
  <2>7. Good(Released(u, c), Young(E), HostsNow)
    BY <2>2, <2>4, <2>5, <2>6, ChangedGood, ReleasedGood
  <2>8. QED
    BY <1>1, <2>1, <2>2, <2>7, FinishStep
<1>6. CASE Return(DelegateQueue)
  <2>1. thread[DelegateQueue].block \in Blocks /\ Good(Now, Young(E), HostsNow)
    BY <1>1 DEF QueueInv, ThreadInv, Threads
  <2>2. Finishes(DelegateQueue, thread[DelegateQueue].block) /\ Becomes(Now)
    BY <1>6 DEF Return, Becomes, Now
  <2>3. QED
    BY <1>1, <2>1, <2>2, FinishStep
<1>7. QED
  BY <1>3, <1>4, <1>5, <1>6 DEF RunDelegate

\* A step that leaves the threads alone.
LEMMA OtherStep ==
  ASSUME NEW E, QueueInv(E),
         NEW s, Good(s, Young(E), HostsNow), Becomes(s), UNCHANGED <<thread, serverConns>>
  PROVE  QueueInv(E)'
<1>1. /\ HostsNow' = HostsNow /\ Good(Now', Young(E), HostsNow')
      /\ \A c \in Conns : conn'[c].host = conn[c].host
  BY BecomesGood
<1>2. Young(E)' \subseteq Young(E)
  BY <1>1, YoungStay
<1>3. ThreadInv(E)'
  BY <1>1, <1>2 DEF QueueInv, ThreadInv
<1>4. MapInv'
  BY <1>1, MapStays DEF QueueInv
<1>5. QED
  BY <1>1, <1>2, <1>3, <1>4, GoodFewer DEF QueueInv

\* The application calls a connection when it is made; and it is not young any more when it
\* is force closed.
LEMMA CallStep ==
  ASSUME NEW E, OwnQueues, QueueInv(E), NEW c \in Conns, NEW method \in {"send", "forceClose"},
         Call(c, method),
         method = "forceClose" => ~Constructing(c) /\ (Inside(c) => c \in E)
  PROVE  QueueInv(E)'
<1> DEFINE d == Block(method, c, "nothing", DelegateQueue)
           b == Block("call", c, method, Nobody)
<1>1. DelegateQueue # ConnectionQueue[c]
  BY QueueNames
<1>2. /\ conn[c].kept /\ UNCHANGED serverConns
      /\ Becomes(Enqueued(Now, ConnectionQueue[c], d))
      /\ Waits(DelegateQueue, b, "called", ConnectionQueue[c])
  BY <1>1 DEF Call, Calls, Inline
<1>3. Good(Now, Young(E), HostsNow) /\ Now.conn = conn
  BY DEF QueueInv, Now
<1>4. method = "forceClose" => c \notin Young(E)
  BY <1>2, <1>3 DEF Young, Good, HostsNow
<1>5. /\ d \in Blocks /\ d.conn = c /\ d.kind = method /\ b \in Blocks
      /\ ConnectionQueue[c] \in ConnQueues /\ ConnectionQueue[c] \in Queues
      /\ DelegateQueue \in Queues
  BY QueueNames DEF Block, Blocks, Kinds, Words
<1>6. d \in Suits(ConnectionQueue[c], Young(E))
  BY <1>4, <1>5, QueueNames DEF Suits, Harmless
<1>7. Good(Enqueued(Now, ConnectionQueue[c], d), Young(E), HostsNow)
  BY <1>3, <1>5, <1>6, EnqueuedGood
<1>8. QED
  BY <1>2, <1>5, <1>7, WaitStep

LEMMA CloseWithErrorStep ==
  ASSUME NEW E, OwnQueues, QueueInv(E), NEW c \in Conns, CloseWithError(c)
  PROVE  QueueInv(E)'
<1> DEFINE b == Block("call", c, "closeWithError", Nobody)
           d == Schedule(c, "tick", DelegateQueue)
<1>1. UNCHANGED serverConns
  BY DEF CloseWithError, Calls
<1>2. Good(Now, Young(E), HostsNow)
  BY DEF QueueInv
<1>3. CASE UNCHANGED <<conn, queue, thread>>
  <2>1. Becomes(Now)
    BY <1>3 DEF Becomes, Now
  <2>2. QED
    BY <1>1, <1>2, <1>3, <2>1, OtherStep
<1>4. CASE Schedules(Now, DelegateQueue, b, "closing", c, "tick")
  <2>1. /\ b \in Blocks /\ ConnectionQueue[c] \in ConnQueues /\ ConnectionQueue[c] \in Queues
        /\ DelegateQueue \in Queues \ ConnQueues
    BY QueueNames DEF Block, Blocks, Kinds, Words
  <2>2. d \in Suits(ConnectionQueue[c], Young(E))
    BY <2>1, HarmlessSuits DEF Schedule, Words
  <2>3. Good(Enqueued(Now, ConnectionQueue[c], d), Young(E), HostsNow)
    BY <1>2, <2>1, <2>2, EnqueuedGood
  <2> HIDE DEF b
  <2>4. /\ Becomes(Enqueued(Now, ConnectionQueue[c], d))
        /\ Waits(DelegateQueue, b, "closing", ConnectionQueue[c])
    BY <1>4, <2>1, SchedulesIs
  <2>5. QED
    BY <1>1, <2>1, <2>3, <2>4, WaitStep
<1>5. QED
  BY <1>3, <1>4 DEF CloseWithError

LEMMA LoseInterestStep ==
  ASSUME NEW E, QueueInv(E), OwnQueues, NEW c \in Conns, LoseInterest(c)
  PROVE  QueueInv(E)'
<1> DEFINE s == [Now EXCEPT !.conn[c].kept = FALSE]
<1>1. Good(s, Young(E), HostsNow)
  BY KeptGood DEF QueueInv
<1> HIDE DEF s
<1>2. Becomes(Released(s, c)) /\ UNCHANGED <<thread, serverConns>>
  BY DEF LoseInterest, s
<1>3. QED
  BY <1>1, <1>2, ReleasedGood, OtherStep

LEMMA RunTimerStep ==
  ASSUME NEW E, QueueInv(E), OwnQueues, NEW c \in Conns, NEW timer \in {"connection", "force"},
         RunTimer(c, timer)
  PROVE  QueueInv(E)'
<1> DEFINE q == ConnectionQueue[c]
           r == [Now.conn[c] EXCEPT !.timers = @ \ {timer}]
           s == [Now EXCEPT !.conn[c].timers = @ \ {timer}]
           b == Block("timer", c, timer, Nobody)
<1>1. /\ timer \in conn[c].timers /\ (timer = "connection" => ~Inside(c))
      /\ ForceClose(s, q, b) /\ UNCHANGED serverConns
  BY DEF RunTimer
<1>2. Good(Now, Young(E), HostsNow) /\ Now.conn = conn /\ Now.conn[c] \in Objects /\ Now \in States
  BY GoodObject DEF QueueInv, Now, Good
<1>3. /\ r \in Objects /\ r.host = Now.conn[c].host /\ r.delegate = Now.conn[c].delegate
      /\ r.kept = Now.conn[c].kept /\ r.timers \subseteq Now.conn[c].timers
  BY <1>2 DEF Objects
<1>4. s = [Now EXCEPT !.conn[c] = r]
  OBVIOUS
<1>5. s.conn[c] = r
  BY <1>2, <1>4 DEF States
<1>6. /\ r.host = HostsNow[c] /\ (r.delegate \/ r.kept => HostsNow[c] # Nobody)
      /\ c \in Young(E) => "force" \notin r.timers
  BY <1>2, <1>3, GoodObject
<1> HIDE DEF r, s
<1>7. Good(s, Young(E), HostsNow)
  BY <1>2, <1>3, <1>4, <1>6, ChangedGood
<1>8. s.conn[c].delegate => c \notin Young(E)
  <2>1. CASE timer = "force"
    BY <1>1, <1>2, <2>1 DEF Good
  <2>2. CASE timer = "connection"
    BY <1>1, <1>5, <1>6, <2>2 DEF Young, HostsNow, Constructing, Inside
  <2>3. QED
    BY <2>1, <2>2
<1>9. b \in Blocks /\ b.conn = c /\ q \in ConnQueues
  BY QueueNames DEF Block, Blocks, Kinds, Words
<1>10. QED
  BY <1>1, <1>7, <1>8, <1>9, ForceCloseStep

LEMMA ArriveStep ==
  ASSUME NEW E, QueueInv(E), OwnQueues, NEW type \in Types, NEW h \in Hosts, Arrive(type, h)
  PROVE  QueueInv(E)'
<1> DEFINE b == Packet(type, h)
<1>1. b \in Blocks /\ b.what \in Types \X Hosts /\ b.kind = "packet"
  BY DEF Packet, Block, Blocks, Kinds, NoConn
<1>2. b \in Suits(SocketQueue, Young(E))
  BY <1>1, QueueNames DEF Suits, OwnQueues
<1>3. Good(Enqueued(Now, SocketQueue, b), Young(E), HostsNow)
  BY <1>2, EnqueuedGood, QueueNames DEF QueueInv
<1>4. Becomes(Enqueued(Now, SocketQueue, b)) /\ UNCHANGED <<thread, serverConns>>
  BY DEF Arrive
<1>5. QED
  BY <1>3, <1>4, OtherStep

-----------------------------------------------------------------------------
(* The invariant *)

LEMMA InitQueueInv ==
  ASSUME NEW E, OwnQueues, Init
  PROVE  QueueInv(E)
<1>1. /\ conn = [c \in Conns |-> Unmade] /\ serverConns = [h \in Hosts |-> NoConn]
      /\ queue = [q \in Queues |-> <<>>] /\ thread = [q \in Queues |-> Idle]
  BY DEF Init
<1>2. /\ Unmade \in Objects /\ Unmade.host = Nobody /\ Unmade.timers = {}
      /\ ~Unmade.delegate /\ ~Unmade.kept
  BY DEF Unmade, Objects
<1>3. Now \in States
  BY <1>1, <1>2 DEF Now, States
<1>4. Good(Now, Young(E), HostsNow)
  BY <1>1, <1>2, <1>3 DEF Good, Now, HostsNow
<1>5. ThreadInv(E)
  BY <1>1, IdleIs, QueueNames DEF ThreadInv, Making, Young, Constructing, Inside
<1>6. MapInv
  BY <1>1 DEF MapInv
<1>7. QED
  BY <1>4, <1>5, <1>6 DEF QueueInv

\* The only circle: the socket waits for a connection that it opens, and that, which was
\* force closed, for the socket.
LEMMA NoCircleThen ==
  ASSUME OwnQueues, QueueInv(early)
  PROVE  NoCircle
<1> SUFFICES ASSUME NEW waiting \in (SUBSET Queues) \ {{}},
                    \A q \in waiting : thread[q].waits \in waiting
             PROVE  \E c \in early :
                      /\ Inside(c) /\ {SocketQueue, ConnectionQueue[c]} \subseteq waiting
                      /\ thread[ConnectionQueue[c]].step = "invalidating"
  BY DEF NoCircle, Circles
<1>1. SocketQueue \in waiting
  <2>1. PICK q \in waiting : TRUE
    OBVIOUS
  <2>2. ASSUME NEW r \in ConnQueues, r \in waiting
        PROVE  SocketQueue \in waiting
    <3>1. thread[r].waits \in {Nobody, SocketQueue}
      BY DEF QueueInv, ThreadInv
    <3>2. QED
      BY <2>2, <3>1, QueueNames
  <2>3. CASE q = DelegateQueue
    <3>1. thread[q].waits \in ConnQueues \cup {Nobody}
      BY <2>3 DEF QueueInv, ThreadInv
    <3>2. QED
      BY <2>2, <3>1, QueueNames
  <2>4. QED
    BY <2>2, <2>3 DEF Queues
<1>2. thread[SocketQueue].waits \in waiting /\ thread[SocketQueue].waits # Nobody
  BY <1>1, QueueNames
<1> DEFINE c == thread[SocketQueue].block.conn
<1>3. /\ thread[SocketQueue].step \in Making /\ c \in Conns
      /\ thread[SocketQueue].waits = ConnectionQueue[c]
  BY <1>2 DEF QueueInv, ThreadInv
<1>4. Inside(c)
  BY <1>3 DEF Inside, Making
<1>5. ConnectionQueue[c] \in waiting /\ thread[ConnectionQueue[c]].waits # Nobody
  BY <1>2, <1>3, QueueNames
<1>6. c \notin Young(early)
  BY <1>5 DEF QueueInv, ThreadInv
<1>7. c \in early
  BY <1>3, <1>4, <1>6 DEF Young
<1>8. thread[ConnectionQueue[c]].step = "invalidating"
  BY <1>3, <1>5, QueueNames DEF QueueInv, ThreadInv
<1>9. QED
  BY <1>1, <1>4, <1>5, <1>7, <1>8

-----------------------------------------------------------------------------
(* The second invariant: who refers to a connection, and what still runs on it *)

\* The blocks of one kind, of connection c, that a queue still has to run.
Pending(blocks, kind, c) == {i \in DOMAIN blocks : blocks[i].kind = kind /\ blocks[i].conn = c}
Announced(s, c) == Pending(s.queue[DelegateQueue], "gotConnection", c)
Leaving(s, c)   == Pending(s.queue[SocketQueue], "deregister", c)

\* The references that c should have; and it has them all, but for k of those of d.
One(held) == IF held THEN 1 ELSE 0
Owned(s, c) ==
  One(s.conn[c].delegate) + One(s.conn[c].kept)
  + Cardinality(Pending(s.queue[DelegateQueue], "callback", c))
Counted(s, d, k) == \A c \in Conns : s.conn[c].refs = Owned(s, c) + IF c = d THEN k ELSE 0

\* The blocks that each queue runs, and who waits for them.
Work == {"message", "schedule", "setDelegate", "forceClose", "send", "delete"}
Known(q) ==
  {b \in Blocks :
     /\ q = SocketQueue =>
          \/ b.kind = "packet" /\ b.conn = NoConn /\ b.from = Nobody
          \/ b.kind = "deregister" /\ b.conn \in Conns /\ b.from = ConnectionQueue[b.conn]
     /\ q = DelegateQueue =>
          b.kind \in {"gotConnection", "callback"} /\ b.conn \in Conns /\ b.from = Nobody
     /\ q \in ConnQueues =>
          /\ b.kind \in Work /\ b.conn \in Conns /\ ConnectionQueue[b.conn] = q
          /\ b.from \notin ConnQueues /\ (b.kind = "message" => b.from = Nobody)}

\* A connection that is referred to, or that has blocks or timers, is alive; and no block
\* comes after the one that deletes it.
Undeleted(blocks) == \A i \in DOMAIN blocks : blocks[i].kind # "delete"
Lives(r, blocks) ==
  /\ r.refs > 0 => r.alive /\ Undeleted(blocks)
  /\ blocks # <<>> \/ r.timers # {} => r.alive
  /\ \A i \in DOMAIN blocks : blocks[i].kind = "delete" => i = Len(blocks)

\* The application is told once of a connection, and then has it; and a connection leaves
\* the map once.  F: those it was not told of.
Once(s, c, F) ==
  /\ \A i, j \in Announced(s, c) : i = j
  /\ Announced(s, c) # {} => ~s.conn[c].kept
  /\ c \in F => ~s.conn[c].kept /\ Announced(s, c) = {}
  /\ \A i, j \in Leaving(s, c) : i = j

Sound(s, F) ==
  /\ s \in States
  /\ \A q \in Queues : s.queue[q] \in Seq(Known(q))
  /\ \A c \in Conns : Lives(s.conn[c], s.queue[ConnectionQueue[c]]) /\ Once(s, c, F)

Fresh == {c \in Conns : conn[c].host = Nobody \/ Constructing(c)}
Invalidating(c) ==
  /\ thread[ConnectionQueue[c]].step = "invalidating"
  /\ thread[ConnectionQueue[c]].block.conn = c
Registered(c) == serverConns[conn[c].host] = c

\* What a block that waits holds on to.
HoldInv ==
  /\ \A q \in Queues : /\ thread[q].block.from = Nobody
                       /\ thread[q].step = "none" => thread[q] = Idle
  /\ thread[SocketQueue].step \in Making \cup {"none"}
  /\ thread[SocketQueue].step \in Making => conn[thread[SocketQueue].block.conn].delegate
  /\ thread[DelegateQueue].step \in {"called", "closing", "none"}
  /\ thread[DelegateQueue].step \in {"called", "closing"} =>
       LET c == thread[DelegateQueue].block.conn IN c \in Conns /\ conn[c].kept
  /\ \A q \in ConnQueues : thread[q].step \in {"invalidating", "none"}
  /\ \A c \in Conns : Invalidating(c) =>
       /\ conn[c].delegate
       /\ thread[ConnectionQueue[c]].waits = Nobody => ~Registered(c) /\ ~Inside(c)

\* What the map leads to, and who takes it out again.
ServedInv ==
  /\ \A h \in Hosts : serverConns[h] # NoConn =>
       conn[serverConns[h]].delegate /\ conn[serverConns[h]].host = h
  /\ \A c \in Conns : Constructing(c) => serverConns[conn[c].host] = NoConn
  /\ \A c \in Conns : conn[c].delegate => Registered(c) \/ Constructing(c) \/ Invalidating(c)
  /\ \A c \in Conns : Leaving(Now, c) # {} =>
       Invalidating(c) /\ Registered(c) /\ thread[ConnectionQueue[c]].waits = SocketQueue

LifeInv == Sound(Now, Fresh) /\ Counted(Now, NoConn, 0) /\ HoldInv /\ ServedInv

-----------------------------------------------------------------------------
(* Blocks that are pending *)

\* Pending blocks can be counted.
LEMMA PendingFinite ==
  ASSUME NEW blocks \in Seq(Blocks), NEW kind, NEW c
  PROVE  /\ IsFiniteSet(Pending(blocks, kind, c)) /\ Cardinality(Pending(blocks, kind, c)) \in Nat
         /\ Pending(blocks, kind, c) # {} => Cardinality(Pending(blocks, kind, c)) >= 1
<1> DEFINE P == Pending(blocks, kind, c)
<1>1. P \subseteq 1 .. Len(blocks) /\ Len(blocks) \in Nat
  BY LenProperties DEF Pending
<1>2. IsFiniteSet(1 .. Len(blocks))
  BY <1>1, FS_Interval
<1>3. IsFiniteSet(P)
  BY <1>1, <1>2, FS_Subset
<1>4. Cardinality(P) \in Nat /\ (P # {} => Cardinality(P) # 0)
  BY <1>3, FS_CardinalityType, FS_EmptySet
<1>5. QED
  BY <1>3, <1>4

\* What a block that is put at the end adds to those of its kind.
LEMMA PendingAppended ==
  ASSUME NEW blocks \in Seq(Blocks), NEW b \in Blocks, NEW kind, NEW c
  PROVE  LET P == Pending(blocks, kind, c)
             A == Pending(Append(blocks, b), kind, c)
         IN IF b.kind = kind /\ b.conn = c
            THEN Cardinality(A) = Cardinality(P) + 1 /\ (P = {} => \A i, j \in A : i = j)
            ELSE A = P
<1> DEFINE P == Pending(blocks, kind, c)
           A == Pending(Append(blocks, b), kind, c)
           n == Len(blocks) + 1
<1>1. /\ Len(blocks) \in Nat /\ DOMAIN blocks = 1 .. Len(blocks)
      /\ DOMAIN Append(blocks, b) = 1 .. n
      /\ \A i \in 1 .. Len(blocks) : Append(blocks, b)[i] = blocks[i]
      /\ Append(blocks, b)[n] = b
  BY LenProperties, AppendProperties
<1>2. n \notin P /\ P \subseteq 1 .. Len(blocks)
  BY <1>1 DEF Pending
<1>3. CASE b.kind = kind /\ b.conn = c
  <2>1. A = P \cup {n}
    BY <1>1, <1>3 DEF Pending
  <2>2. Cardinality(A) = Cardinality(P) + 1
    BY <1>2, <2>1, PendingFinite, FS_AddElement
  <2>3. QED
    BY <1>3, <2>1, <2>2
<1>4. CASE ~(b.kind = kind /\ b.conn = c)
  <2>1. A = P
    BY <1>1, <1>4 DEF Pending
  <2>2. QED
    BY <1>4, <2>1
<1>5. QED
  BY <1>3, <1>4

\* What is left of the blocks of a kind without the first one.
LEMMA PendingTail ==
  ASSUME NEW blocks \in Seq(Blocks), blocks # <<>>, NEW kind, NEW c
  PROVE  LET P == Pending(blocks, kind, c)
             T == Pending(Tail(blocks), kind, c)
             b == Head(blocks)
         IN /\ Cardinality(P) = Cardinality(T) + One(b.kind = kind /\ b.conn = c)
            /\ T # {} => P # {}
            /\ (\A i, j \in P : i = j) =>
                 /\ \A i, j \in T : i = j
                 /\ b.kind = kind /\ b.conn = c => T = {}
            /\ b.kind = kind /\ b.conn = c => P # {}
<1> DEFINE P == Pending(blocks, kind, c)
           T == Pending(Tail(blocks), kind, c)
           b == Head(blocks)
           f == [i \in T |-> i + 1]
<1>1. /\ Len(blocks) \in Nat \ {0} /\ DOMAIN blocks = 1 .. Len(blocks) /\ b = blocks[1]
      /\ Tail(blocks) \in Seq(Blocks) /\ DOMAIN Tail(blocks) = 1 .. Len(blocks) - 1
      /\ \A i \in 1 .. Len(blocks) - 1 : Tail(blocks)[i] = blocks[i + 1]
  BY LenProperties, HeadTailProperties, EmptySeq
<1>2. \A i \in T : i \in 1 .. Len(blocks) - 1 /\ i + 1 \in P \ {1}
  BY <1>1 DEF Pending
<1>3. \A j \in P \ {1} : j - 1 \in T
  BY <1>1 DEF Pending
<1>4. P \subseteq 1 .. Len(blocks) /\ (1 \in P <=> b.kind = kind /\ b.conn = c)
  BY <1>1 DEF Pending
<1> HIDE DEF P, T, b
<1>5. ExistsBijection(T, P \ {1})
  <2>1. f \in [T -> P \ {1}]
    BY <1>2
  <2>2. \A i, j \in T : f[i] = f[j] => i = j
    BY <1>2
  <2>3. \A j \in P \ {1} : \E i \in T : f[i] = j
    <3> SUFFICES ASSUME NEW j \in P \ {1}
                 PROVE  \E i \in T : f[i] = j
      OBVIOUS
    <3>1. j - 1 \in T /\ j \in Int
      BY <1>1, <1>3, <1>4
    <3>2. f[j - 1] = j
      BY <3>1
    <3>3. QED
      BY <3>1, <3>2
  <2> HIDE DEF f
  <2>4. f \in Bijection(T, P \ {1})
    BY <2>1, <2>2, <2>3 DEF Bijection, Injection, Surjection, IsInjective
  <2>5. QED
    BY <2>4 DEF ExistsBijection
<1>6. IsFiniteSet(T) /\ IsFiniteSet(P) /\ Cardinality(P) \in Nat
  BY <1>1, PendingFinite DEF P, T
<1>7. Cardinality(P \ {1}) = Cardinality(T)
  BY <1>5, <1>6, FS_Bijection
<1>8. Cardinality(P) = Cardinality(T) + One(b.kind = kind /\ b.conn = c)
  <2>1. CASE 1 \in P
    <3>1. Cardinality(P \ {1}) = Cardinality(P) - 1
      BY <1>6, <2>1, FS_RemoveElement
    <3>2. QED
      BY <1>4, <1>6, <1>7, <2>1, <3>1 DEF One
  <2>2. CASE 1 \notin P
    <3>1. P \ {1} = P
      BY <2>2
    <3>2. QED
      BY <1>4, <1>6, <1>7, <2>2, <3>1 DEF One
  <2>3. QED
    BY <2>1, <2>2
<1>9. T # {} => P # {}
  BY <1>2
<1>10. ASSUME \A i, j \in P : i = j
       PROVE  (\A i, j \in T : i = j) /\ (b.kind = kind /\ b.conn = c => T = {})
  <2>1. \A i, j \in T : i = j
    <3> SUFFICES ASSUME NEW i \in T, NEW j \in T
                 PROVE  i = j
      OBVIOUS
    <3>1. i + 1 = j + 1 /\ i \in Int /\ j \in Int
      BY <1>2, <1>10
    <3>2. QED
      BY <3>1
  <2>2. 1 \in P => T = {}
    BY <1>2, <1>10
  <2>3. QED
    BY <1>4, <2>1, <2>2
<1>11. QED
  BY <1>4, <1>8, <1>9, <1>10 DEF P, T, b

-----------------------------------------------------------------------------
(* What the operations on objects and queues leave in order *)

\* Known blocks are blocks.
LEMMA KnownIs ==
  ASSUME NEW q \in Queues
  PROVE  Known(q) \subseteq Blocks
  BY DEF Known

\* An object with all its references.
LEMMA SoundObject ==
  ASSUME NEW F, NEW s, Sound(s, F), NEW c \in Conns
  PROVE  /\ s \in States /\ s.conn[c] \in Objects
         /\ \A q \in Queues : s.queue[q] \in Seq(Known(q)) /\ s.queue[q] \in Seq(Blocks)
         /\ Lives(s.conn[c], s.queue[ConnectionQueue[c]]) /\ Once(s, c, F)
  BY KnownIs DEF Sound, States

\* What holds of the connections in F holds of fewer.
LEMMA SoundFewer ==
  ASSUME NEW F, NEW G, G \subseteq F, NEW s, Sound(s, F)
  PROVE  Sound(s, G)
  BY DEF Sound, Once

\* Whoever refers to a connection counts.
LEMMA OwnedIs ==
  ASSUME NEW s \in States, NEW c \in Conns, OwnQueues
  PROVE  /\ Owned(s, c) \in Nat
         /\ s.conn[c].delegate \/ s.conn[c].kept => Owned(s, c) >= 1
         /\ Pending(s.queue[DelegateQueue], "callback", c) # {} => Owned(s, c) >= 1
<1>1. s.queue[DelegateQueue] \in Seq(Blocks)
  BY QueueNames DEF States
<1>2. QED
  BY <1>1, PendingFinite DEF Owned, One

\* What is referred to is alive, and nothing is going to delete it.
LEMMA ReferredLives ==
  ASSUME OwnQueues, NEW F, NEW s, Sound(s, F), NEW c \in Conns, NEW d,
         NEW k \in Nat, Counted(s, d, k),
         \/ s.conn[c].delegate \/ s.conn[c].kept
         \/ Pending(s.queue[DelegateQueue], "callback", c) # {}
         \/ c = d /\ k > 0
  PROVE  /\ s.conn[c].refs > 0 /\ s.conn[c].alive
         /\ Undeleted(s.queue[ConnectionQueue[c]])
<1>1. Owned(s, c) \in Nat /\ (~(c = d /\ k > 0) => Owned(s, c) >= 1)
  BY SoundObject, OwnedIs
<1>2. s.conn[c].refs = Owned(s, c) + IF c = d THEN k ELSE 0
  BY DEF Counted
<1>3. s.conn[c].refs > 0
  BY <1>1, <1>2
<1>4. QED
  BY <1>3, SoundObject DEF Lives

\* If no reference is missing it does not matter of whom.
LEMMA CountedNobody ==
  ASSUME OwnQueues, NEW s, NEW c \in Conns
  PROVE  Counted(s, NoConn, 0) <=> Counted(s, c, 0)
  BY QueueNames DEF Counted

\* A block is added to one queue, and nothing else changes.
LEMMA EnqueuedIs ==
  ASSUME NEW s \in States, NEW q \in Queues, NEW b \in Blocks
  PROVE  LET t == Enqueued(s, q, b) IN
         /\ t \in States /\ t.conn = s.conn /\ t.queue[q] = Append(s.queue[q], b)
         /\ \A r \in Queues : r # q => t.queue[r] = s.queue[r]
<1>1. s.queue \in [Queues -> Seq(Blocks)] /\ Append(s.queue[q], b) \in Seq(Blocks)
  BY AppendProperties DEF States
<1>2. Enqueued(s, q, b).queue = [s.queue EXCEPT ![q] = Append(s.queue[q], b)]
  BY DEF Enqueued, States
<1>3. QED
  BY <1>1, <1>2 DEF Enqueued, States

\* What becomes pending with a block.
LEMMA PendingEnqueued ==
  ASSUME NEW s \in States, NEW q \in Queues, NEW b \in Blocks, NEW r \in Queues, NEW kind, NEW c
  PROVE  LET P == Pending(s.queue[r], kind, c)
             A == Pending(Enqueued(s, q, b).queue[r], kind, c)
         IN /\ r = q /\ b.kind = kind /\ b.conn = c =>
                 Cardinality(A) = Cardinality(P) + 1 /\ (P = {} => \A i, j \in A : i = j)
            /\ ~(r = q /\ b.kind = kind /\ b.conn = c) => A = P
<1>1. s.queue[r] \in Seq(Blocks)
  BY DEF States
<1>2. CASE r = q
  <2>1. Enqueued(s, q, b).queue[r] = Append(s.queue[r], b)
    BY <1>2, EnqueuedIs
  <2>2. QED
    BY <1>1, <1>2, <2>1, PendingAppended
<1>3. CASE r # q
  <2>1. Enqueued(s, q, b).queue[r] = s.queue[r]
    BY <1>3, EnqueuedIs
  <2>2. QED
    BY <1>3, <2>1
<1>4. QED
  BY <1>2, <1>3

\* One object changes, and nothing else does.
LEMMA ChangedIs ==
  ASSUME NEW s \in States, NEW c \in Conns, NEW r \in Objects
  PROVE  LET t == [s EXCEPT !.conn[c] = r] IN
         /\ t \in States /\ t.queue = s.queue /\ t.conn[c] = r
         /\ \A d \in Conns : d # c => t.conn[d] = s.conn[d]
<1>1. [s EXCEPT !.conn[c] = r].conn = [s.conn EXCEPT ![c] = r]
  BY DEF States
<1>2. QED
  BY <1>1 DEF States

\* A block put at the end of the queue of its connection, of the application or of the socket.
LEMMA EnqueuedSound ==
  ASSUME OwnQueues, NEW F, NEW s, Sound(s, F), NEW q \in Queues, NEW b \in Known(q),
         q \in ConnQueues =>
           /\ s.conn[b.conn].alive /\ Undeleted(s.queue[q])
           /\ b.kind = "delete" => ~(s.conn[b.conn].refs > 0),
         q = DelegateQueue /\ b.kind = "gotConnection" =>
           Announced(s, b.conn) = {} /\ ~s.conn[b.conn].kept /\ b.conn \notin F,
         q = SocketQueue /\ b.kind = "deregister" => Leaving(s, b.conn) = {}
  PROVE  Sound(Enqueued(s, q, b), F)
<1> DEFINE t == Enqueued(s, q, b)
<1>1. b \in Blocks /\ s \in States
  BY KnownIs DEF Sound
<1>2. /\ t \in States /\ t.conn = s.conn /\ t.queue[q] = Append(s.queue[q], b)
      /\ \A r \in Queues : r # q => t.queue[r] = s.queue[r]
  BY <1>1, EnqueuedIs
<1> HIDE DEF t
<1>3. /\ SocketQueue \in Queues /\ DelegateQueue \in Queues /\ DelegateQueue # SocketQueue
      /\ \A c \in Conns : ConnectionQueue[c] \in ConnQueues /\ ConnectionQueue[c] \in Queues
      /\ \A c \in Conns : ConnectionQueue[c] # SocketQueue /\ ConnectionQueue[c] # DelegateQueue
  BY QueueNames DEF OwnQueues
<1>4. ASSUME NEW r \in Queues
      PROVE  t.queue[r] \in Seq(Known(r))
  <2>1. s.queue[r] \in Seq(Known(r))
    BY DEF Sound
  <2>2. Append(s.queue[q], b) \in Seq(Known(q))
    <3>1. s.queue[q] \in Seq(Known(q))
      BY DEF Sound
    <3>2. QED
      BY <3>1, AppendProperties
  <2>3. QED
    BY <1>2, <2>1, <2>2
<1>5. ASSUME NEW c \in Conns
      PROVE  Lives(t.conn[c], t.queue[ConnectionQueue[c]])
  <2>1. Lives(s.conn[c], s.queue[ConnectionQueue[c]])
    BY DEF Sound
  <2>2. CASE ConnectionQueue[c] = q
    <3> DEFINE n == Len(s.queue[q]) + 1
    <3>1. b.conn = c
      BY <1>3, <2>2 DEF Known, OwnQueues
    <3>2. s.conn[c].alive /\ Undeleted(s.queue[q]) /\ (b.kind = "delete" => ~(s.conn[c].refs > 0))
      BY <1>3, <2>2, <3>1
    <3>3. s.queue[q] \in Seq(Blocks)
      BY <1>1 DEF States
    <3>4. /\ DOMAIN s.queue[q] = 1 .. Len(s.queue[q]) /\ Len(s.queue[q]) \in Nat
          /\ DOMAIN t.queue[q] = 1 .. n /\ Len(t.queue[q]) = n
          /\ t.queue[q][n] = b
          /\ \A i \in 1 .. Len(s.queue[q]) : t.queue[q][i] = s.queue[q][i]
      <4> DEFINE blocks == s.queue[q]
                 more == Append(blocks, b)
      <4>1. blocks \in Seq(Blocks) /\ b \in Blocks /\ t.queue[q] = more
        BY <1>1, <1>2, <3>3
      <4> HIDE DEF blocks
      <4>2. /\ more \in Seq(Blocks) /\ Len(more) = Len(blocks) + 1
            /\ \A i \in 1 .. Len(blocks) : more[i] = blocks[i]
            /\ more[Len(blocks) + 1] = b
        BY <4>1, AppendProperties
      <4> HIDE DEF more
      <4>3. /\ DOMAIN blocks = 1 .. Len(blocks) /\ Len(blocks) \in Nat
            /\ DOMAIN more = 1 .. Len(more)
        BY <4>1, <4>2, LenProperties
      <4>4. QED
        BY <4>1, <4>2, <4>3 DEF blocks
    <3>5. \A i \in DOMAIN t.queue[q] : t.queue[q][i].kind = "delete" => i = n /\ b.kind = "delete"
      <4>1. \A i \in 1 .. Len(s.queue[q]) : s.queue[q][i].kind # "delete"
        BY <3>2, <3>4 DEF Undeleted
      <4>2. \A i \in 1 .. Len(s.queue[q]) : t.queue[q][i].kind # "delete"
        BY <3>4, <4>1
      <4>3. \A i \in DOMAIN t.queue[q] : i \in 1 .. Len(s.queue[q]) \/ i = n
        BY <3>4
      <4>4. t.queue[q][n] = b
        BY <3>4
      <4> HIDE DEF n
      <4>5. QED
        BY <4>2, <4>3, <4>4
    <3>6. QED
      <4>1. /\ t.conn[c].refs > 0 => Undeleted(t.queue[q])
            /\ t.conn[c].alive
        BY <1>2, <3>2, <3>5 DEF Undeleted
      <4>2. QED
        BY <2>2, <3>4, <3>5, <4>1 DEF Lives
  <2>3. CASE ConnectionQueue[c] # q
    BY <1>2, <1>3, <2>1, <2>3
  <2>4. QED
    BY <2>2, <2>3
<1>6. ASSUME NEW c \in Conns
      PROVE  Once(t, c, F)
  <2>1. Once(s, c, F) /\ \A r \in Queues : s.queue[r] \in Seq(Blocks)
    BY SoundObject
  <2>2. CASE q = DelegateQueue /\ b.kind = "gotConnection" /\ b.conn = c
    <3>1. Leaving(t, c) = Leaving(s, c)
      BY <1>2, <1>3, <2>2 DEF Leaving
    <3>2. Announced(s, c) = {} /\ ~s.conn[c].kept /\ c \notin F
      BY <2>2
    <3>3. \A i, j \in Announced(t, c) : i = j
      <4>1. \A i, j \in Pending(t.queue[q], b.kind, b.conn) : i = j
        BY <1>1, <2>2, <3>2, PendingEnqueued DEF Announced, t
      <4>2. QED
        BY <2>2, <4>1 DEF Announced
    <3>4. QED
      BY <1>2, <2>1, <3>1, <3>2, <3>3 DEF Once
  <2>3. CASE q = SocketQueue /\ b.kind = "deregister" /\ b.conn = c
    <3>1. Announced(t, c) = Announced(s, c)
      BY <1>2, <1>3, <2>3 DEF Announced
    <3>2. Leaving(s, c) = {}
      BY <2>3
    <3>3. \A i, j \in Leaving(t, c) : i = j
      <4>1. \A i, j \in Pending(t.queue[q], b.kind, b.conn) : i = j
        BY <1>1, <2>3, <3>2, PendingEnqueued DEF Leaving, t
      <4>2. QED
        BY <2>3, <4>1 DEF Leaving
    <3>4. QED
      BY <1>2, <2>1, <3>1, <3>3 DEF Once
  <2>4. CASE ~(q = DelegateQueue /\ b.kind = "gotConnection" /\ b.conn = c)
             /\ ~(q = SocketQueue /\ b.kind = "deregister" /\ b.conn = c)
    <3>1. Announced(t, c) = Announced(s, c)
      BY <1>1, <1>3, <2>4, PendingEnqueued DEF Announced, t
    <3>2. Leaving(t, c) = Leaving(s, c)
      BY <1>1, <1>3, <2>4, PendingEnqueued DEF Leaving, t
    <3>3. QED
      BY <1>2, <2>1, <3>1, <3>2 DEF Once
  <2>5. QED
    BY <2>2, <2>3, <2>4
<1>7. QED
  BY <1>2, <1>4, <1>5, <1>6 DEF Sound, t

\* A callback brings a reference to its connection.
LEMMA EnqueuedCounted ==
  ASSUME OwnQueues, NEW F, NEW s, Sound(s, F), NEW q \in Queues, NEW b \in Known(q),
         NEW d, NEW k \in Int, Counted(s, d, k)
  PROVE  IF q = DelegateQueue /\ b.kind = "callback"
         THEN d = b.conn => Counted(Enqueued(s, q, b), d, k - 1)
         ELSE Counted(Enqueued(s, q, b), d, k)
<1> DEFINE t == Enqueued(s, q, b)
           Callback(u, c) == Pending(u.queue[DelegateQueue], "callback", c)
<1>1. b \in Blocks /\ s \in States /\ DelegateQueue \in Queues
      /\ s.queue[DelegateQueue] \in Seq(Blocks)
  BY KnownIs, QueueNames DEF Sound, States
<1>2. /\ t \in States /\ t.conn = s.conn /\ t.queue[q] = Append(s.queue[q], b)
      /\ \A r \in Queues : r # q => t.queue[r] = s.queue[r]
  BY <1>1, EnqueuedIs
<1> HIDE DEF t
<1>3. ASSUME NEW c \in Conns
      PROVE  Cardinality(Callback(t, c)) = Cardinality(Callback(s, c))
               + IF q = DelegateQueue /\ b.kind = "callback" /\ b.conn = c THEN 1 ELSE 0
  <2>1. Cardinality(Callback(s, c)) \in Nat
    BY <1>1, PendingFinite
  <2>2. CASE q = DelegateQueue /\ b.kind = "callback" /\ b.conn = c
    BY <1>1, <2>1, <2>2, PendingEnqueued DEF t
  <2>3. CASE ~(q = DelegateQueue /\ b.kind = "callback" /\ b.conn = c)
    <3>1. Callback(t, c) = Callback(s, c)
      BY <1>1, <2>3, PendingEnqueued DEF t
    <3>2. QED
      BY <2>1, <2>3, <3>1
  <2>4. QED
    BY <2>2, <2>3
<1>4. \A c \in Conns : /\ s.conn[c].refs = Owned(s, c) + IF c = d THEN k ELSE 0
                       /\ Owned(s, c) \in Nat /\ Owned(t, c) \in Nat
  BY <1>1, <1>2, OwnedIs DEF Counted
<1>5. \A c \in Conns : Owned(t, c) = Owned(s, c)
        + IF q = DelegateQueue /\ b.kind = "callback" /\ b.conn = c THEN 1 ELSE 0
  <2> SUFFICES ASSUME NEW c \in Conns
               PROVE  Owned(t, c) = Owned(s, c)
                        + IF q = DelegateQueue /\ b.kind = "callback" /\ b.conn = c THEN 1 ELSE 0
    OBVIOUS
  <2>1. Cardinality(Callback(s, c)) \in Nat /\ Cardinality(Callback(t, c)) \in Nat
    BY <1>1, <1>2, PendingFinite DEF States
  <2>2. QED
    BY <1>2, <1>3, <2>1 DEF Owned, One
<1>6. CASE q = DelegateQueue /\ b.kind = "callback" /\ d = b.conn
  BY <1>2, <1>4, <1>5, <1>6 DEF Counted, t
<1>7. CASE ~(q = DelegateQueue /\ b.kind = "callback")
  BY <1>2, <1>4, <1>5, <1>7 DEF Counted, t
<1>8. QED
  BY <1>6, <1>7

\* A connection that becomes r: whoever has blocks for it still finds it.
LEMMA ChangedSound ==
  ASSUME OwnQueues, NEW F, NEW s, Sound(s, F), NEW c \in Conns, NEW r \in Objects,
         Lives(r, s.queue[ConnectionQueue[c]]),
         r.kept => s.conn[c].kept \/ (c \notin F /\ Announced(s, c) = {})
  PROVE  Sound([s EXCEPT !.conn[c] = r], F)
<1> DEFINE t == [s EXCEPT !.conn[c] = r]
<1>1. /\ t \in States /\ t.queue = s.queue /\ t.conn[c] = r
      /\ \A d \in Conns : d # c => t.conn[d] = s.conn[d]
  BY ChangedIs, SoundObject
<1> HIDE DEF t
<1>2. ASSUME NEW d \in Conns
      PROVE  Lives(t.conn[d], t.queue[ConnectionQueue[d]]) /\ Once(t, d, F)
  <2>1. Lives(s.conn[d], s.queue[ConnectionQueue[d]]) /\ Once(s, d, F)
    BY DEF Sound
  <2>2. Announced(t, d) = Announced(s, d) /\ Leaving(t, d) = Leaving(s, d)
    BY <1>1 DEF Announced, Leaving
  <2>3. CASE d = c
    BY <1>1, <2>1, <2>2, <2>3 DEF Once
  <2>4. CASE d # c
    BY <1>1, <2>1, <2>2, <2>4 DEF Once
  <2>5. QED
    BY <2>3, <2>4
<1>3. \A q \in Queues : t.queue[q] \in Seq(Known(q))
  BY <1>1 DEF Sound
<1>4. QED
  BY <1>1, <1>2, <1>3 DEF Sound, t

\* The count holds after a change of an object if its references still make up for who has them.
LEMMA ChangedCounted ==
  ASSUME OwnQueues, NEW s \in States, NEW c \in Conns, NEW r \in Objects,
         NEW k \in Int, Counted(s, c, k), NEW j \in Int,
         r.refs - One(r.delegate) - One(r.kept) - j
           = s.conn[c].refs - One(s.conn[c].delegate) - One(s.conn[c].kept) - k
  PROVE  Counted([s EXCEPT !.conn[c] = r], c, j)
<1> DEFINE t == [s EXCEPT !.conn[c] = r]
           Calling(d) == Cardinality(Pending(s.queue[DelegateQueue], "callback", d))
<1>1. /\ t \in States /\ t.queue = s.queue /\ t.conn[c] = r
      /\ \A d \in Conns : d # c => t.conn[d] = s.conn[d]
  BY ChangedIs
<1> HIDE DEF t
<1>2. \A d \in Conns : d # c => Owned(t, d) = Owned(s, d)
  BY <1>1 DEF Owned
<1>3. s.conn[c].refs = Owned(s, c) + k /\ s.conn[c] \in Objects
  BY DEF Counted, States
<1>4. Calling(c) \in Nat
  <2>1. s.queue[DelegateQueue] \in Seq(Blocks)
    BY QueueNames DEF States
  <2>2. QED
    BY <2>1, PendingFinite
<1>5. /\ Owned(s, c) = One(s.conn[c].delegate) + One(s.conn[c].kept) + Calling(c)
      /\ Owned(t, c) = One(r.delegate) + One(r.kept) + Calling(c)
  BY <1>1 DEF Owned
<1> HIDE DEF Calling
<1>6. r.refs = Owned(t, c) + j
  <2>1. /\ r.refs \in Int /\ s.conn[c].refs \in Int
        /\ One(r.delegate) \in Int /\ One(r.kept) \in Int
        /\ One(s.conn[c].delegate) \in Int /\ One(s.conn[c].kept) \in Int
    BY <1>3 DEF Objects, One
  <2>2. QED
    BY <1>3, <1>4, <1>5, <2>1
<1>7. \A d \in Conns : d # c => t.conn[d].refs = Owned(t, d)
  <2> SUFFICES ASSUME NEW d \in Conns, d # c
               PROVE  t.conn[d].refs = Owned(t, d)
    OBVIOUS
  <2>1. s.conn[d].refs = Owned(s, d) + 0 /\ Owned(s, d) \in Nat
    BY OwnedIs DEF Counted
  <2>2. QED
    BY <1>1, <1>2, <2>1
<1>8. ASSUME NEW d \in Conns
      PROVE  t.conn[d].refs = Owned(t, d) + IF d = c THEN j ELSE 0
  <2>1. Owned(t, d) \in Nat
    BY <1>1, OwnedIs
  <2>2. QED
    BY <1>1, <1>6, <1>7, <2>1
<1>9. QED
  BY <1>8 DEF Counted, t

\* Operations that neither make nor invalidate a connection, nor lose the application's
\* interest, nor have it leave the map.
Alike(s, t) ==
  \A c \in Conns : /\ t.conn[c].host = s.conn[c].host /\ t.conn[c].delegate = s.conn[c].delegate
                   /\ s.conn[c].kept => t.conn[c].kept
                   /\ Leaving(t, c) # {} => Leaving(s, c) # {}

Fine(s, F, d, k) == Sound(s, F) /\ Counted(s, d, k) /\ Alike(Now, s)

\* A state that has all references, whichever connection is asked about.
LEMMA FineNobody ==
  ASSUME OwnQueues, NEW F, NEW s, NEW c \in Conns
  PROVE  Fine(s, F, NoConn, 0) <=> Fine(s, F, c, 0)
  BY CountedNobody DEF Fine

\* A block that is put in a queue, with the reference of a callback.
LEMMA EnqueuedFine ==
  ASSUME OwnQueues, NEW F, NEW s, NEW d, NEW k \in Int, Fine(s, F, d, k),
         NEW q \in Queues, NEW b \in Known(q),
         q \in ConnQueues =>
           /\ s.conn[b.conn].alive /\ Undeleted(s.queue[q])
           /\ b.kind = "delete" => ~(s.conn[b.conn].refs > 0),
         q = DelegateQueue /\ b.kind = "gotConnection" =>
           Announced(s, b.conn) = {} /\ ~s.conn[b.conn].kept /\ b.conn \notin F,
         q = SocketQueue => b.kind # "deregister"
  PROVE  IF q = DelegateQueue /\ b.kind = "callback"
         THEN d = b.conn => Fine(Enqueued(s, q, b), F, d, k - 1)
         ELSE Fine(Enqueued(s, q, b), F, d, k)
<1> DEFINE t == Enqueued(s, q, b)
<1>1. Sound(s, F) /\ Counted(s, d, k) /\ Alike(Now, s)
  BY DEF Fine
<1>2. Sound(t, F)
  BY <1>1, EnqueuedSound
<1>3. IF q = DelegateQueue /\ b.kind = "callback"
      THEN d = b.conn => Counted(t, d, k - 1)
      ELSE Counted(t, d, k)
  BY <1>1, EnqueuedCounted
<1>4. s \in States /\ b \in Blocks /\ t.conn = s.conn
  BY <1>1, KnownIs, EnqueuedIs DEF Sound
<1>5. \A c : Leaving(t, c) = Leaving(s, c)
  BY <1>4, QueueNames, PendingEnqueued DEF Leaving
<1> HIDE DEF t
<1>6. Alike(Now, t)
  BY <1>1, <1>4, <1>5 DEF Alike
<1>7. QED
  BY <1>2, <1>3, <1>6 DEF Fine, t

\* An object changes, with its references and the application's interest.
LEMMA ChangedFine ==
  ASSUME OwnQueues, NEW F, NEW s, NEW c \in Conns, NEW k \in Int, Fine(s, F, c, k),
         NEW r \in Objects, NEW j \in Int,
         r.host = s.conn[c].host, r.delegate = s.conn[c].delegate,
         Lives(r, s.queue[ConnectionQueue[c]]),
         r.kept => s.conn[c].kept \/ (c \notin F /\ Announced(s, c) = {}),
         s.conn[c].kept => r.kept,
         r.refs - One(r.kept) - j = s.conn[c].refs - One(s.conn[c].kept) - k
  PROVE  Fine([s EXCEPT !.conn[c] = r], F, c, j)
<1> DEFINE t == [s EXCEPT !.conn[c] = r]
<1>1. Sound(s, F) /\ Counted(s, c, k) /\ Alike(Now, s)
  BY DEF Fine
<1>2. s \in States /\ s.conn[c] \in Objects
  BY <1>1, SoundObject
<1>3. Sound(t, F)
  BY <1>1, ChangedSound
<1>4. r.refs - One(r.delegate) - One(r.kept) - j
        = s.conn[c].refs - One(s.conn[c].delegate) - One(s.conn[c].kept) - k
  BY <1>2 DEF Objects, One
<1>5. Counted(t, c, j)
  BY <1>1, <1>2, <1>4, ChangedCounted
<1>6. /\ t.queue = s.queue /\ t.conn[c] = r
      /\ \A d \in Conns : d # c => t.conn[d] = s.conn[d]
  BY <1>2, ChangedIs, ZenonT(60)
<1> HIDE DEF t
<1>7. \A d \in Conns : Leaving(t, d) = Leaving(s, d)
  BY <1>6 DEF Leaving
<1>8. Alike(Now, t)
  BY <1>1, <1>6, <1>7 DEF Alike
<1>9. QED
  BY <1>3, <1>5, <1>8 DEF Fine, t

\* A change of what no reference and no block is about.
LEMMA TouchedFine ==
  ASSUME OwnQueues, NEW F, NEW s, Fine(s, F, NoConn, 0), NEW c \in Conns, NEW r \in Objects,
         r.host = s.conn[c].host, r.delegate = s.conn[c].delegate, r.kept = s.conn[c].kept,
         r.refs = s.conn[c].refs, r.alive = s.conn[c].alive,
         r.timers \subseteq s.conn[c].timers \/ r.alive
  PROVE  Fine([s EXCEPT !.conn[c] = r], F, NoConn, 0)
<1>1. Lives(s.conn[c], s.queue[ConnectionQueue[c]]) /\ s.conn[c] \in Objects
  BY SoundObject DEF Fine
<1>2. Lives(r, s.queue[ConnectionQueue[c]])
  BY <1>1 DEF Lives
<1>3. r.refs - One(r.kept) - 0 = s.conn[c].refs - One(s.conn[c].kept) - 0
  OBVIOUS
<1>4. Fine(s, F, c, 0)
  BY FineNobody
<1>5. Fine([s EXCEPT !.conn[c] = r], F, c, 0)
  BY <1>2, <1>3, <1>4, ChangedFine
<1>6. QED
  BY <1>5, FineNobody

\* An object with another number of references.
LEMMA RefsIs ==
  ASSUME NEW o \in Objects
  PROVE  \A n \in {o.refs + 1, o.refs - 1} :
           LET r == [o EXCEPT !.refs = n] IN
           /\ r \in Objects /\ r.host = o.host /\ r.delegate = o.delegate /\ r.kept = o.kept
           /\ r.refs = n /\ r.alive = o.alive /\ r.timers = o.timers
  BY DEF Objects

\* A timer of a connection that is alive.
LEMMA ScheduledFine ==
  ASSUME OwnQueues, NEW F, NEW s, Fine(s, F, NoConn, 0), NEW c \in Conns, NEW timer \in Timers,
         s.conn[c].alive
  PROVE  Fine(Scheduled(s, c, timer), F, NoConn, 0)
<1> DEFINE r == [s.conn[c] EXCEPT !.timers = @ \cup {timer}]
<1>1. s.conn[c] \in Objects
  BY SoundObject DEF Fine
<1>2. /\ r \in Objects /\ r.host = s.conn[c].host /\ r.delegate = s.conn[c].delegate
      /\ r.kept = s.conn[c].kept /\ r.refs = s.conn[c].refs /\ r.alive = s.conn[c].alive
  BY <1>1 DEF Objects, Timers
<1>3. Scheduled(s, c, timer) = [s EXCEPT !.conn[c] = r]
  BY DEF Scheduled
<1> HIDE DEF r
<1>4. r.alive
  BY <1>2, Zenon
<1>5. r.timers \subseteq s.conn[c].timers \/ r.alive
  BY <1>4
<1>6. Fine([s EXCEPT !.conn[c] = r], F, NoConn, 0)
  BY <1>2, <1>5, TouchedFine
<1>7. QED
  BY <1>3, <1>6

\* Fewer timers.
LEMMA DescheduledFine ==
  ASSUME OwnQueues, NEW F, NEW s, Fine(s, F, NoConn, 0), NEW c \in Conns
  PROVE  Fine(Descheduled(s, c), F, NoConn, 0)
<1> DEFINE r == [s.conn[c] EXCEPT !.timers = @ \cap {"force"}]
<1>1. s.conn[c] \in Objects
  BY SoundObject DEF Fine
<1>2. /\ r \in Objects /\ r.host = s.conn[c].host /\ r.delegate = s.conn[c].delegate
      /\ r.kept = s.conn[c].kept /\ r.refs = s.conn[c].refs /\ r.alive = s.conn[c].alive
      /\ r.timers \subseteq s.conn[c].timers
  BY <1>1 DEF Objects
<1>3. Descheduled(s, c) = [s EXCEPT !.conn[c] = r]
  BY DEF Descheduled
<1> HIDE DEF r
<1>4. QED
  BY <1>2, <1>3, TouchedFine

\* The logical connection comes and goes.
LEMMA LogicalFine ==
  ASSUME OwnQueues, NEW F, NEW s, Fine(s, F, NoConn, 0), NEW c \in Conns,
         NEW logical \in {"none", "open", "closed"}
  PROVE  Fine([s EXCEPT !.conn[c].logical = logical], F, NoConn, 0)
<1> DEFINE r == [s.conn[c] EXCEPT !.logical = logical]
<1>1. s.conn[c] \in Objects
  BY SoundObject DEF Fine
<1>2. /\ r \in Objects /\ r.host = s.conn[c].host /\ r.delegate = s.conn[c].delegate
      /\ r.kept = s.conn[c].kept /\ r.refs = s.conn[c].refs /\ r.alive = s.conn[c].alive
      /\ r.timers = s.conn[c].timers
  BY <1>1 DEF Objects
<1>3. [s EXCEPT !.conn[c].logical = logical] = [s EXCEPT !.conn[c] = r]
  OBVIOUS
<1> HIDE DEF r
<1>4. QED
  BY <1>2, <1>3, TouchedFine

\* A reference to a connection that has one already.
LEMMA RetainedFine ==
  ASSUME OwnQueues, NEW F, NEW s, NEW c \in Conns, NEW k \in Int, Fine(s, F, c, k),
         s.conn[c].alive, Undeleted(s.queue[ConnectionQueue[c]])
  PROVE  Fine(Retained(s, c), F, c, k + 1) /\ Retained(s, c).queue = s.queue
<1> DEFINE r == [s.conn[c] EXCEPT !.refs = @ + 1]
<1>1. /\ s \in States /\ s.conn[c] \in Objects
      /\ Lives(s.conn[c], s.queue[ConnectionQueue[c]])
  BY SoundObject DEF Fine
<1>2. /\ r \in Objects /\ r.host = s.conn[c].host /\ r.delegate = s.conn[c].delegate
      /\ r.kept = s.conn[c].kept /\ r.refs = s.conn[c].refs + 1 /\ r.alive = s.conn[c].alive
      /\ r.timers = s.conn[c].timers
  BY <1>1, RefsIs
<1>3. Retained(s, c) = [s EXCEPT !.conn[c] = r]
  BY DEF Retained
<1> HIDE DEF r
<1>4. Lives(r, s.queue[ConnectionQueue[c]])
  <2>1. r.alive
    BY <1>2, Zenon
  <2>2. QED
    BY <1>1, <2>1 DEF Lives
<1>5. r.refs - One(r.kept) - (k + 1) = s.conn[c].refs - One(s.conn[c].kept) - k
  <2>1. s.conn[c].refs \in Int /\ One(s.conn[c].kept) \in Int
    BY <1>1 DEF Objects, One
  <2>2. QED
    BY <1>2, <2>1
<1>6. Fine(Retained(s, c), F, c, k + 1)
  BY <1>2, <1>3, <1>4, <1>5, ChangedFine
<1>7. QED
  BY <1>1, <1>2, <1>3, <1>6, ChangedIs

\* Giving up a reference: with the last one, the connection is going to be deleted.
LEMMA ReleasedSound ==
  ASSUME OwnQueues, NEW F, NEW s, NEW c \in Conns, Sound(s, F), Counted(s, c, 1)
  PROVE  /\ Sound(Released(s, c), F) /\ Counted(Released(s, c), c, 0)
         /\ \A d \in Conns : /\ Released(s, c).conn[d].host = s.conn[d].host
                             /\ Released(s, c).conn[d].delegate = s.conn[d].delegate
                             /\ Released(s, c).conn[d].kept = s.conn[d].kept
         /\ \A q \in Queues \ ConnQueues : Released(s, c).queue[q] = s.queue[q]
<1> DEFINE r == [s.conn[c] EXCEPT !.refs = @ - 1]
           t == [s EXCEPT !.conn[c] = r]
           q == ConnectionQueue[c]
           b == Block("delete", c, "nothing", Nobody)
<1>1. /\ s \in States /\ s.conn[c] \in Objects /\ Lives(s.conn[c], s.queue[q])
  BY SoundObject
<1>2. /\ r \in Objects /\ r.host = s.conn[c].host /\ r.delegate = s.conn[c].delegate
      /\ r.kept = s.conn[c].kept /\ r.refs = s.conn[c].refs - 1 /\ r.alive = s.conn[c].alive
      /\ r.timers = s.conn[c].timers
  BY <1>1, RefsIs
<1>3. Released(s, c) = IF t.conn[c].refs = 0 THEN Enqueued(t, q, b) ELSE t
  BY DEF Released, Dealloc
<1> HIDE DEF r
<1>4. s.conn[c].refs > 0 /\ s.conn[c].alive /\ Undeleted(s.queue[q]) /\ s.conn[c].refs \in Int
  BY <1>1, ReferredLives DEF Objects
<1>5. Lives(r, s.queue[q])
  BY <1>1, <1>2, <1>4 DEF Lives
<1>6. /\ t \in States /\ t.queue = s.queue /\ t.conn[c] = r
      /\ \A d \in Conns : d # c => t.conn[d] = s.conn[d]
  BY <1>1, <1>2, ChangedIs
<1>7. Sound(t, F)
  BY <1>2, <1>5, ChangedSound
<1>8. Counted(t, c, 0)
  <2>1. r.refs - One(r.delegate) - One(r.kept) - 0
          = s.conn[c].refs - One(s.conn[c].delegate) - One(s.conn[c].kept) - 1
    BY <1>2, <1>4 DEF One
  <2>2. QED
    BY <1>1, <1>2, <2>1, ChangedCounted
<1> HIDE DEF t
<1>9. CASE t.conn[c].refs = 0
  <2>1. b \in Blocks /\ b.kind = "delete" /\ b.conn = c /\ b.from = Nobody
    BY DEF Block, Blocks, Kinds, Words
  <2>2. q \in ConnQueues /\ q \in Queues /\ q # SocketQueue /\ q # DelegateQueue
        /\ Nobody \notin ConnQueues
    BY QueueNames
  <2>3. b \in Known(q)
    BY <2>1, <2>2 DEF Known, Work
  <2> HIDE DEF b, q
  <2>4. t.conn[c].alive /\ Undeleted(t.queue[q]) /\ ~(t.conn[c].refs > 0)
    <3>1. Undeleted(t.queue[q]) /\ ~(t.conn[c].refs > 0)
      BY <1>4, <1>6, <1>9 DEF q
    <3>2. t.conn[c].alive
      BY <1>2, <1>4, <1>6
    <3>3. QED
      BY <3>1, <3>2
  <2>5. Sound(Enqueued(t, q, b), F)
    BY <1>7, <2>1, <2>2, <2>3, <2>4, EnqueuedSound
  <2>6. Counted(Enqueued(t, q, b), c, 0)
    BY <1>7, <1>8, <2>2, <2>3, EnqueuedCounted
  <2>7. /\ Enqueued(t, q, b).conn = t.conn
        /\ \A p \in Queues \ ConnQueues : Enqueued(t, q, b).queue[p] = t.queue[p]
    BY <1>6, <2>1, <2>2, EnqueuedIs
  <2>8. QED
    BY <1>2, <1>3, <1>6, <1>9, <2>5, <2>6, <2>7 DEF q, b
<1>10. CASE t.conn[c].refs # 0
  BY <1>2, <1>3, <1>6, <1>7, <1>8, <1>10
<1>11. QED
  BY <1>9, <1>10

\* A reference that is given up; the last one has the object deleted.
LEMMA ReleasedFine ==
  ASSUME OwnQueues, NEW F, NEW s, NEW c \in Conns, Fine(s, F, c, 1)
  PROVE  Fine(Released(s, c), F, NoConn, 0)
<1>1. Sound(s, F) /\ Counted(s, c, 1) /\ Alike(Now, s)
  BY DEF Fine
<1>2. /\ Sound(Released(s, c), F) /\ Counted(Released(s, c), c, 0)
      /\ \A d \in Conns : /\ Released(s, c).conn[d].host = s.conn[d].host
                          /\ Released(s, c).conn[d].delegate = s.conn[d].delegate
                          /\ Released(s, c).conn[d].kept = s.conn[d].kept
      /\ \A q \in Queues \ ConnQueues : Released(s, c).queue[q] = s.queue[q]
  BY <1>1, ReleasedSound
<1>3. SocketQueue \in Queues \ ConnQueues
  BY QueueNames
<1>4. Alike(Now, Released(s, c))
  BY <1>1, <1>2, <1>3 DEF Alike, Leaving
<1>5. QED
  BY <1>2, <1>4, CountedNobody DEF Fine

\* An event takes a reference along, which the delegate's reference keeps alive until then.
LEMMA EmittedFine ==
  ASSUME OwnQueues, NEW F, NEW s, Fine(s, F, NoConn, 0), NEW c \in Conns, NEW event \in Words
  PROVE  Fine(Emitted(s, c, event), F, NoConn, 0)
<1> DEFINE u == Retained(s, c)
           b == Block("callback", c, event, Nobody)
<1>1. CASE s.conn[c].delegate
  <2>1. s.conn[c].alive /\ Undeleted(s.queue[ConnectionQueue[c]])
    BY <1>1, ReferredLives DEF Fine
  <2>2. Fine(s, F, c, 0)
    BY FineNobody
  <2>3. Fine(u, F, c, 1)
    BY <2>1, <2>2, RetainedFine
  <2>4. /\ b \in Blocks /\ b.kind = "callback" /\ b.conn = c /\ b.from = Nobody
    BY DEF Block, Blocks, Kinds
  <2>5. DelegateQueue \in Queues /\ DelegateQueue # SocketQueue /\ DelegateQueue \notin ConnQueues
    BY QueueNames DEF OwnQueues
  <2>6. b \in Known(DelegateQueue)
    BY <2>4, <2>5 DEF Known
  <2> HIDE DEF u, b
  <2>7. Fine(Enqueued(u, DelegateQueue, b), F, c, 0)
    BY <2>3, <2>4, <2>5, <2>6, EnqueuedFine
  <2>8. Fine(Enqueued(u, DelegateQueue, b), F, NoConn, 0)
    BY <2>7, FineNobody
  <2>9. QED
    BY <2>8 DEF Emitted, u, b
<1>2. CASE ~s.conn[c].delegate
  BY <1>2 DEF Emitted
<1>3. QED
  BY <1>1, <1>2

-----------------------------------------------------------------------------
(* A queue takes its next block *)

\* A queue takes its first block, and nothing else changes.
LEMMA TakenLeaves ==
  ASSUME NEW F, Sound(Now, F), NEW q \in Queues, queue[q] # <<>>
  PROVE  /\ Now \in States /\ Now.conn = conn /\ Now.queue = queue
         /\ Taken(q) \in States /\ Taken(q).conn = conn
         /\ Taken(q).queue[q] = Tail(queue[q])
         /\ \A r \in Queues : r # q => Taken(q).queue[r] = queue[r]
         /\ queue[q] \in Seq(Known(q)) /\ queue[q] \in Seq(Blocks)
         /\ Head(queue[q]) \in Known(q) /\ Head(queue[q]) \in Blocks
         /\ Tail(queue[q]) \in Seq(Known(q))
<1>1. Now \in States /\ Now.conn = conn /\ Now.queue = queue
  BY DEF Sound, Now
<1>2. queue[q] \in Seq(Known(q)) /\ queue[q] \in Seq(Blocks)
  BY <1>1, SoundObject, KnownIs DEF Sound, States
<1>3. /\ Tail(queue[q]) \in Seq(Blocks) /\ Tail(queue[q]) \in Seq(Known(q))
      /\ Head(queue[q]) \in Known(q) /\ Head(queue[q]) \in Blocks
  BY <1>2, HeadTailProperties
<1>4. Taken(q).queue = [queue EXCEPT ![q] = Tail(queue[q])] /\ Taken(q).conn = conn
  BY <1>1 DEF Taken, Now
<1>5. queue \in [Queues -> Seq(Blocks)] /\ conn \in [Conns -> Objects]
  BY <1>1 DEF States, Now
<1>6. Taken(q) \in States
  <2>1. Taken(q) = [conn |-> conn, queue |-> [queue EXCEPT ![q] = Tail(queue[q])]]
    BY DEF Taken, Now
  <2>2. QED
    BY <1>3, <1>5, <2>1 DEF States
<1>7. QED
  BY <1>1, <1>2, <1>3, <1>4, <1>5, <1>6

\* What is not pending any more.
LEMMA PendingTaken ==
  ASSUME NEW F, Sound(Now, F), NEW q \in Queues, queue[q] # <<>>, NEW r \in Queues, NEW kind, NEW c
  PROVE  LET P == Pending(queue[r], kind, c)
             T == Pending(Taken(q).queue[r], kind, c)
             b == Head(queue[q])
         IN /\ T # {} => P # {}
            /\ (\A i, j \in P : i = j) => \A i, j \in T : i = j
            /\ ~(r = q /\ b.kind = kind /\ b.conn = c) => Cardinality(T) = Cardinality(P)
            /\ r = q /\ b.kind = kind /\ b.conn = c =>
                 /\ Cardinality(P) = Cardinality(T) + 1 /\ P # {}
                 /\ (\A i, j \in P : i = j) => T = {}
<1> DEFINE b == Head(queue[q])
           P == Pending(queue[r], kind, c)
           T == Pending(Taken(q).queue[r], kind, c)
<1>1. CASE r # q
  <2>1. T = P
    BY <1>1, TakenLeaves
  <2>2. QED
    BY <1>1, <2>1
<1>2. CASE r = q
  <2>1. queue[q] \in Seq(Blocks) /\ Taken(q).queue[r] = Tail(queue[q])
    BY <1>2, TakenLeaves
  <2>2. /\ Cardinality(P) = Cardinality(T) + One(b.kind = kind /\ b.conn = c)
        /\ T # {} => P # {}
        /\ (\A i, j \in P : i = j) =>
             /\ \A i, j \in T : i = j
             /\ b.kind = kind /\ b.conn = c => T = {}
        /\ b.kind = kind /\ b.conn = c => P # {}
    BY <1>2, <2>1, PendingTail
  <2>3. Cardinality(T) \in Nat
    <3>1. Tail(queue[q]) \in Seq(Blocks)
      BY <2>1, HeadTailProperties
    <3>2. QED
      BY <2>1, <3>1, PendingFinite
  <2> HIDE DEF P, T, b
  <2>4. QED
    BY <1>2, <2>2, <2>3 DEF One, P, T, b
<1>3. QED
  BY <1>1, <1>2

\* Taking a block leaves those behind it as they were.
LEMMA TakenSound ==
  ASSUME OwnQueues, NEW F, Sound(Now, F), NEW q \in Queues, queue[q] # <<>>
  PROVE  Sound(Taken(q), F)
<1> DEFINE s == Taken(q)
<1>1. /\ s \in States /\ s.conn = conn /\ Now.conn = conn /\ Now.queue = queue
      /\ s.queue[q] = Tail(queue[q]) /\ Tail(queue[q]) \in Seq(Known(q))
      /\ queue[q] \in Seq(Blocks)
      /\ \A r \in Queues : r # q => s.queue[r] = queue[r]
  BY TakenLeaves
<1> HIDE DEF s
<1>2. \A r \in Queues : s.queue[r] \in Seq(Known(r))
  BY <1>1 DEF Sound
<1>3. ASSUME NEW c \in Conns
      PROVE  Lives(s.conn[c], s.queue[ConnectionQueue[c]])
  <2>1. Lives(conn[c], queue[ConnectionQueue[c]])
    BY <1>1 DEF Sound
  <2>2. CASE ConnectionQueue[c] = q
    <3> DEFINE blocks == queue[q]
               rest == Tail(blocks)
    <3>1. /\ DOMAIN rest = 1 .. Len(rest) /\ DOMAIN blocks = 1 .. Len(blocks)
          /\ Len(rest) = Len(blocks) - 1 /\ Len(blocks) \in Nat
          /\ \A i \in 1 .. Len(rest) : rest[i] = blocks[i + 1]
      <4>1. blocks \in Seq(Blocks) /\ blocks # <<>>
        BY <1>1
      <4>2. rest \in Seq(Blocks)
        BY <4>1, HeadTailProperties
      <4>3. QED
        BY <4>1, <4>2, LenProperties, HeadTailProperties
    <3> HIDE DEF blocks, rest
    <3>2. Lives(conn[c], blocks) /\ blocks # <<>>
      BY <2>1, <2>2 DEF blocks
    <3>3. \A i \in DOMAIN rest : /\ i + 1 \in DOMAIN blocks /\ rest[i] = blocks[i + 1]
                                 /\ i \in Int
      BY <3>1
    <3>4. Undeleted(blocks) => Undeleted(rest)
      BY <3>3 DEF Undeleted
    <3>5. ASSUME NEW i \in DOMAIN rest, rest[i].kind = "delete"
          PROVE  i = Len(rest)
      <4>1. i + 1 = Len(blocks)
        BY <3>2, <3>3, <3>5 DEF Lives
      <4>2. QED
        BY <3>1, <3>3, <4>1
    <3>6. Lives(conn[c], rest)
      BY <3>2, <3>4, <3>5 DEF Lives
    <3>7. QED
      BY <1>1, <2>2, <3>6 DEF blocks, rest
  <2>3. CASE ConnectionQueue[c] # q
    <3>1. s.queue[ConnectionQueue[c]] = queue[ConnectionQueue[c]]
      BY <1>1, <2>3, QueueNames
    <3>2. QED
      BY <1>1, <2>1, <3>1
  <2>4. QED
    BY <2>2, <2>3
<1>4. ASSUME NEW c \in Conns
      PROVE  Once(s, c, F)
  <2>1. Once(Now, c, F)
    BY DEF Sound
  <2>2. /\ Announced(s, c) # {} => Announced(Now, c) # {}
        /\ (\A i, j \in Announced(Now, c) : i = j) => \A i, j \in Announced(s, c) : i = j
    BY <1>1, QueueNames, PendingTaken, ZenonT(60) DEF Announced, s
  <2>3. (\A i, j \in Leaving(Now, c) : i = j) => \A i, j \in Leaving(s, c) : i = j
    BY <1>1, QueueNames, PendingTaken, ZenonT(60) DEF Leaving, s
  <2>4. QED
    BY <1>1, <2>1, <2>2, <2>3 DEF Once
<1>5. QED
  BY <1>1, <1>2, <1>3, <1>4 DEF Sound, s

\* The reference of a callback that was taken is the one that is missing.
LEMMA TakenCounted ==
  ASSUME OwnQueues, NEW F, Sound(Now, F), NEW q \in Queues, queue[q] # <<>>,
         Counted(Now, NoConn, 0)
  PROVE  LET b == Head(queue[q]) IN
         IF q = DelegateQueue /\ b.kind = "callback"
         THEN Counted(Taken(q), b.conn, 1) ELSE Counted(Taken(q), NoConn, 0)
<1> DEFINE b == Head(queue[q])
           s == Taken(q)
           Calling(u, c) == Pending(u.queue[DelegateQueue], "callback", c)
           mine(c) == q = DelegateQueue /\ b.kind = "callback" /\ b.conn = c
<1>1. /\ s \in States /\ s.conn = conn /\ Now \in States /\ Now.conn = conn /\ Now.queue = queue
      /\ DelegateQueue \in Queues
  BY TakenLeaves, QueueNames
<1>2. ASSUME NEW c \in Conns
      PROVE  conn[c].refs = Owned(s, c) + IF mine(c) THEN 1 ELSE 0
  <2>1. IF mine(c) THEN Cardinality(Calling(Now, c)) = Cardinality(Calling(s, c)) + 1
                   ELSE Cardinality(Calling(s, c)) = Cardinality(Calling(Now, c))
    BY <1>1, PendingTaken, ZenonT(60)
  <2>2. Cardinality(Calling(Now, c)) \in Nat /\ Cardinality(Calling(s, c)) \in Nat
    BY <1>1, PendingFinite DEF States
  <2>3. conn[c].refs = Owned(Now, c) + 0 /\ Owned(Now, c) \in Nat
    BY <1>1, OwnedIs, QueueNames DEF Counted
  <2>4. /\ Owned(Now, c) = One(conn[c].delegate) + One(conn[c].kept) + Cardinality(Calling(Now, c))
        /\ Owned(s, c) = One(conn[c].delegate) + One(conn[c].kept) + Cardinality(Calling(s, c))
    BY <1>1 DEF Owned
  <2>5. One(conn[c].delegate) \in Nat /\ One(conn[c].kept) \in Nat
    BY DEF One
  <2> HIDE DEF mine, Calling
  <2>6. QED
    BY <2>1, <2>2, <2>3, <2>4, <2>5
<1>3. \A c \in Conns : Owned(s, c) \in Nat
  BY <1>1, OwnedIs
<1> HIDE DEF s, b
<1>4. CASE q = DelegateQueue /\ b.kind = "callback"
  <2>1. Counted(s, b.conn, 1)
    BY <1>1, <1>2, <1>3, <1>4 DEF Counted
  <2>2. QED
    BY <1>4, <2>1 DEF s, b
<1>5. CASE ~(q = DelegateQueue /\ b.kind = "callback")
  <2>1. Counted(s, NoConn, 0)
    BY <1>1, <1>2, <1>3, <1>5, QueueNames DEF Counted
  <2>2. QED
    BY <1>5, <2>1 DEF s, b
<1>6. QED
  BY <1>4, <1>5

\* Taking a block makes no connection, and ends none.
LEMMA TakenAlike ==
  ASSUME OwnQueues, NEW F, Sound(Now, F), NEW q \in Queues, queue[q] # <<>>
  PROVE  Alike(Now, Taken(q))
<1>1. Taken(q).conn = conn /\ Now.conn = conn /\ Now.queue = queue /\ SocketQueue \in Queues
  BY TakenLeaves, QueueNames
<1>2. \A c : Leaving(Taken(q), c) # {} => Leaving(Now, c) # {}
  BY <1>1, PendingTaken DEF Leaving
<1>3. QED
  BY <1>1, <1>2 DEF Alike

\* What is so when a queue takes a block.
LEMMA TakenFine ==
  ASSUME OwnQueues, LifeInv, NEW q \in Queues, NEW kind, Takes(q, kind),
         ~(q = DelegateQueue /\ kind = "callback")
  PROVE  LET b == Head(queue[q]) IN
         /\ Fine(Taken(q), Fresh, NoConn, 0) /\ thread[q] = Idle
         /\ b \in Known(q) /\ b \in Blocks /\ b.kind = kind
         /\ Taken(q).conn = conn
<1>1. /\ Sound(Now, Fresh) /\ Counted(Now, NoConn, 0) /\ queue[q] # <<>>
      /\ Head(queue[q]).kind = kind /\ thread[q] = Idle
  BY DEF LifeInv, Takes
<1>2. Sound(Taken(q), Fresh) /\ Counted(Taken(q), NoConn, 0) /\ Alike(Now, Taken(q))
  BY <1>1, TakenSound, TakenCounted, TakenAlike
<1>3. QED
  BY <1>1, <1>2, TakenLeaves DEF Fine

\* A block of a connection finds it alive; the one that deletes it is the last one, and
\* nobody refers to it any more.
LEMMA WorkFinds ==
  ASSUME OwnQueues, LifeInv, NEW q \in ConnQueues, NEW kind, Takes(q, kind)
  PROVE  LET b == Head(queue[q]) IN
         /\ b.conn \in Conns /\ ConnectionQueue[b.conn] = q /\ b.from \notin ConnQueues
         /\ b.kind = "message" => b.from = Nobody
         /\ conn[b.conn].alive
         /\ kind = "delete" => Taken(q).queue[q] = <<>> /\ ~(conn[b.conn].refs > 0)
<1> DEFINE b == Head(queue[q])
           c == b.conn
<1>1. /\ Sound(Now, Fresh) /\ q \in Queues /\ queue[q] # <<>> /\ b.kind = kind
      /\ q # SocketQueue /\ q # DelegateQueue
  BY QueueNames DEF LifeInv, Takes
<1>2. /\ b \in Known(q) /\ queue[q] \in Seq(Blocks) /\ Now.conn = conn /\ Now.queue = queue
      /\ Taken(q).queue[q] = Tail(queue[q])
  BY <1>1, TakenLeaves
<1>3. /\ c \in Conns /\ ConnectionQueue[c] = q /\ b.from \notin ConnQueues
      /\ b.kind = "message" => b.from = Nobody
  BY <1>2 DEF Known
<1>4. Lives(conn[c], queue[q])
  BY <1>1, <1>2, <1>3 DEF Sound
<1>5. conn[c].alive
  BY <1>1, <1>4 DEF Lives
<1>6. /\ 1 \in DOMAIN queue[q] /\ b = queue[q][1] /\ Len(queue[q]) \in Nat \ {0}
      /\ Len(Tail(queue[q])) = Len(queue[q]) - 1 /\ Tail(queue[q]) \in Seq(Blocks)
  BY <1>1, <1>2, LenProperties, EmptySeq, HeadTailProperties
<1>7. ASSUME kind = "delete"
      PROVE  Tail(queue[q]) = <<>> /\ ~(conn[c].refs > 0)
  <2>1. Len(queue[q]) = 1 /\ ~(conn[c].refs > 0)
    BY <1>1, <1>4, <1>6, <1>7 DEF Lives, Undeleted
  <2>2. Len(Tail(queue[q])) = 0
    BY <1>6, <2>1
  <2>3. Tail(queue[q]) = <<>>
    BY <1>6, <2>2, EmptySeq
  <2>4. QED
    BY <2>1, <2>3
<1>8. QED
  BY <1>2, <1>3, <1>5, <1>7

-----------------------------------------------------------------------------
(* Steps after which the same connections are made, found and invalidated *)

\* A queue that runs nothing.
LEMMA IdleBlock ==
  /\ Idle.block.from = Nobody /\ Idle.block.conn = NoConn /\ Idle.step = "none"
  /\ Idle.waits = Nobody /\ [Idle EXCEPT !.waits = Nobody] = Idle
  BY DEF Idle, Block

\* The state after a step.
LEMMA BecomesNow ==
  ASSUME NEW s \in States, Becomes(s)
  PROVE  Now' = s /\ conn' = s.conn /\ queue' = s.queue
  BY DEF States, Becomes, Now

\* A block that ends changes its own queue, and whoever waits for it goes on.
LEMMA FinishesLeaves ==
  ASSUME NEW E, OwnQueues, QueueInv(E), NEW q \in Queues, NEW b \in Blocks, Finishes(q, b)
  PROVE  /\ thread'[q] = Idle
         /\ \A r \in Queues : r # q =>
              /\ thread'[r].block = thread[r].block /\ thread'[r].step = thread[r].step
              /\ r # b.from => thread'[r] = thread[r]
              /\ r = b.from => thread'[r].waits = Nobody
              /\ thread[r] = Idle => thread'[r] = Idle
<1> DEFINE t == [thread EXCEPT ![q] = Idle]
<1>1. thread \in [Queues -> Threads] /\ b.from \in Queues \cup {Nobody} /\ Nobody \notin Queues
  BY QueueNames DEF QueueInv, ThreadInv, Blocks
<1>2. /\ t \in [Queues -> Threads] /\ t[q] = Idle
      /\ \A r \in Queues : r # q => t[r] = thread[r]
  BY <1>1, IdleIs
<1>3. thread' = IF b.from = Nobody THEN t ELSE [t EXCEPT ![b.from].waits = Nobody]
  BY DEF Finishes
<1> HIDE DEF t
<1>4. CASE b.from = Nobody
  <2>1. thread' = t
    BY <1>3, <1>4
  <2>2. QED
    BY <1>1, <1>2, <1>4, <2>1
<1>5. CASE b.from \in Queues
  <2> DEFINE f == b.from
             u == [t[f] EXCEPT !.waits = Nobody]
  <2>1. thread' = [t EXCEPT ![f] = u]
    BY <1>1, <1>3, <1>5
  <2>2. \A r \in Queues : thread'[r] = IF r = f THEN u ELSE t[r]
    BY <1>2, <2>1
  <2>3. /\ u.waits = Nobody /\ u.step = t[f].step /\ u.block = t[f].block
        /\ t[f] = Idle => u = Idle
    <3>1. t[f] \in Threads
      BY <1>2, <1>5
    <3>2. u.waits = Nobody /\ u.step = t[f].step /\ u.block = t[f].block
      BY <3>1 DEF Threads
    <3>3. QED
      BY <3>2, IdleBlock
  <2> HIDE DEF u, f
  <2>4. QED
    BY <1>2, <1>5, <2>2, <2>3 DEF f
<1>6. QED
  BY <1>1, <1>4, <1>5

\* Nothing changes that the map is about.
LEMMA ServedStays ==
  ASSUME NEW E, ServedInv, QueueInv(E), UNCHANGED serverConns,
         \A c \in Conns :
           /\ conn'[c].host = conn[c].host /\ conn'[c].delegate = conn[c].delegate
           /\ Leaving(Now, c)' # {} => Leaving(Now, c) # {}
           /\ Constructing(c)' <=> Constructing(c)
           /\ Invalidating(c)' <=> Invalidating(c)
           /\ Invalidating(c) =>
                thread'[ConnectionQueue[c]].waits = thread[ConnectionQueue[c]].waits
  PROVE  ServedInv'
<1>1. serverConns \in [Hosts -> Conns \cup {NoConn}]
  BY DEF QueueInv, MapInv
<1>2. \A c \in Conns : Registered(c)' <=> Registered(c)
  BY DEF Registered
<1>3. \A h \in Hosts : serverConns'[h] # NoConn =>
        conn'[serverConns'[h]].delegate /\ conn'[serverConns'[h]].host = h
  BY <1>1 DEF ServedInv
<1>4. \A c \in Conns : Constructing(c)' => serverConns'[conn'[c].host] = NoConn
  BY DEF ServedInv
<1>5. \A c \in Conns : conn'[c].delegate => Registered(c)' \/ Constructing(c)' \/ Invalidating(c)'
  BY <1>2 DEF ServedInv
<1>6. ASSUME NEW c \in Conns, Leaving(Now, c)' # {}
      PROVE  /\ Invalidating(c)' /\ Registered(c)'
             /\ thread'[ConnectionQueue[c]].waits = SocketQueue
  BY <1>2, <1>6 DEF ServedInv
<1>7. QED
  BY <1>3, <1>4, <1>5, <1>6 DEF ServedInv

\* The objects and queues after a step.
LEMMA FineStays ==
  ASSUME NEW s, Fine(s, Fresh, NoConn, 0), Becomes(s),
         \A c \in Conns : Constructing(c)' => Constructing(c)
  PROVE  /\ Sound(Now, Fresh)' /\ Counted(Now, NoConn, 0)'
         /\ \A c \in Conns : /\ conn'[c].host = conn[c].host /\ conn'[c].delegate = conn[c].delegate
                             /\ conn[c].kept => conn'[c].kept
                             /\ Leaving(Now, c)' # {} => Leaving(Now, c) # {}
<1>1. s \in States /\ Sound(s, Fresh) /\ Counted(s, NoConn, 0) /\ Alike(Now, s)
  BY DEF Fine, Sound
<1>2. Now' = s /\ conn' = s.conn /\ Now.conn = conn
  BY <1>1, BecomesNow DEF Now
<1>3. \A c \in Conns : /\ conn'[c].host = conn[c].host /\ conn'[c].delegate = conn[c].delegate
                       /\ conn[c].kept => conn'[c].kept
                       /\ Leaving(Now', c) # {} => Leaving(Now, c) # {}
  BY <1>1, <1>2 DEF Alike
<1>4. Fresh' \subseteq Fresh
  BY <1>3 DEF Fresh
<1>5. Sound(Now', Fresh')
  BY <1>1, <1>2, <1>4, SoundFewer
<1>6. Counted(Now', NoConn, 0)
  BY <1>1, <1>2
<1>7. QED
  BY <1>3, <1>5, <1>6

\* A block ends that no connection waits for and that neither makes nor invalidates one.
LEMMA FinishLife ==
  ASSUME NEW E, OwnQueues, QueueInv(E), LifeInv, NEW q \in Queues, NEW b \in Blocks, Finishes(q, b),
         b.from \notin ConnQueues, thread[q].step \notin {"constructing", "invalidating"},
         NEW s, Fine(s, Fresh, NoConn, 0), Becomes(s), UNCHANGED serverConns
  PROVE  LifeInv'
<1>1. /\ thread'[q] = Idle
      /\ \A r \in Queues : r # q =>
           /\ thread'[r].block = thread[r].block /\ thread'[r].step = thread[r].step
           /\ r # b.from => thread'[r] = thread[r]
           /\ thread[r] = Idle => thread'[r] = Idle
  BY FinishesLeaves
<1>2. /\ SocketQueue \in Queues /\ DelegateQueue \in Queues
      /\ \A c \in Conns : ConnectionQueue[c] \in ConnQueues /\ ConnectionQueue[c] \in Queues
      /\ \A r \in ConnQueues : r \in Queues
  BY QueueNames
<1>3. \A c \in Conns : /\ Constructing(c)' <=> Constructing(c)
                       /\ Inside(c)' => Inside(c)
  BY <1>1, <1>2, IdleBlock DEF Constructing, Inside
<1>4. \A c \in Conns : /\ Invalidating(c)' <=> Invalidating(c)
                       /\ Invalidating(c) => thread'[ConnectionQueue[c]] = thread[ConnectionQueue[c]]
  BY <1>1, <1>2, IdleBlock DEF Invalidating
<1>5. /\ Sound(Now, Fresh)' /\ Counted(Now, NoConn, 0)'
      /\ \A c \in Conns : /\ conn'[c].host = conn[c].host /\ conn'[c].delegate = conn[c].delegate
                          /\ conn[c].kept => conn'[c].kept
                          /\ Leaving(Now, c)' # {} => Leaving(Now, c) # {}
  BY <1>3, FineStays
<1>6. ServedInv'
  BY <1>3, <1>4, <1>5, ServedStays DEF LifeInv
<1>7. HoldInv'
  <2>1. \A r \in Queues : /\ thread'[r].block.from = Nobody
                          /\ thread'[r].step = "none" => thread'[r] = Idle
    BY <1>1, IdleBlock DEF LifeInv, HoldInv
  <2>2. thread'[SocketQueue].step \in Making \cup {"none"}
    BY <1>1, <1>2, IdleBlock DEF LifeInv, HoldInv
  <2>3. thread'[SocketQueue].step \in Making => conn'[thread'[SocketQueue].block.conn].delegate
    <3> SUFFICES ASSUME thread'[SocketQueue].step \in Making
                 PROVE  conn'[thread'[SocketQueue].block.conn].delegate
      OBVIOUS
    <3>1. /\ thread[SocketQueue].step \in Making
          /\ thread'[SocketQueue].block = thread[SocketQueue].block
      BY <1>1, <1>2, IdleBlock DEF Making
    <3>2. thread[SocketQueue].block.conn \in Conns
      BY <3>1 DEF QueueInv, ThreadInv
    <3>3. conn[thread[SocketQueue].block.conn].delegate
      BY <3>1 DEF LifeInv, HoldInv
    <3>4. QED
      BY <1>5, <3>1, <3>2, <3>3
  <2>4. thread'[DelegateQueue].step \in {"called", "closing", "none"}
    BY <1>1, <1>2, IdleBlock DEF LifeInv, HoldInv
  <2>5. thread'[DelegateQueue].step \in {"called", "closing"} =>
          LET c == thread'[DelegateQueue].block.conn IN c \in Conns /\ conn'[c].kept
    BY <1>1, <1>2, <1>5, IdleBlock DEF LifeInv, HoldInv
  <2>6. \A r \in ConnQueues : thread'[r].step \in {"invalidating", "none"}
    BY <1>1, <1>2, IdleBlock DEF LifeInv, HoldInv
  <2>7. ASSUME NEW c \in Conns, Invalidating(c)'
        PROVE  /\ conn'[c].delegate
               /\ thread'[ConnectionQueue[c]].waits = Nobody => ~Registered(c)' /\ ~Inside(c)'
    <3>1. /\ conn[c].delegate
          /\ thread[ConnectionQueue[c]].waits = Nobody => ~Registered(c) /\ ~Inside(c)
      BY <1>4, <2>7 DEF LifeInv, HoldInv
    <3>2. Registered(c)' <=> Registered(c)
      BY <1>5 DEF Registered
    <3>3. QED
      BY <1>3, <1>4, <1>5, <2>7, <3>1, <3>2
  <2>8. QED
    BY <2>1, <2>2, <2>3, <2>4, <2>5, <2>6, <2>7 DEF HoldInv
<1>8. QED
  BY <1>5, <1>6, <1>7 DEF LifeInv

\* The application calls a connection that it keeps.
LEMMA CalledLife ==
  ASSUME NEW E, OwnQueues, QueueInv(E), LifeInv, NEW b \in Blocks, b.from = Nobody, NEW other,
         NEW step \in {"called", "closing"}, Waits(DelegateQueue, b, step, other), b.conn \in Conns,
         NEW s, Fine(s, Fresh, NoConn, 0), s.conn[b.conn].kept, Becomes(s), UNCHANGED serverConns
  PROVE  LifeInv'
<1> DEFINE t == [block |-> b, step |-> step, waits |-> other]
<1>1. /\ SocketQueue \in Queues /\ DelegateQueue \in Queues /\ DelegateQueue # SocketQueue
      /\ \A c \in Conns : ConnectionQueue[c] \in ConnQueues /\ ConnectionQueue[c] \in Queues
      /\ \A r \in ConnQueues : r \in Queues /\ r # DelegateQueue
  BY QueueNames DEF OwnQueues
<1>2. t.block = b /\ t.step = step
  OBVIOUS
<1> HIDE DEF t
<1>3. thread'[DelegateQueue] = t /\ \A r \in Queues : r # DelegateQueue => thread'[r] = thread[r]
  <2>1. thread \in [Queues -> Threads] /\ thread' = [thread EXCEPT ![DelegateQueue] = t]
    BY DEF QueueInv, ThreadInv, Waits, t
  <2>2. QED
    BY <1>1, <2>1
<1>4. \A c \in Conns : /\ Constructing(c)' <=> Constructing(c)
                       /\ Inside(c)' => Inside(c)
  BY <1>1, <1>3 DEF Constructing, Inside
<1>5. \A c \in Conns : /\ Invalidating(c)' <=> Invalidating(c)
                       /\ thread'[ConnectionQueue[c]] = thread[ConnectionQueue[c]]
  BY <1>1, <1>3 DEF Invalidating
<1>6. /\ Sound(Now, Fresh)' /\ Counted(Now, NoConn, 0)'
      /\ \A c \in Conns : /\ conn'[c].host = conn[c].host /\ conn'[c].delegate = conn[c].delegate
                          /\ conn[c].kept => conn'[c].kept
                          /\ Leaving(Now, c)' # {} => Leaving(Now, c) # {}
  BY <1>4, FineStays
<1>7. ServedInv'
  BY <1>4, <1>5, <1>6, ServedStays DEF LifeInv
<1>8. HoldInv'
  <2>1. \A r \in Queues : /\ thread'[r].block.from = Nobody
                          /\ thread'[r].step = "none" => thread'[r] = Idle
    BY <1>2, <1>3 DEF LifeInv, HoldInv
  <2>2. /\ thread'[SocketQueue].step \in Making \cup {"none"}
        /\ \A r \in ConnQueues : thread'[r].step \in {"invalidating", "none"}
    BY <1>1, <1>3 DEF LifeInv, HoldInv
  <2>3. thread'[SocketQueue].step \in Making => conn'[thread'[SocketQueue].block.conn].delegate
    BY <1>1, <1>3, <1>6 DEF LifeInv, HoldInv, QueueInv, ThreadInv
  <2>4. /\ thread'[DelegateQueue].step = step /\ thread'[DelegateQueue].block.conn \in Conns
        /\ conn'[thread'[DelegateQueue].block.conn].kept
    BY <1>2, <1>3 DEF Becomes
  <2>5. ASSUME NEW c \in Conns, Invalidating(c)'
        PROVE  /\ conn'[c].delegate
               /\ thread'[ConnectionQueue[c]].waits = Nobody => ~Registered(c)' /\ ~Inside(c)'
    <3>1. /\ conn[c].delegate
          /\ thread[ConnectionQueue[c]].waits = Nobody => ~Registered(c) /\ ~Inside(c)
      BY <1>5, <2>5 DEF LifeInv, HoldInv
    <3>2. Registered(c)' <=> Registered(c)
      BY <1>6 DEF Registered
    <3>3. QED
      BY <1>4, <1>5, <1>6, <2>5, <3>1, <3>2
  <2>6. QED
    BY <2>1, <2>2, <2>3, <2>4, <2>5 DEF HoldInv
<1>9. QED
  BY <1>6, <1>7, <1>8 DEF LifeInv

-----------------------------------------------------------------------------
(* The queue of a connection *)

\* A connection that has its delegate and is made is found by its address; it is invalidated
\* by one block, which waits for the one that takes the address out of the map.
LEMMA ForceCloseLife ==
  ASSUME NEW E, OwnQueues, QueueInv(E), LifeInv, NEW q \in ConnQueues,
         NEW b \in Blocks, b.from = Nobody,
         b.conn \in Conns, ConnectionQueue[b.conn] = q, thread[q] = Idle,
         NEW s, Fine(s, Fresh, NoConn, 0), s.conn[b.conn].delegate => b.conn \notin Young(E),
         ForceClose(s, q, b), UNCHANGED serverConns
  PROVE  LifeInv'
<1> DEFINE c == b.conn
           u == [s EXCEPT !.conn[c].logical = "closed"]
           t == WasClosed(u, c)
           d == Block("deregister", c, "nothing", q)
           n == Enqueued(t, SocketQueue, d)
<1>1. /\ q \in Queues /\ q # SocketQueue /\ q # DelegateQueue /\ Nobody \notin ConnQueues
      /\ SocketQueue \in Queues /\ SocketQueue \notin ConnQueues
      /\ SocketQueue # DelegateQueue
      /\ \A e \in Conns : ConnectionQueue[e] \in ConnQueues /\ ConnectionQueue[e] \in Queues
      /\ \A e \in Conns : e # c => ConnectionQueue[e] # q
      /\ \A r \in ConnQueues : r \in Queues
  BY QueueNames DEF OwnQueues
<1>2. Fine(u, Fresh, NoConn, 0)
  BY LogicalFine
<1> HIDE DEF u
<1>3. Fine(t, Fresh, NoConn, 0)
  BY <1>2, EmittedFine DEF WasClosed, Words
<1> HIDE DEF t
<1>4. thread[q].step = "none" /\ Nobody \notin ConnQueues
  BY <1>1, IdleBlock
<1>5. CASE Becomes(s) /\ Finishes(q, b)
  BY <1>1, <1>4, <1>5, FinishLife
<1>6. CASE Becomes(Descheduled(t, c)) /\ Finishes(q, b)
  BY <1>1, <1>3, <1>4, <1>6, DescheduledFine, FinishLife
<1>7. CASE /\ s.conn[c].delegate /\ Becomes(n) /\ Waits(q, b, "invalidating", SocketQueue)
  <2> DEFINE w == [block |-> b, step |-> "invalidating", waits |-> SocketQueue]
  <2>1. /\ Sound(t, Fresh) /\ Counted(t, NoConn, 0) /\ t \in States
        /\ Now.conn = conn
        /\ \A e \in Conns :
             /\ t.conn[e].host = conn[e].host /\ t.conn[e].delegate = conn[e].delegate
             /\ conn[e].kept => t.conn[e].kept
             /\ Leaving(t, e) # {} => Leaving(Now, e) # {}
    BY <1>3 DEF Fine, Sound, Alike, Now
  <2>2. conn[c].delegate
    BY <1>7 DEF Fine, Alike, Now
  <2>3. ~Invalidating(c) /\ ~Constructing(c)
    BY <1>4, <1>7 DEF Invalidating, Young
  <2>4. Registered(c) /\ Leaving(t, c) = {}
    BY <2>1, <2>2, <2>3 DEF LifeInv, ServedInv
  <2>5. d \in Blocks /\ d.kind = "deregister" /\ d.conn = c /\ d.from = q
    BY <1>1 DEF Block, Blocks, Kinds, Words
  <2>6. d \in Known(SocketQueue)
    BY <1>1, <2>5 DEF Known
  <2> HIDE DEF d
  <2>7. Sound(n, Fresh) /\ Counted(n, NoConn, 0)
    BY <1>1, <2>1, <2>4, <2>5, <2>6, EnqueuedSound, EnqueuedCounted
  <2>8. /\ n \in States /\ n.conn = t.conn
        /\ \A e \in Conns : e # c => Leaving(n, e) = Leaving(t, e)
    <3>1. n \in States /\ n.conn = t.conn
      BY <1>1, <2>1, <2>5, EnqueuedIs
    <3>2. \A e \in Conns : e # c => Leaving(n, e) = Leaving(t, e)
      <4> SUFFICES ASSUME NEW e \in Conns, e # c
                   PROVE  Leaving(n, e) = Leaving(t, e)
        OBVIOUS
      <4>1. ~(d.kind = "deregister" /\ d.conn = e)
        BY <2>5
      <4>2. SocketQueue \in Queues /\ d \in Blocks /\ t \in States
        BY <1>1, <2>1, <2>5
      <4>3. Pending(n.queue[SocketQueue], "deregister", e)
              = Pending(t.queue[SocketQueue], "deregister", e)
        BY <4>1, <4>2, PendingEnqueued
      <4>4. QED
        BY <4>3 DEF Leaving
    <3>3. QED
      BY <3>1, <3>2
  <2> HIDE DEF n
  <2>9. Now' = n /\ conn' = n.conn
    BY <1>7, <2>8, BecomesNow
  <2>10. w.block = b /\ w.step = "invalidating" /\ w.waits = SocketQueue
    OBVIOUS
  <2> HIDE DEF w
  <2>11. thread'[q] = w /\ \A r \in Queues : r # q => thread'[r] = thread[r]
    <3>1. thread \in [Queues -> Threads] /\ thread' = [thread EXCEPT ![q] = w]
      BY <1>7 DEF QueueInv, ThreadInv, Waits, w
    <3>2. QED
      BY <1>1, <3>1
  <2>12. /\ \A e \in Conns : /\ Constructing(e)' <=> Constructing(e)
                             /\ Inside(e)' <=> Inside(e)
         /\ Invalidating(c)' /\ thread'[ConnectionQueue[c]].waits = SocketQueue
         /\ \A e \in Conns : e # c => /\ Invalidating(e)' <=> Invalidating(e)
                                      /\ thread'[ConnectionQueue[e]] = thread[ConnectionQueue[e]]
    BY <1>1, <2>10, <2>11 DEF Constructing, Inside, Invalidating
  <2>13. \A e \in Conns : /\ conn'[e].host = conn[e].host /\ conn'[e].delegate = conn[e].delegate
                          /\ conn[e].kept => conn'[e].kept
                          /\ e # c /\ Leaving(Now', e) # {} => Leaving(Now, e) # {}
                          /\ Registered(e)' <=> Registered(e)
    BY <2>1, <2>8, <2>9 DEF Registered
  <2>14. Sound(Now', Fresh') /\ Counted(Now', NoConn, 0)
    <3>1. Fresh' = Fresh
      BY <2>12, <2>13 DEF Fresh
    <3>2. QED
      BY <2>7, <2>9, <3>1
  <2>15. ServedInv'
    <3>1. serverConns \in [Hosts -> Conns \cup {NoConn}]
      BY DEF QueueInv, MapInv
    <3>2. \A h \in Hosts : serverConns'[h] # NoConn =>
            conn'[serverConns'[h]].delegate /\ conn'[serverConns'[h]].host = h
      BY <2>13, <3>1 DEF LifeInv, ServedInv
    <3>3. \A e \in Conns : Constructing(e)' => serverConns'[conn'[e].host] = NoConn
      BY <2>12, <2>13 DEF LifeInv, ServedInv
    <3>4. \A e \in Conns : conn'[e].delegate => Registered(e)' \/ Constructing(e)' \/ Invalidating(e)'
      BY <2>12, <2>13 DEF LifeInv, ServedInv
    <3>5. ASSUME NEW e \in Conns, Leaving(Now', e) # {}
          PROVE  /\ Invalidating(e)' /\ Registered(e)'
                 /\ thread'[ConnectionQueue[e]].waits = SocketQueue
      <4>1. CASE e = c
        BY <2>4, <2>12, <2>13, <4>1
      <4>2. CASE e # c
        BY <2>12, <2>13, <3>5, <4>2 DEF LifeInv, ServedInv
      <4>3. QED
        BY <4>1, <4>2
    <3>6. QED
      BY <3>2, <3>3, <3>4, <3>5 DEF ServedInv
  <2>16. HoldInv'
    <3>1. \A r \in Queues : /\ thread'[r].block.from = Nobody
                            /\ thread'[r].step = "none" => thread'[r] = Idle
      BY <2>10, <2>11 DEF LifeInv, HoldInv
    <3>2. /\ thread'[SocketQueue] = thread[SocketQueue]
          /\ thread'[DelegateQueue] = thread[DelegateQueue]
      BY <1>1, <2>11, QueueNames
    <3>3. \A r \in ConnQueues : thread'[r].step \in {"invalidating", "none"}
      BY <1>1, <2>10, <2>11 DEF LifeInv, HoldInv
    <3>4. /\ thread'[SocketQueue].step \in Making \cup {"none"}
          /\ thread'[SocketQueue].step \in Making => conn'[thread'[SocketQueue].block.conn].delegate
      BY <2>13, <3>2 DEF LifeInv, HoldInv, QueueInv, ThreadInv
    <3>5. /\ thread'[DelegateQueue].step \in {"called", "closing", "none"}
          /\ thread'[DelegateQueue].step \in {"called", "closing"} =>
               LET e == thread'[DelegateQueue].block.conn IN e \in Conns /\ conn'[e].kept
      BY <2>13, <3>2 DEF LifeInv, HoldInv
    <3>6. ASSUME NEW e \in Conns, Invalidating(e)'
          PROVE  /\ conn'[e].delegate
                 /\ thread'[ConnectionQueue[e]].waits = Nobody => ~Registered(e)' /\ ~Inside(e)'
      <4>1. CASE e = c
        BY <1>1, <2>2, <2>3, <2>12, <2>13, <4>1, QueueNames
      <4>2. CASE e # c
        BY <2>12, <2>13, <3>6, <4>2 DEF LifeInv, HoldInv
      <4>3. QED
        BY <4>1, <4>2
    <3>7. QED
      BY <3>1, <3>3, <3>4, <3>5, <3>6 DEF HoldInv
  <2>17. QED
    BY <2>14, <2>15, <2>16 DEF LifeInv
<1>8. QED
  BY <1>5, <1>6, <1>7 DEF ForceClose, t, u

\* forceClose() runs at once on the queue of its connection.
LEMMA ForceCloseSchedulesLife ==
  ASSUME NEW E, OwnQueues, QueueInv(E), LifeInv, NEW q \in ConnQueues, NEW b \in Blocks,
         b.from \notin ConnQueues, b.conn \in Conns, ConnectionQueue[b.conn] = q, thread[q] = Idle,
         NEW s, Fine(s, Fresh, NoConn, 0), s.conn[b.conn].alive,
         ScheduleForceClose(s, q, b), UNCHANGED serverConns
  PROVE  LifeInv'
<1>1. Becomes(Scheduled(s, b.conn, "force")) /\ Finishes(q, b) /\ q \in Queues
  BY QueueNames DEF ScheduleForceClose, Inline
<1>2. Fine(Scheduled(s, b.conn, "force"), Fresh, NoConn, 0)
  BY ScheduledFine DEF Timers
<1>3. thread[q].step = "none"
  BY IdleBlock
<1>4. QED
  BY <1>1, <1>2, <1>3, FinishLife

\* A packet finds its connection alive.
LEMMA GotMessageLife ==
  ASSUME NEW E, OwnQueues, QueueInv(E), LifeInv, NEW q \in ConnQueues, GotMessage(q)
  PROVE  LifeInv'
<1> DEFINE b == Head(queue[q])
           u == Taken(q)
           s == Scheduled(u, b.conn, "connection")
<1>1. /\ Takes(q, "message") /\ q \in Queues /\ UNCHANGED serverConns /\ q # DelegateQueue
      /\ \/ GotSyn(s, q, b) \/ ForceClose(s, q, b)
         \/ /\ Finishes(q, b)
            /\ Becomes(IF s.conn[b.conn].logical = "open" THEN Emitted(s, b.conn, "message") ELSE s)
  BY QueueNames DEF GotMessage
<1>2. /\ Fine(u, Fresh, NoConn, 0) /\ thread[q] = Idle /\ b \in Blocks /\ u.conn = conn
      /\ b.kind = "message"
  BY <1>1, TakenFine
<1>3. /\ b.conn \in Conns /\ ConnectionQueue[b.conn] = q /\ b.from = Nobody
      /\ conn[b.conn].alive
  BY <1>1, <1>2, WorkFinds
<1>4. b.conn \notin Young(E)
  BY <1>1, TakesIs, TakenConn DEF Harmless
<1> HIDE DEF b, u
<1>5. /\ Fine(s, Fresh, NoConn, 0) /\ s.conn[b.conn].alive
  <2>1. u.conn[b.conn].alive
    BY <1>2, <1>3
  <2>2. u \in States /\ u.conn[b.conn] \in Objects
    BY <1>2, <1>3, SoundObject DEF Fine
  <2>3. s.conn[b.conn].alive = u.conn[b.conn].alive
    BY <1>3, <2>2 DEF Scheduled, States, Objects
  <2>4. QED
    BY <1>2, <1>3, <2>1, <2>3, ScheduledFine DEF Timers
<1> HIDE DEF s
<1>6. thread[q].step = "none" /\ b.from \notin ConnQueues
  BY <1>2, <1>3, IdleBlock, QueueNames
<1>7. CASE GotSyn(s, q, b)
  <2>1. CASE Becomes([s EXCEPT !.conn[b.conn].logical = "open"]) /\ Finishes(q, b)
    BY <1>1, <1>2, <1>3, <1>5, <1>6, <2>1, LogicalFine, FinishLife
  <2>2. CASE Becomes(s) /\ Finishes(q, b)
    BY <1>1, <1>2, <1>5, <1>6, <2>2, FinishLife
  <2>3. CASE ScheduleForceClose(s, q, b)
    BY <1>1, <1>2, <1>3, <1>5, <1>6, <2>3, ForceCloseSchedulesLife
  <2>4. QED
    BY <1>7, <2>1, <2>2, <2>3 DEF GotSyn
<1>8. CASE ForceClose(s, q, b)
  BY <1>1, <1>2, <1>3, <1>4, <1>5, <1>8, ForceCloseLife
<1>9. CASE /\ Finishes(q, b)
           /\ Becomes(IF s.conn[b.conn].logical = "open" THEN Emitted(s, b.conn, "message") ELSE s)
  <2>1. Fine(Emitted(s, b.conn, "message"), Fresh, NoConn, 0)
    BY <1>3, <1>5, EmittedFine DEF Words
  <2>2. QED
    BY <1>1, <1>2, <1>5, <1>6, <1>9, <2>1, FinishLife
<1>10. QED
  BY <1>1, <1>7, <1>8, <1>9 DEF b, u, s

\* Invalidation gives up the reference of EmiConnDelegate.
LEMMA LetGoSound ==
  ASSUME OwnQueues, LifeInv, NEW c \in Conns, Invalidating(c)
  PROVE  LET u == Descheduled(LetGo(Now, c), c) IN
         /\ Sound(u, Fresh) /\ Counted(u, NoConn, 0) /\ u.queue[SocketQueue] = queue[SocketQueue]
         /\ \A e \in Conns : /\ u.conn[e].host = conn[e].host /\ u.conn[e].kept = conn[e].kept
                             /\ u.conn[e].delegate = (conn[e].delegate /\ e # c)
<1> DEFINE r == [conn[c] EXCEPT !.delegate = FALSE]
           s == [Now EXCEPT !.conn[c] = r]
           t == Released(s, c)
           o == [t.conn[c] EXCEPT !.timers = @ \cap {"force"}]
           u == [t EXCEPT !.conn[c] = o]
<1>1. Descheduled(LetGo(Now, c), c) = u
  BY DEF LetGo, Now, Descheduled
<1>2. /\ Sound(Now, Fresh) /\ Counted(Now, c, 0) /\ Now \in States
      /\ Now.conn = conn /\ Now.queue = queue
  BY CountedNobody DEF LifeInv, Sound, Now
<1>3. conn[c] \in Objects /\ Lives(conn[c], queue[ConnectionQueue[c]]) /\ conn[c].refs \in Int
  BY <1>2, SoundObject DEF Objects
<1>4. /\ r \in Objects /\ r.host = conn[c].host /\ r.delegate = FALSE
      /\ r.kept = conn[c].kept /\ r.timers = conn[c].timers /\ r.refs = conn[c].refs
      /\ r.alive = conn[c].alive
  BY <1>3, Zenon DEF Objects
<1> HIDE DEF r
<1>5. Lives(r, queue[ConnectionQueue[c]])
  BY <1>3, <1>4 DEF Lives
<1>6. Sound(s, Fresh)
  BY <1>2, <1>4, <1>5, ChangedSound
<1>7. Counted(s, c, 1)
  <2>1. r.refs - One(r.delegate) - One(r.kept) - 1
          = conn[c].refs - One(conn[c].delegate) - One(conn[c].kept) - 0
    <3>1. conn[c].delegate
      BY DEF LifeInv, HoldInv
    <3>2. One(r.kept) = One(conn[c].kept) /\ One(r.kept) \in Int
      BY <1>4 DEF One
    <3>3. One(r.delegate) = 0 /\ One(conn[c].delegate) = 1
      BY <1>4, <3>1 DEF One
    <3>4. QED
      BY <1>3, <1>4, <3>2, <3>3
  <2>2. QED
    BY <1>2, <1>4, <2>1, ChangedCounted, SMTT(60)
<1>8. /\ s.queue = queue /\ s.conn[c] = r
      /\ \A e \in Conns : e # c => s.conn[e] = conn[e]
  <2>1. /\ s.queue = Now.queue /\ s.conn[c] = r
        /\ \A e \in Conns : e # c => s.conn[e] = Now.conn[e]
    BY <1>2, <1>4, ChangedIs
  <2> HIDE DEF s
  <2>2. QED
    BY <1>2, <2>1
<1> HIDE DEF s
<1>9. /\ Sound(t, Fresh) /\ Counted(t, c, 0) /\ t.queue[SocketQueue] = queue[SocketQueue]
      /\ \A e \in Conns : /\ t.conn[e].host = s.conn[e].host /\ t.conn[e].kept = s.conn[e].kept
                          /\ t.conn[e].delegate = s.conn[e].delegate
  <2>1. SocketQueue \in Queues \ ConnQueues
    BY QueueNames
  <2>2. /\ Sound(t, Fresh) /\ Counted(t, c, 0)
        /\ \A e \in Conns : /\ t.conn[e].host = s.conn[e].host
                            /\ t.conn[e].delegate = s.conn[e].delegate
                            /\ t.conn[e].kept = s.conn[e].kept
        /\ \A p \in Queues \ ConnQueues : t.queue[p] = s.queue[p]
    BY <1>6, <1>7, ReleasedSound, ZenonT(60)
  <2>3. QED
    BY <1>8, <2>1, <2>2
<1> HIDE DEF t
<1>10. t \in States /\ t.conn[c] \in Objects /\ Lives(t.conn[c], t.queue[ConnectionQueue[c]])
  BY <1>9, SoundObject
<1>11. /\ o \in Objects /\ o.host = t.conn[c].host /\ o.delegate = t.conn[c].delegate
       /\ o.kept = t.conn[c].kept /\ o.refs = t.conn[c].refs /\ o.alive = t.conn[c].alive
       /\ o.timers \subseteq t.conn[c].timers
  <2>1. t.conn[c] \in Objects
    BY <1>10
  <2>2. QED
    BY <2>1 DEF Objects
<1> HIDE DEF o
<1>12. Lives(o, t.queue[ConnectionQueue[c]])
  BY <1>10, <1>11 DEF Lives
<1>13. Sound(u, Fresh)
  <2>1. o.kept => t.conn[c].kept
    BY <1>11
  <2>2. QED
    BY <1>9, <1>11, <1>12, <2>1, ChangedSound
<1>14. Counted(u, NoConn, 0)
  <2>1. o.refs - One(o.delegate) - One(o.kept) - 0
          = t.conn[c].refs - One(t.conn[c].delegate) - One(t.conn[c].kept) - 0
    BY <1>11
  <2>2. Counted(u, c, 0)
    BY <1>9, <1>10, <1>11, <2>1, ChangedCounted
  <2>3. QED
    BY <2>2, CountedNobody
<1>15. u.queue = t.queue /\ u.conn[c] = o /\ \A e \in Conns : e # c => u.conn[e] = t.conn[e]
  BY <1>10, <1>11, ChangedIs
<1> HIDE DEF u
<1>16. ASSUME NEW e \in Conns
       PROVE  /\ u.conn[e].host = conn[e].host /\ u.conn[e].kept = conn[e].kept
              /\ u.conn[e].delegate = (conn[e].delegate /\ e # c)
  <2>1. CASE e = c
    BY <1>4, <1>8, <1>9, <1>11, <1>15, <2>1
  <2>2. CASE e # c
    <3>1. conn[e].delegate \in BOOLEAN
      BY <1>2 DEF States, Objects
    <3>2. u.conn[e] = t.conn[e] /\ s.conn[e] = conn[e]
      BY <1>8, <1>15, <2>2
    <3>3. /\ u.conn[e].host = conn[e].host /\ u.conn[e].kept = conn[e].kept
          /\ u.conn[e].delegate = conn[e].delegate
      BY <1>9, <3>2
    <3>4. QED
      BY <2>2, <3>1, <3>3
  <2>3. QED
    BY <2>1, <2>2
<1>17. QED
  BY <1>1, <1>9, <1>13, <1>14, <1>15, <1>16

\* The rest of invalidate: the connection is not in the map any more.
LEMMA InvalidatedLife ==
  ASSUME NEW E, OwnQueues, QueueInv(E), LifeInv, NEW c \in Conns, Invalidated(ConnectionQueue[c]),
         thread[ConnectionQueue[c]].block.conn = c
  PROVE  LifeInv'
<1> DEFINE q == ConnectionQueue[c]
           b == thread[q].block
           u == Descheduled(LetGo(Now, c), c)
<1>1. /\ thread[q].step = "invalidating" /\ thread[q].waits = Nobody /\ UNCHANGED serverConns
      /\ Becomes(u) /\ Finishes(q, b)
  BY DEF Invalidated, Resumes
<1>2. /\ q \in Queues /\ q # SocketQueue /\ q # DelegateQueue /\ SocketQueue \in Queues
      /\ DelegateQueue \in Queues /\ Nobody \notin Queues
      /\ \A e \in Conns : ConnectionQueue[e] \in ConnQueues /\ ConnectionQueue[e] \in Queues
      /\ \A e \in Conns : e # c => ConnectionQueue[e] # q
      /\ \A p \in ConnQueues : p \in Queues
  BY QueueNames DEF OwnQueues
<1>3. b \in Blocks /\ b.from = Nobody
  BY <1>2 DEF QueueInv, ThreadInv, Threads, LifeInv, HoldInv
<1>4. Invalidating(c) /\ conn[c].delegate /\ ~Inside(c) /\ ~Registered(c)
  BY <1>1 DEF Invalidating, LifeInv, HoldInv
<1>5. Leaving(Now, c) = {}
  BY <1>1, <1>2 DEF LifeInv, ServedInv
<1>6. /\ Sound(u, Fresh) /\ Counted(u, NoConn, 0) /\ u.queue[SocketQueue] = queue[SocketQueue]
      /\ \A e \in Conns : /\ u.conn[e].host = conn[e].host /\ u.conn[e].kept = conn[e].kept
                          /\ u.conn[e].delegate = (conn[e].delegate /\ e # c)
  BY <1>4, LetGoSound
<1> HIDE DEF u
<1>7. Now' = u /\ conn' = u.conn
  BY <1>1, <1>6, BecomesNow DEF Sound
<1>8. /\ \A e \in Conns : /\ conn'[e].host = conn[e].host /\ conn'[e].kept = conn[e].kept
                          /\ e # c => conn'[e].delegate = conn[e].delegate
                          /\ Leaving(Now', e) = Leaving(Now, e)
                          /\ Registered(e)' <=> Registered(e)
      /\ ~conn'[c].delegate
  <2>1. \A e \in Conns : conn'[e].host = conn[e].host /\ conn'[e].kept = conn[e].kept
    BY <1>6, <1>7
  <2>2. /\ \A e \in Conns : e # c => conn'[e].delegate = conn[e].delegate
        /\ ~conn'[c].delegate
    <3>1. \A e \in Conns : conn[e].delegate \in BOOLEAN
      BY DEF LifeInv, Sound, Now, States, Objects
    <3>2. QED
      BY <1>6, <1>7, <3>1
  <2>3. \A e \in Conns : Leaving(Now', e) = Leaving(Now, e)
    BY <1>6, <1>7 DEF Leaving, Now
  <2>4. QED
    BY <1>1, <2>1, <2>2, <2>3 DEF Registered
<1>9. thread'[q] = Idle /\ \A p \in Queues : p # q => thread'[p] = thread[p]
  BY <1>1, <1>2, <1>3, FinishesLeaves
<1>10. /\ \A e \in Conns : /\ Constructing(e)' <=> Constructing(e)
                           /\ Inside(e)' <=> Inside(e)
       /\ ~Invalidating(c)'
       /\ \A e \in Conns : e # c => /\ Invalidating(e)' <=> Invalidating(e)
                                    /\ thread'[ConnectionQueue[e]] = thread[ConnectionQueue[e]]
  <2>1. \A e \in Conns : /\ Constructing(e)' <=> Constructing(e)
                         /\ Inside(e)' <=> Inside(e)
    BY <1>2, <1>9 DEF Constructing, Inside
  <2>2. ~Invalidating(c)'
    BY <1>2, <1>9, IdleBlock DEF Invalidating
  <2>3. \A e \in Conns : e # c => /\ Invalidating(e)' <=> Invalidating(e)
                                  /\ thread'[ConnectionQueue[e]] = thread[ConnectionQueue[e]]
    BY <1>2, <1>9 DEF Invalidating
  <2>4. QED
    BY <2>1, <2>2, <2>3
<1>11. Sound(Now', Fresh') /\ Counted(Now', NoConn, 0)
  <2>1. Fresh' = Fresh
    BY <1>8, <1>10 DEF Fresh
  <2>2. QED
    BY <1>6, <1>7, <2>1
<1>12. ServedInv'
  <2>1. serverConns \in [Hosts -> Conns \cup {NoConn}]
    BY DEF QueueInv, MapInv
  <2>2. ASSUME NEW h \in Hosts, serverConns[h] # NoConn
        PROVE  conn'[serverConns[h]].delegate /\ conn'[serverConns[h]].host = h
    <3>1. serverConns[h] \in Conns /\ conn[serverConns[h]].delegate /\ conn[serverConns[h]].host = h
      BY <2>1, <2>2 DEF LifeInv, ServedInv
    <3>2. serverConns[h] # c
      BY <1>4, <3>1 DEF Registered
    <3>3. QED
      BY <1>8, <3>1, <3>2
  <2>3. \A e \in Conns : Constructing(e)' => serverConns[conn'[e].host] = NoConn
    BY <1>8, <1>10 DEF LifeInv, ServedInv
  <2>4. \A e \in Conns : conn'[e].delegate => Registered(e)' \/ Constructing(e)' \/ Invalidating(e)'
    BY <1>8, <1>10 DEF LifeInv, ServedInv
  <2>5. \A e \in Conns : Leaving(Now', e) # {} =>
          Invalidating(e)' /\ Registered(e)' /\ thread'[ConnectionQueue[e]].waits = SocketQueue
    BY <1>5, <1>8, <1>10 DEF LifeInv, ServedInv
  <2>6. QED
    BY <1>1, <2>2, <2>3, <2>4, <2>5 DEF ServedInv
<1>13. HoldInv'
  <2>1. \A p \in Queues : /\ thread'[p].block.from = Nobody
                          /\ thread'[p].step = "none" => thread'[p] = Idle
    BY <1>9, IdleBlock DEF LifeInv, HoldInv
  <2>2. /\ thread'[SocketQueue] = thread[SocketQueue]
        /\ thread'[DelegateQueue] = thread[DelegateQueue]
    BY <1>2, <1>9
  <2>3. \A p \in ConnQueues : thread'[p].step \in {"invalidating", "none"}
    BY <1>2, <1>9, IdleBlock DEF LifeInv, HoldInv
  <2>4. /\ thread'[SocketQueue].step \in Making \cup {"none"}
        /\ thread'[SocketQueue].step \in Making => conn'[thread'[SocketQueue].block.conn].delegate
    <3>1. thread[SocketQueue].step \in Making =>
            /\ thread[SocketQueue].block.conn \in Conns
            /\ conn[thread[SocketQueue].block.conn].delegate
            /\ thread[SocketQueue].block.conn # c
      BY <1>4 DEF LifeInv, HoldInv, QueueInv, ThreadInv, Inside, Making
    <3>2. QED
      BY <1>8, <2>2, <3>1 DEF LifeInv, HoldInv
  <2>5. /\ thread'[DelegateQueue].step \in {"called", "closing", "none"}
        /\ thread'[DelegateQueue].step \in {"called", "closing"} =>
             LET e == thread'[DelegateQueue].block.conn IN e \in Conns /\ conn'[e].kept
    BY <1>8, <2>2 DEF LifeInv, HoldInv
  <2>6. \A e \in Conns : Invalidating(e)' =>
          /\ conn'[e].delegate
          /\ thread'[ConnectionQueue[e]].waits = Nobody => ~Registered(e)' /\ ~Inside(e)'
    <3> SUFFICES ASSUME NEW e \in Conns, Invalidating(e)'
                 PROVE  /\ conn'[e].delegate
                        /\ thread'[ConnectionQueue[e]].waits = Nobody => ~Registered(e)' /\ ~Inside(e)'
      OBVIOUS
    <3>1. e # c /\ Invalidating(e) /\ thread'[ConnectionQueue[e]] = thread[ConnectionQueue[e]]
      BY <1>10
    <3>2. /\ conn[e].delegate
          /\ thread[ConnectionQueue[e]].waits = Nobody => ~Registered(e) /\ ~Inside(e)
      BY <3>1 DEF LifeInv, HoldInv
    <3>3. QED
      BY <1>8, <1>10, <3>1, <3>2
  <2>7. QED
    BY <2>1, <2>3, <2>4, <2>5, <2>6 DEF HoldInv
<1>14. QED
  BY <1>11, <1>12, <1>13 DEF LifeInv

\* Deletion: nobody refers to the connection, and no block comes after it.
LEMMA RunDeleteLife ==
  ASSUME NEW E, OwnQueues, QueueInv(E), LifeInv, NEW q \in ConnQueues, RunDelete(q)
  PROVE  LifeInv'
<1> DEFINE b == Head(queue[q])
           s == Taken(q)
           c == b.conn
           r == [s.conn[c] EXCEPT !.alive = FALSE, !.timers = {}]
           t == [s EXCEPT !.conn[c].alive = FALSE, !.conn[c].timers = {}]
<1>1. Becomes(t) /\ Finishes(q, b) /\ Takes(q, "delete") /\ UNCHANGED serverConns
      /\ q \in Queues /\ q # DelegateQueue
  BY QueueNames DEF RunDelete
<1>2. /\ Fine(s, Fresh, NoConn, 0) /\ thread[q] = Idle /\ b \in Blocks /\ s.conn = conn
  BY <1>1, TakenFine
<1>3. /\ c \in Conns /\ ConnectionQueue[c] = q /\ b.from \notin ConnQueues
      /\ s.queue[q] = <<>> /\ ~(s.conn[c].refs > 0)
  BY <1>1, <1>2, WorkFinds
<1> HIDE DEF b, s, c
<1>4. s \in States /\ s.conn[c] \in Objects
  BY <1>2, <1>3, SoundObject DEF Fine
<1>5. /\ r \in Objects /\ r.host = s.conn[c].host /\ r.delegate = s.conn[c].delegate
      /\ r.kept = s.conn[c].kept /\ r.timers = {} /\ r.refs = s.conn[c].refs
  BY <1>4 DEF Objects
<1>6. t = [s EXCEPT !.conn[c] = r]
  BY <1>4 DEF States
<1> HIDE DEF r, t
<1>7. Lives(r, s.queue[ConnectionQueue[c]])
  BY <1>3, <1>5 DEF Lives
<1>8. Fine(t, Fresh, NoConn, 0)
  <2>1. Fine(s, Fresh, c, 0)
    BY <1>2, <1>3, FineNobody
  <2>2. r.refs - One(r.kept) - 0 = s.conn[c].refs - One(s.conn[c].kept) - 0
    BY <1>5
  <2>3. Fine(t, Fresh, c, 0)
    <3>1. /\ r.kept => s.conn[c].kept \/ (c \notin Fresh /\ Announced(s, c) = {})
          /\ s.conn[c].kept => r.kept
      BY <1>5
    <3> HIDE DEF Fresh
    <3>2. Fine([s EXCEPT !.conn[c] = r], Fresh, c, 0)
      BY <1>3, <1>5, <1>7, <2>1, <2>2, <3>1, ChangedFine
    <3>3. QED
      BY <1>6, <3>2
  <2>4. QED
    BY <1>3, <2>3, FineNobody
<1>9. thread[q].step = "none"
  BY <1>2, IdleBlock
<1>10. QED
  BY <1>1, <1>2, <1>3, <1>8, <1>9, FinishLife DEF b, s, c, t

\* The other blocks of a connection.
LEMMA ConnectionLife ==
  ASSUME NEW E, OwnQueues, QueueInv(E), LifeInv, NEW q \in ConnQueues, RunConnection(q)
  PROVE  LifeInv'
<1> DEFINE b == Head(queue[q])
           s == Taken(q)
<1>1. q \in Queues /\ UNCHANGED serverConns /\ q # DelegateQueue
  BY QueueNames DEF RunConnection, GotMessage, Invalidated, Return, RunSchedule, RunSetDelegate,
                    RunForceClose, RunSend, RunDelete
<1>2. ASSUME NEW kind \in {"schedule", "setDelegate", "forceClose", "send"}, Takes(q, kind)
      PROVE  /\ Fine(s, Fresh, NoConn, 0) /\ thread[q] = Idle /\ b \in Blocks /\ s.conn = conn
             /\ b.conn \in Conns /\ ConnectionQueue[b.conn] = q /\ b.from \notin ConnQueues
             /\ thread[q].step = "none" /\ s \in States /\ s.conn[b.conn] \in Objects
  <2>1. /\ Fine(s, Fresh, NoConn, 0) /\ thread[q] = Idle /\ b \in Blocks /\ s.conn = conn
    BY <1>1, <1>2, TakenFine
  <2>2. /\ b.conn \in Conns /\ ConnectionQueue[b.conn] = q /\ b.from \notin ConnQueues
    BY <1>2, WorkFinds
  <2> HIDE DEF s, b
  <2>3. s \in States /\ s.conn[b.conn] \in Objects
    BY <2>1, <2>2, SoundObject DEF Fine
  <2>4. QED
    BY <2>1, <2>2, <2>3, IdleBlock
<1>3. ASSUME NEW kind, Takes(q, kind)
      PROVE  s.conn[b.conn].alive
  BY <1>1, <1>3, WorkFinds, TakenLeaves DEF LifeInv, Takes
<1>4. CASE RunSchedule(q)
  <2>1. /\ Becomes(Scheduled(s, b.conn, b.what)) /\ Finishes(q, b) /\ Takes(q, "schedule")
    BY <1>4 DEF RunSchedule
  <2>2. b.what \in Timers
    <3>1. b \in Suits(q, Young(E)) /\ b.kind = "schedule"
      BY <1>1, <2>1, TakesIs
    <3>2. QED
      BY <3>1, TakenConn
  <2>3. Fine(Scheduled(s, b.conn, b.what), Fresh, NoConn, 0)
    BY <1>2, <1>3, <2>1, <2>2, ScheduledFine
  <2>4. QED
    BY <1>1, <1>2, <2>1, <2>3, FinishLife
<1>5. CASE RunSetDelegate(q)
  <2> DEFINE c == b.conn
             r == [s.conn[c] EXCEPT !.delegateQueue = TRUE, !.listened = conn[c].delegate]
             t == DelegateSet(s, c)
  <2>1. Becomes(t) /\ Finishes(q, b) /\ Takes(q, "setDelegate")
    BY <1>5 DEF RunSetDelegate
  <2>2. c \in Conns /\ s.conn[c] \in Objects /\ s \in States /\ s.conn = conn
        /\ Fine(s, Fresh, NoConn, 0)
    BY <1>2, <2>1
  <2> HIDE DEF b, s, c
  <2>3. /\ r \in Objects /\ r.host = s.conn[c].host /\ r.delegate = s.conn[c].delegate
        /\ r.kept = s.conn[c].kept /\ r.timers = s.conn[c].timers
        /\ r.refs = s.conn[c].refs /\ r.alive = s.conn[c].alive
    BY <2>2 DEF Objects
  <2>4. t = [s EXCEPT !.conn[c] = r]
    BY <2>2 DEF States, DelegateSet
  <2> HIDE DEF r, t
  <2>5. Fine(t, Fresh, NoConn, 0)
    BY <2>2, <2>3, <2>4, TouchedFine
  <2>6. QED
    BY <1>1, <1>2, <2>1, <2>5, FinishLife
<1>6. CASE RunForceClose(q)
  <2>1. Takes(q, "forceClose") /\ ScheduleForceClose(s, q, b)
    BY <1>6 DEF RunForceClose
  <2>2. QED
    BY <1>1, <1>2, <1>3, <2>1, ForceCloseSchedulesLife
<1>7. CASE RunSend(q)
  <2>1. Takes(q, "send") /\ Becomes(s) /\ Finishes(q, b)
    BY <1>7 DEF RunSend
  <2>2. QED
    BY <1>1, <1>2, <2>1, FinishLife
<1>8. CASE Return(q)
  BY <1>8 DEF Return, Resumes, LifeInv, HoldInv
<1>9. CASE Invalidated(q)
  <2>1. thread[q].block.conn \in Conns /\ ConnectionQueue[thread[q].block.conn] = q
    BY <1>9 DEF Invalidated, Resumes, QueueInv, ThreadInv
  <2>2. QED
    BY <1>9, <2>1, InvalidatedLife
<1>10. QED
  BY <1>4, <1>5, <1>6, <1>7, <1>8, <1>9, GotMessageLife, RunDeleteLife DEF RunConnection

-----------------------------------------------------------------------------
(* The socket's queue *)

\* The socket waits for the connection that it makes.
LEMMA MakingThreads ==
  ASSUME NEW E, OwnQueues, QueueInv(E), NEW b, NEW step \in Making,
         NEW other, Waits(SocketQueue, b, step, other)
  PROVE  /\ thread'[SocketQueue].block = b /\ thread'[SocketQueue].step = step
         /\ \A q \in Queues : q # SocketQueue => thread'[q] = thread[q]
         /\ \A e \in Conns : /\ Constructing(e)' <=> (e = b.conn /\ step = "constructing")
                             /\ Inside(e)' <=> e = b.conn
                             /\ Invalidating(e)' <=> Invalidating(e)
                             /\ thread'[ConnectionQueue[e]] = thread[ConnectionQueue[e]]
<1> DEFINE t == [block |-> b, step |-> step, waits |-> other]
<1>1. /\ SocketQueue \in Queues
      /\ \A e \in Conns : ConnectionQueue[e] \in Queues /\ ConnectionQueue[e] # SocketQueue
  BY QueueNames
<1>2. t.block = b /\ t.step = step
  OBVIOUS
<1> HIDE DEF t
<1>3. thread'[SocketQueue] = t /\ \A q \in Queues : q # SocketQueue => thread'[q] = thread[q]
  <2>1. thread \in [Queues -> Threads] /\ thread' = [thread EXCEPT ![SocketQueue] = t]
    BY DEF QueueInv, ThreadInv, Waits, t
  <2>2. QED
    BY <1>1, <2>1
<1>4. \A e \in Conns : /\ Constructing(e)' <=> (e = b.conn /\ step = "constructing")
                       /\ Inside(e)' <=> e = b.conn
  BY <1>2, <1>3 DEF Constructing, Inside, Making
<1>5. \A e \in Conns : /\ Invalidating(e)' <=> Invalidating(e)
                       /\ thread'[ConnectionQueue[e]] = thread[ConnectionQueue[e]]
  BY <1>1, <1>3 DEF Invalidating
<1>6. QED
  BY <1>2, <1>3, <1>4, <1>5

\* What the blocks that wait hold on to stays theirs.
LEMMA MakingHold ==
  ASSUME NEW E, OwnQueues, QueueInv(E), LifeInv, NEW b, b.from = Nobody, b.conn \in Conns,
         NEW step \in Making, NEW other, Waits(SocketQueue, b, step, other),
         Invalidating(b.conn) => thread[ConnectionQueue[b.conn]].waits # Nobody,
         conn'[b.conn].delegate,
         \A e \in Conns : conn[e].kept => conn'[e].kept,
         \A e \in Conns : e # b.conn =>
           /\ conn'[e].delegate = conn[e].delegate
           /\ Invalidating(e) => (Registered(e)' => Registered(e))
  PROVE  HoldInv'
<1>1. /\ thread'[SocketQueue].block = b /\ thread'[SocketQueue].step = step
      /\ \A q \in Queues : q # SocketQueue => thread'[q] = thread[q]
      /\ \A e \in Conns : /\ Inside(e)' <=> e = b.conn
                          /\ Invalidating(e)' <=> Invalidating(e)
                          /\ thread'[ConnectionQueue[e]] = thread[ConnectionQueue[e]]
  BY MakingThreads
<1>2. /\ DelegateQueue \in Queues /\ DelegateQueue # SocketQueue
      /\ \A q \in ConnQueues : q \in Queues /\ q # SocketQueue
  BY QueueNames DEF OwnQueues
<1>3. \A q \in Queues : /\ thread'[q].block.from = Nobody
                        /\ thread'[q].step = "none" => thread'[q] = Idle
  BY <1>1 DEF LifeInv, HoldInv, Making
<1>4. /\ thread'[SocketQueue].step \in Making \cup {"none"}
      /\ conn'[thread'[SocketQueue].block.conn].delegate
  BY <1>1
<1>5. /\ thread'[DelegateQueue].step \in {"called", "closing", "none"}
      /\ thread'[DelegateQueue].step \in {"called", "closing"} =>
           LET e == thread'[DelegateQueue].block.conn IN e \in Conns /\ conn'[e].kept
  BY <1>1, <1>2 DEF LifeInv, HoldInv
<1>6. \A q \in ConnQueues : thread'[q].step \in {"invalidating", "none"}
  BY <1>1, <1>2 DEF LifeInv, HoldInv
<1>7. ASSUME NEW e \in Conns, Invalidating(e)'
      PROVE  /\ conn'[e].delegate
             /\ thread'[ConnectionQueue[e]].waits = Nobody => ~Registered(e)' /\ ~Inside(e)'
  <2>1. Invalidating(e)
    BY <1>1, <1>7
  <2>2. /\ conn[e].delegate
        /\ thread[ConnectionQueue[e]].waits = Nobody => ~Registered(e)
    BY <2>1 DEF LifeInv, HoldInv
  <2>3. QED
    BY <1>1, <2>1, <2>2
<1>8. QED
  BY <1>3, <1>4, <1>5, <1>6, <1>7 DEF HoldInv

\* A connection that is in the map is alive.
LEMMA PassOnLife ==
  ASSUME NEW E, OwnQueues, QueueInv(E), LifeInv, PassOn
  PROVE  LifeInv'
<1> DEFINE q == SocketQueue
           b == Head(queue[q])
           c == serverConns[b.what[2]]
           s == Taken(q)
           m == Block("message", c, b.what[1], Nobody)
<1>1. /\ Takes(q, "packet") /\ c # NoConn /\ Becomes(Enqueued(s, ConnectionQueue[c], m))
      /\ Finishes(q, b) /\ UNCHANGED serverConns
  BY DEF PassOn
<1>2. /\ q \in Queues /\ q # DelegateQueue /\ Nobody \notin ConnQueues
  BY QueueNames DEF OwnQueues
<1>3. /\ Fine(s, Fresh, NoConn, 0) /\ thread[q] = Idle /\ b \in Known(q) /\ b \in Blocks
      /\ b.kind = "packet" /\ s.conn = conn
  BY <1>1, <1>2, TakenFine
<1>4. b.from = Nobody
  BY <1>3 DEF Known
<1>5. b.what[1] \in Types /\ b.what[2] \in Hosts
  BY <1>1, PacketIs
<1>6. c \in Conns /\ conn[c].delegate
  <2>1. serverConns \in [Hosts -> Conns \cup {NoConn}]
    BY DEF QueueInv, MapInv
  <2>2. QED
    BY <1>1, <1>5, <2>1 DEF LifeInv, ServedInv
<1>7. m \in Known(ConnectionQueue[c]) /\ m.kind = "message" /\ m.conn = c
  <2>1. /\ m \in Blocks /\ m.kind = "message" /\ m.conn = c /\ m.from = Nobody
    BY <1>5, <1>6 DEF Block, Blocks, Kinds, Words
  <2> HIDE DEF m, c
  <2>2. /\ ConnectionQueue[c] \in ConnQueues /\ ConnectionQueue[c] # SocketQueue
        /\ ConnectionQueue[c] # DelegateQueue
    BY <1>6, QueueNames
  <2>3. QED
    BY <1>2, <1>6, <2>1, <2>2 DEF Known, Work
<1> HIDE DEF m, c, b, s, q
<1>8. ConnectionQueue[c] \in ConnQueues /\ ConnectionQueue[c] \in Queues
      /\ ConnectionQueue[c] # SocketQueue /\ ConnectionQueue[c] # DelegateQueue
  BY <1>6, QueueNames
<1>9. s.conn[c].alive /\ Undeleted(s.queue[ConnectionQueue[c]])
  BY <1>3, <1>6, ReferredLives DEF Fine
<1>10. Fine(Enqueued(s, ConnectionQueue[c], m), Fresh, NoConn, 0)
  BY <1>3, <1>7, <1>8, <1>9, EnqueuedFine
<1>11. thread[q].step = "none"
  BY <1>3, IdleBlock
<1>12. QED
  BY <1>1, <1>2, <1>3, <1>4, <1>10, <1>11, FinishLife

\* A packet that belongs to no connection.
LEMMA StrayLife ==
  ASSUME NEW E, OwnQueues, QueueInv(E), LifeInv, Stray
  PROVE  LifeInv'
<1> DEFINE b == Head(queue[SocketQueue])
           s == Taken(SocketQueue)
<1>1. /\ Takes(SocketQueue, "packet") /\ Becomes(s) /\ Finishes(SocketQueue, b)
      /\ UNCHANGED serverConns
  BY DEF Stray
<1>2. SocketQueue \in Queues /\ SocketQueue # DelegateQueue /\ Nobody \notin ConnQueues
  BY QueueNames DEF OwnQueues
<1>3. /\ Fine(s, Fresh, NoConn, 0) /\ thread[SocketQueue] = Idle /\ b \in Known(SocketQueue)
      /\ b \in Blocks /\ b.kind = "packet"
  BY <1>1, <1>2, TakenFine
<1>4. b.from = Nobody
  BY <1>3 DEF Known
<1> HIDE DEF b, s
<1>5. thread[SocketQueue].step = "none"
  BY <1>3, IdleBlock
<1>6. QED
  BY <1>1, <1>2, <1>3, <1>4, <1>5, FinishLife

\* A block that waited at its end.
LEMMA ReturnLife ==
  ASSUME NEW E, OwnQueues, QueueInv(E), LifeInv, NEW q \in Queues, Return(q)
  PROVE  LifeInv'
<1> DEFINE b == thread[q].block
<1>1. /\ thread[q].step \in {"opened", "called", "closing"} /\ Finishes(q, b)
      /\ UNCHANGED <<conn, serverConns, queue>>
  BY DEF Return, Resumes
<1>2. b \in Blocks /\ b.from = Nobody /\ Nobody \notin ConnQueues
  BY QueueNames DEF QueueInv, ThreadInv, Threads, LifeInv, HoldInv
<1> HIDE DEF b
<1>3. Fine(Now, Fresh, NoConn, 0)
  BY DEF LifeInv, Fine, Alike
<1>4. Becomes(Now)
  BY <1>1 DEF Becomes, Now
<1>5. QED
  BY <1>1, <1>2, <1>3, <1>4, FinishLife

\* A connection of host h, and the block that its constructor dispatches.
Accepted(h) == [Unmade EXCEPT !.host = h, !.alive = TRUE, !.delegate = TRUE, !.refs = 1]
Made(s, c, h) ==
  Enqueued([s EXCEPT !.conn[c] = Accepted(h)], ConnectionQueue[c],
           Schedule(c, "connection", SocketQueue))

\* The new object.
LEMMA AcceptedIs ==
  ASSUME NEW h \in Hosts
  PROVE  LET r == Accepted(h) IN
         /\ r \in Objects /\ r.host = h /\ r.alive = TRUE /\ r.refs = 1 /\ r.timers = {}
         /\ r.delegate = TRUE /\ r.kept = FALSE
         /\ One(r.delegate) = 1 /\ One(r.kept) = 0
<1>1. /\ Unmade.logical = "none" /\ Unmade.delegateQueue = FALSE /\ Unmade.timers = {}
      /\ Unmade.kept = FALSE /\ Unmade.listened = FALSE /\ Unmade.told = FALSE
      /\ Unmade \in Objects
  <2>1. {} \in SUBSET Timers /\ 0 \in Int /\ Nobody \in Hosts \cup {Nobody}
    OBVIOUS
  <2>2. QED
    BY <2>1 DEF Unmade, Objects
<1>2. 1 \in Int /\ h \in Hosts \cup {Nobody}
  OBVIOUS
<1>3. /\ Accepted(h) \in Objects /\ Accepted(h).host = h /\ Accepted(h).alive = TRUE
      /\ Accepted(h).refs = 1 /\ Accepted(h).delegate = TRUE
      /\ Accepted(h).timers = Unmade.timers /\ Accepted(h).kept = Unmade.kept
  BY <1>1, <1>2 DEF Accepted, Objects
<1>4. QED
  BY <1>1, <1>3 DEF One

\* A connection that is not made yet has no blocks; it gets its delegate's reference.
LEMMA MadeSound ==
  ASSUME OwnQueues, NEW F, NEW s, Sound(s, F), Counted(s, NoConn, 0), NEW c \in Conns,
         s.conn[c] = Unmade, NEW h \in Hosts
  PROVE  LET n == Made(s, c, h) IN
         /\ Sound(n, F) /\ Counted(n, NoConn, 0)
         /\ n.conn[c].host = h /\ n.conn[c].delegate
         /\ \A e \in Conns : e # c => n.conn[e] = s.conn[e]
         /\ n.queue[SocketQueue] = s.queue[SocketQueue]
<1> DEFINE r == Accepted(h)
           t == [s EXCEPT !.conn[c] = r]
           q == ConnectionQueue[c]
           b == Schedule(c, "connection", SocketQueue)
           n == Enqueued(t, q, b)
<1>1. /\ s \in States /\ s.queue[q] \in Seq(Blocks) /\ Lives(s.conn[c], s.queue[q])
      /\ q \in ConnQueues /\ q \in Queues /\ q # SocketQueue /\ q # DelegateQueue
      /\ SocketQueue \in Queues /\ SocketQueue \notin ConnQueues
  BY SoundObject, QueueNames
<1>2. /\ Unmade.alive = FALSE /\ Unmade.refs = 0 /\ Unmade.delegate = FALSE /\ Unmade.kept = FALSE
  BY DEF Unmade
<1>3. s.queue[q] = <<>>
  BY <1>1, <1>2 DEF Lives
<1>4. /\ r \in Objects /\ r.host = h /\ r.alive = TRUE /\ r.delegate = TRUE /\ r.refs = 1
      /\ r.kept = FALSE /\ r.timers = {} /\ One(r.delegate) = 1 /\ One(r.kept) = 0
  BY AcceptedIs
<1>5. /\ b \in Blocks /\ b.kind = "schedule" /\ b.conn = c /\ b.from = SocketQueue
  BY <1>1 DEF Schedule, Block, Blocks, Kinds, Words
<1> HIDE DEF r, b
<1>6. Undeleted(s.queue[q]) /\ Lives(r, s.queue[q])
  BY <1>3, <1>4 DEF Undeleted, Lives
<1>7. Sound(t, F)
  BY <1>4, <1>6, ChangedSound
<1>8. Counted(t, NoConn, 0)
  <2>1. One(s.conn[c].delegate) = 0 /\ One(s.conn[c].kept) = 0
    BY <1>2 DEF One
  <2>2. r.refs - One(r.delegate) - One(r.kept) - 0
          = s.conn[c].refs - One(s.conn[c].delegate) - One(s.conn[c].kept) - 0
    BY <1>2, <1>4, <2>1
  <2>3. Counted(s, c, 0)
    BY CountedNobody
  <2>4. Counted(t, c, 0)
    <3>1. s \in States /\ r \in Objects /\ 0 \in Int
      BY <1>1, <1>4
    <3>2. QED
      BY <2>2, <2>3, <3>1, ChangedCounted
  <2>5. QED
    BY <2>4, CountedNobody
<1>9. /\ t \in States /\ t.queue = s.queue /\ t.conn[c] = r
      /\ \A e \in Conns : e # c => t.conn[e] = s.conn[e]
  BY <1>1, <1>4, ChangedIs
<1> HIDE DEF t
<1>10. b \in Known(q)
  BY <1>1, <1>5 DEF Known, Work
<1>11. t.conn[c].alive /\ Undeleted(t.queue[q])
  BY <1>4, <1>6, <1>9
<1>12. Sound(n, F) /\ Counted(n, NoConn, 0)
  BY <1>1, <1>5, <1>7, <1>8, <1>10, <1>11, EnqueuedSound, EnqueuedCounted
<1>13. n.conn = t.conn /\ n.queue[SocketQueue] = t.queue[SocketQueue]
  BY <1>1, <1>5, <1>9, EnqueuedIs
<1> HIDE DEF n
<1>14. QED
  BY <1>4, <1>9, <1>12, <1>13 DEF Made, n, t, r, b

\* The constructor runs: the connection is not in the map yet.
LEMMA AcceptLife ==
  ASSUME NEW E, OwnQueues, QueueInv(E), LifeInv, Accept
  PROVE  LifeInv'
<1> DEFINE o == Head(queue[SocketQueue])
           h == o.what[2]
           s == Taken(SocketQueue)
<1>1. PICK c \in Conns :
        /\ conn[c] = Unmade /\ Becomes(Made(s, c, h))
        /\ Waits(SocketQueue, [o EXCEPT !.conn = c], "constructing", ConnectionQueue[c])
  <2>1. PICK c \in Conns :
          /\ conn[c] = Unmade
          /\ Schedules([s EXCEPT !.conn[c] = Accepted(h)], SocketQueue, [o EXCEPT !.conn = c],
                       "constructing", c, "connection")
    BY DEF Accept, Accepted
  <2> HIDE DEF o, h, s
  <2>2. QED
    BY <2>1, SchedulesIs, QueueNames DEF Made
<1> DEFINE b == [o EXCEPT !.conn = c]
           n == Made(s, c, h)
<1>2. /\ Takes(SocketQueue, "packet") /\ serverConns[h] = NoConn /\ UNCHANGED serverConns
  BY DEF Accept
<1>3. /\ SocketQueue \in Queues /\ SocketQueue # DelegateQueue
      /\ \A e \in Conns : ConnectionQueue[e] # SocketQueue
  BY QueueNames DEF OwnQueues
<1>4. /\ Fine(s, Fresh, NoConn, 0) /\ thread[SocketQueue] = Idle /\ o \in Known(SocketQueue)
      /\ o \in Blocks /\ o.kind = "packet" /\ s.conn = conn
  BY <1>2, <1>3, TakenFine
<1>5. h \in Hosts
  BY <1>2, PacketIs
<1>6. b.from = Nobody /\ b.conn = c
  <2>1. o.from = Nobody
    BY <1>4 DEF Known
  <2>2. QED
    BY <1>4, <2>1 DEF Blocks
<1> HIDE DEF b, h
<1>7. s.conn[c] = Unmade
  BY <1>1, <1>4
<1>8. /\ Sound(n, Fresh) /\ Counted(n, NoConn, 0)
      /\ n.conn[c].host = h /\ n.conn[c].delegate
      /\ \A e \in Conns : e # c => n.conn[e] = s.conn[e]
      /\ n.queue[SocketQueue] = s.queue[SocketQueue]
  <2> HIDE DEF s
  <2>1. Sound(s, Fresh) /\ Counted(s, NoConn, 0)
    BY <1>4 DEF Fine
  <2>2. QED
    BY <1>5, <1>7, <2>1, MadeSound
<1>9. Alike(Now, s) /\ Now.conn = conn
  BY <1>4 DEF Fine, Now
<1>10. Becomes(n) /\ Waits(SocketQueue, b, "constructing", ConnectionQueue[c])
  BY <1>1 DEF b
<1> HIDE DEF n, s, o
<1>11. Now' = n /\ conn' = n.conn
  BY <1>8, <1>10, BecomesNow DEF Sound
<1>12. /\ conn'[c].host = h /\ conn'[c].delegate
       /\ conn[c].host = Nobody /\ conn[c].delegate = FALSE /\ conn[c].kept = FALSE
       /\ \A e \in Conns : e # c => conn'[e] = conn[e]
       /\ \A e \in Conns : Leaving(Now', e) # {} => Leaving(Now, e) # {}
  <2>1. conn[c].host = Nobody /\ conn[c].delegate = FALSE /\ conn[c].kept = FALSE
    BY <1>1 DEF Unmade
  <2>2. \A e \in Conns : Leaving(Now', e) = Leaving(s, e)
    BY <1>8, <1>11 DEF Leaving
  <2>3. \A e \in Conns : Leaving(s, e) # {} => Leaving(Now, e) # {}
    BY <1>9 DEF Alike
  <2>4. QED
    BY <1>4, <1>8, <1>11, <2>1, <2>2, <2>3
<1>13. ~Invalidating(c)
  BY <1>12 DEF LifeInv, HoldInv
<1>14. \A e \in Conns : ~Constructing(e)
  BY <1>4, IdleBlock DEF Constructing
<1>15. \A e \in Conns : /\ Constructing(e)' <=> e = c
                        /\ Invalidating(e)' <=> Invalidating(e)
                        /\ thread'[ConnectionQueue[e]] = thread[ConnectionQueue[e]]
  <2>1. "constructing" \in Making
    BY DEF Making
  <2>2. QED
    BY <1>6, <1>10, <2>1, MakingThreads
<1>16. \A e \in Conns : e # c => (Registered(e)' <=> Registered(e))
  BY <1>2, <1>12 DEF Registered
<1>17. HoldInv'
  <2>1. "constructing" \in Making
    BY DEF Making
  <2>2. conn'[b.conn].delegate /\ b.conn \in Conns /\ ~Invalidating(b.conn)
    BY <1>6, <1>12, <1>13
  <2>3. \A e \in Conns : conn[e].kept => conn'[e].kept
    BY <1>12
  <2>4. \A e \in Conns : e # b.conn =>
          /\ conn'[e].delegate = conn[e].delegate
          /\ Invalidating(e) => (Registered(e)' => Registered(e))
    BY <1>6, <1>12, <1>16
  <2>5. QED
    BY <1>6, <1>10, <2>1, <2>2, <2>3, <2>4, MakingHold
<1>18. Sound(Now', Fresh') /\ Counted(Now', NoConn, 0)
  <2>1. Fresh' \subseteq Fresh
    BY <1>12, <1>15 DEF Fresh
  <2>2. QED
    BY <1>8, <1>11, <2>1, SoundFewer
<1>19. ServedInv'
  <2>1. serverConns \in [Hosts -> Conns \cup {NoConn}]
    BY DEF QueueInv, MapInv
  <2>2. ASSUME NEW i \in Hosts, serverConns'[i] # NoConn
        PROVE  conn'[serverConns'[i]].delegate /\ conn'[serverConns'[i]].host = i
    <3>1. serverConns[i] \in Conns /\ conn[serverConns[i]].delegate /\ conn[serverConns[i]].host = i
      BY <1>2, <2>1, <2>2 DEF LifeInv, ServedInv
    <3>2. QED
      BY <1>2, <1>12, <3>1
  <2>3. \A e \in Conns : Constructing(e)' => serverConns'[conn'[e].host] = NoConn
    BY <1>2, <1>12, <1>15
  <2>4. \A e \in Conns : conn'[e].delegate => Registered(e)' \/ Constructing(e)' \/ Invalidating(e)'
    BY <1>12, <1>14, <1>15, <1>16 DEF LifeInv, ServedInv
  <2>5. ASSUME NEW e \in Conns, Leaving(Now', e) # {}
        PROVE  /\ Invalidating(e)' /\ Registered(e)'
               /\ thread'[ConnectionQueue[e]].waits = SocketQueue
    <3>1. /\ Invalidating(e) /\ Registered(e)
          /\ thread[ConnectionQueue[e]].waits = SocketQueue
      BY <1>12, <2>5 DEF LifeInv, ServedInv
    <3>2. e # c
      BY <1>13, <3>1
    <3>3. QED
      BY <1>15, <1>16, <3>1, <3>2
  <2>6. QED
    BY <2>2, <2>3, <2>4, <2>5 DEF ServedInv
<1>20. QED
  BY <1>17, <1>18, <1>19 DEF LifeInv

\* The block that the socket's queue runs while it makes a connection.
LEMMA MakingIs ==
  ASSUME NEW E, OwnQueues, QueueInv(E), LifeInv, thread[SocketQueue].step \in Making
  PROVE  LET b == thread[SocketQueue].block IN
         /\ b \in Blocks /\ b.from = Nobody /\ b.conn \in Conns
         /\ conn[b.conn].delegate /\ conn[b.conn].host \in Hosts
         /\ Invalidating(b.conn) => /\ thread[ConnectionQueue[b.conn]].waits # Nobody
                                    /\ ~Constructing(b.conn)
         /\ \A e \in Conns : Constructing(e) => e = b.conn
<1> DEFINE b == thread[SocketQueue].block
<1>1. b \in Blocks /\ b.from = Nobody /\ b.conn \in Conns /\ conn[b.conn].host # Nobody
  BY QueueNames DEF QueueInv, ThreadInv, Threads, LifeInv, HoldInv
<1>2. conn[b.conn].delegate
  BY DEF LifeInv, HoldInv
<1>3. Inside(b.conn) /\ \A e \in Conns : Constructing(e) => e = b.conn
  BY DEF Inside, Constructing, Making
<1>4. Invalidating(b.conn) => /\ thread[ConnectionQueue[b.conn]].waits # Nobody
                              /\ ~Constructing(b.conn)
  <2>1. Invalidating(b.conn) => thread[ConnectionQueue[b.conn]].waits # Nobody
    BY <1>1, <1>3 DEF LifeInv, HoldInv
  <2>2. Constructing(b.conn) => thread[ConnectionQueue[b.conn]].waits = Nobody
    BY <1>1 DEF QueueInv, ThreadInv, Young
  <2>3. QED
    BY <2>1, <2>2
<1>5. conn[b.conn] \in Objects
  BY <1>1 DEF LifeInv, Sound, Now, States
<1>6. QED
  BY <1>1, <1>2, <1>3, <1>4, <1>5 DEF Objects

\* opened() on the queue of the socket.
LEMMA OpenedLife ==
  ASSUME NEW E, OwnQueues, QueueInv(E), LifeInv, Opened
  PROVE  LifeInv'
<1> DEFINE b == thread[SocketQueue].block
           c == b.conn
           s == [Now EXCEPT !.conn[c].logical = "open"]
           m == Schedule(c, "connection", SocketQueue)
           n == Enqueued(s, ConnectionQueue[c], m)
<1>0. /\ thread[SocketQueue].step = "opening" /\ UNCHANGED serverConns
      /\ Schedules(s, SocketQueue, b, "opened", c, "connection")
  BY DEF Opened, Resumes
<1>2. /\ b \in Blocks /\ b.from = Nobody /\ c \in Conns /\ conn[c].delegate
      /\ Invalidating(c) => thread[ConnectionQueue[c]].waits # Nobody
  BY <1>0, MakingIs DEF Making
<1>1. /\ thread[SocketQueue].step = "opening" /\ UNCHANGED serverConns
      /\ Becomes(n) /\ Waits(SocketQueue, b, "opened", ConnectionQueue[c])
  <2> HIDE DEF b, c, s
  <2>1. QED
    BY <1>0, <1>2, SchedulesIs, QueueNames
<1> HIDE DEF b, c
<1>3. /\ ConnectionQueue[c] \in ConnQueues /\ ConnectionQueue[c] \in Queues
      /\ ConnectionQueue[c] # SocketQueue /\ ConnectionQueue[c] # DelegateQueue
      /\ SocketQueue \in Queues /\ SocketQueue \notin ConnQueues
  BY <1>2, QueueNames
<1>4. Fine(s, Fresh, NoConn, 0)
  <2>1. Fine(Now, Fresh, NoConn, 0)
    BY DEF LifeInv, Fine, Alike
  <2>2. QED
    BY <1>2, <2>1, LogicalFine
<1> HIDE DEF s
<1>5. s.conn[c].alive /\ Undeleted(s.queue[ConnectionQueue[c]])
  <2>1. Sound(s, Fresh) /\ Counted(s, NoConn, 0) /\ s.conn[c].delegate = Now.conn[c].delegate
    BY <1>2, <1>4 DEF Fine, Alike
  <2>2. s.conn[c].delegate
    BY <1>2, <2>1 DEF Now
  <2>3. QED
    BY <1>2, <2>1, <2>2, ReferredLives
<1>6. m \in Known(ConnectionQueue[c]) /\ m.kind = "schedule" /\ m.conn = c
  <2>1. m \in Blocks /\ m.kind = "schedule" /\ m.conn = c /\ m.from = SocketQueue
    BY <1>2, <1>3 DEF Schedule, Block, Blocks, Kinds, Words
  <2> HIDE DEF m
  <2>2. QED
    BY <1>2, <1>3, <2>1 DEF Known, Work
<1> HIDE DEF m
<1>7. Fine(n, Fresh, NoConn, 0)
  BY <1>3, <1>4, <1>5, <1>6, EnqueuedFine
<1> HIDE DEF n
<1>8. \A e \in Conns : /\ ~Constructing(e)' /\ ~Constructing(e)
                       /\ Invalidating(e)' <=> Invalidating(e)
                       /\ thread'[ConnectionQueue[e]] = thread[ConnectionQueue[e]]
  <2>1. "opened" \in Making
    BY DEF Making
  <2>2. QED
    BY <1>1, <2>1, MakingThreads, ZenonT(60) DEF Constructing
<1>9. /\ Sound(Now, Fresh)' /\ Counted(Now, NoConn, 0)'
      /\ \A e \in Conns : /\ conn'[e].host = conn[e].host /\ conn'[e].delegate = conn[e].delegate
                          /\ conn[e].kept => conn'[e].kept
                          /\ Leaving(Now, e)' # {} => Leaving(Now, e) # {}
  BY <1>1, <1>7, <1>8, FineStays
<1>10. ServedInv'
  BY <1>1, <1>8, <1>9, ServedStays DEF LifeInv
<1>11. HoldInv'
  <2>1. "opened" \in Making
    BY DEF Making
  <2>2. /\ conn'[b.conn].delegate /\ b.conn \in Conns
        /\ Invalidating(b.conn) => thread[ConnectionQueue[b.conn]].waits # Nobody
    BY <1>2, <1>9 DEF c
  <2>3. \A e \in Conns : e # b.conn =>
          /\ conn'[e].delegate = conn[e].delegate
          /\ Invalidating(e) => (Registered(e)' => Registered(e))
    BY <1>1, <1>9 DEF Registered
  <2>4. QED
    BY <1>1, <1>2, <1>9, <2>1, <2>2, <2>3, MakingHold
<1>12. QED
  BY <1>9, <1>10, <1>11 DEF LifeInv

\* The connection enters the map, and the application is going to be told of it for the only time.
LEMMA MakeServerConnectionLife ==
  ASSUME NEW E, OwnQueues, QueueInv(E), LifeInv, MakeServerConnection,
         NEW c \in Conns, thread[SocketQueue].block.conn = c
  PROVE  LifeInv'
<1> DEFINE b == thread[SocketQueue].block
           h == conn[c].host
           F == Fresh \ {c}
           g == Block("gotConnection", c, "nothing", Nobody)
           s == Enqueued(Now, DelegateQueue, g)
           m == Schedule(c, "tick", SocketQueue)
           n == Enqueued(s, ConnectionQueue[c], m)
<1>1. /\ thread[SocketQueue].step = "constructing" /\ serverConns' = [serverConns EXCEPT ![h] = c]
      /\ Becomes(n) /\ Waits(SocketQueue, b, "opening", ConnectionQueue[c])
  <2>1. /\ thread[SocketQueue].step = "constructing"
        /\ serverConns' = [serverConns EXCEPT ![h] = c]
        /\ Schedules(s, SocketQueue, b, "opening", c, "tick")
    BY DEF MakeServerConnection, Resumes
  <2> HIDE DEF b, h, s
  <2>2. QED
    BY <2>1, SchedulesIs, QueueNames
<1>2. /\ b \in Blocks /\ b.from = Nobody /\ b.conn = c /\ conn[c].delegate /\ h \in Hosts
      /\ ~Invalidating(c) /\ Constructing(c)
      /\ \A e \in Conns : Constructing(e) => e = c
  <2>1. thread[SocketQueue].step \in Making
    BY <1>1 DEF Making
  <2>2. QED
    BY <1>1, <2>1, MakingIs DEF Constructing
<1> HIDE DEF b, h
<1>3. /\ ConnectionQueue[c] \in ConnQueues /\ ConnectionQueue[c] \in Queues
      /\ ConnectionQueue[c] # SocketQueue /\ ConnectionQueue[c] # DelegateQueue
      /\ SocketQueue \in Queues /\ SocketQueue \notin ConnQueues
      /\ DelegateQueue \in Queues /\ DelegateQueue \notin ConnQueues /\ DelegateQueue # SocketQueue
  BY <1>2, QueueNames DEF OwnQueues
<1>4. /\ serverConns \in [Hosts -> Conns \cup {NoConn}] /\ NoConn \notin Conns
      /\ serverConns[h] = NoConn
  BY <1>2, QueueNames DEF h, QueueInv, MapInv, LifeInv, ServedInv
<1>5. Now.conn = conn /\ c \in Fresh
  BY <1>2 DEF Now, Fresh
<1>6. Fine(Now, F, NoConn, 0) /\ Announced(Now, c) = {} /\ ~Now.conn[c].kept /\ c \notin F
  <2>1. Sound(Now, F)
    BY SoundFewer DEF LifeInv
  <2>2. Announced(Now, c) = {} /\ ~Now.conn[c].kept
    BY <1>2, <1>5 DEF LifeInv, Sound, Once
  <2>3. QED
    BY <2>1, <2>2 DEF LifeInv, Fine, Alike
<1>7. g \in Known(DelegateQueue) /\ g.kind = "gotConnection" /\ g.conn = c
  <2>1. g \in Blocks /\ g.kind = "gotConnection" /\ g.conn = c /\ g.from = Nobody
    BY <1>2 DEF Block, Blocks, Kinds, Words
  <2> HIDE DEF g
  <2>2. QED
    BY <1>2, <1>3, <2>1 DEF Known
<1> HIDE DEF g, F
<1>8. Fine(s, F, NoConn, 0)
  BY <1>3, <1>6, <1>7, EnqueuedFine
<1>9. s.conn[c].alive /\ Undeleted(s.queue[ConnectionQueue[c]])
  <2>1. Sound(s, F) /\ Counted(s, NoConn, 0)
    BY <1>8 DEF Fine
  <2>2. s.conn[c].delegate
    BY <1>2, <1>5 DEF Enqueued, s
  <2>3. QED
    BY <1>2, <2>1, <2>2, ReferredLives
<1> HIDE DEF s
<1>10. m \in Known(ConnectionQueue[c]) /\ m.kind = "schedule" /\ m.conn = c
  <2>1. m \in Blocks /\ m.kind = "schedule" /\ m.conn = c /\ m.from = SocketQueue
    BY <1>2, <1>3 DEF Schedule, Block, Blocks, Kinds, Words
  <2> HIDE DEF m
  <2>2. QED
    BY <1>2, <1>3, <2>1 DEF Known, Work
<1> HIDE DEF m
<1>11. Fine(n, F, NoConn, 0)
  BY <1>3, <1>8, <1>9, <1>10, EnqueuedFine
<1> HIDE DEF n
<1>12. Now' = n /\ conn' = n.conn
  BY <1>1, <1>11, BecomesNow DEF Fine, Sound
<1>13. \A e \in Conns : /\ conn'[e].host = conn[e].host /\ conn'[e].delegate = conn[e].delegate
                        /\ conn[e].kept => conn'[e].kept
                        /\ Leaving(Now', e) # {} => Leaving(Now, e) # {}
  BY <1>5, <1>11, <1>12 DEF Fine, Alike
<1>14. \A e \in Conns : /\ ~Constructing(e)'
                        /\ Invalidating(e)' <=> Invalidating(e)
                        /\ thread'[ConnectionQueue[e]] = thread[ConnectionQueue[e]]
  <2>1. "opening" \in Making
    BY DEF Making
  <2>2. QED
    BY <1>1, <2>1, MakingThreads
<1>15. conn'[c].host = h /\ conn'[c].delegate
  BY <1>2, <1>13 DEF h
<1>16. serverConns'[h] = c /\ \A i \in Hosts : i # h => serverConns'[i] = serverConns[i]
  BY <1>1, <1>2, <1>4
<1>17. ASSUME NEW e \in Conns, conn[e].delegate, e # c
       PROVE  Registered(e)' <=> Registered(e)
  <2>1. conn[e].host \in Hosts
    <3>1. conn[e] \in Objects /\ conn[e].host # Nobody
      BY <1>17 DEF QueueInv, Good, Now, HostsNow, States
    <3>2. QED
      BY <3>1 DEF Objects
  <2>2. CASE conn[e].host = h
    BY <1>4, <1>13, <1>16, <1>17, <2>2 DEF Registered
  <2>3. CASE conn[e].host # h
    BY <1>13, <1>16, <2>1, <2>3 DEF Registered
  <2>4. QED
    BY <2>2, <2>3
<1>18. HoldInv'
  <2>1. "opening" \in Making
    BY DEF Making
  <2>2. conn'[b.conn].delegate /\ b.conn \in Conns /\ ~Invalidating(b.conn)
    BY <1>2, <1>15
  <2>3. \A e \in Conns : e # b.conn =>
          /\ conn'[e].delegate = conn[e].delegate
          /\ Invalidating(e) => (Registered(e)' => Registered(e))
    BY <1>2, <1>13, <1>17 DEF LifeInv, HoldInv
  <2>4. QED
    BY <1>1, <1>2, <1>13, <2>1, <2>2, <2>3, MakingHold
<1>19. Sound(Now', Fresh') /\ Counted(Now', NoConn, 0)
  <2>1. Fresh' \subseteq F
    <3>1. Nobody \notin Hosts
      BY QueueNames
    <3>2. QED
      BY <1>2, <1>13, <1>14, <1>15, <3>1 DEF Fresh, F
  <2>2. QED
    BY <1>11, <1>12, <2>1, SoundFewer DEF Fine
<1>20. ServedInv'
  <2>1. ASSUME NEW i \in Hosts, serverConns'[i] # NoConn
        PROVE  conn'[serverConns'[i]].delegate /\ conn'[serverConns'[i]].host = i
    <3>1. CASE i = h
      BY <1>15, <1>16, <3>1
    <3>2. CASE i # h
      <4>1. serverConns'[i] = serverConns[i]
        BY <1>16, <3>2
      <4>2. serverConns[i] \in Conns /\ conn[serverConns[i]].delegate
            /\ conn[serverConns[i]].host = i
        BY <1>4, <2>1, <4>1 DEF LifeInv, ServedInv
      <4>3. QED
        BY <1>13, <4>1, <4>2
    <3>3. QED
      BY <3>1, <3>2
  <2>2. Registered(c)'
    BY <1>15, <1>16 DEF Registered
  <2>3. ASSUME NEW e \in Conns, conn'[e].delegate
        PROVE  Registered(e)' \/ Constructing(e)' \/ Invalidating(e)'
    <3>1. CASE e = c
      BY <2>2, <3>1
    <3>2. CASE e # c
      <4>1. conn[e].delegate
        BY <1>13, <2>3
      <4>2. Registered(e) \/ Invalidating(e)
        BY <1>2, <3>2, <4>1 DEF LifeInv, ServedInv
      <4>3. QED
        BY <1>14, <1>17, <3>2, <4>1, <4>2
    <3>3. QED
      BY <3>1, <3>2
  <2>4. ASSUME NEW e \in Conns, Leaving(Now', e) # {}
        PROVE  /\ Invalidating(e)' /\ Registered(e)'
               /\ thread'[ConnectionQueue[e]].waits = SocketQueue
    <3>1. /\ Invalidating(e) /\ Registered(e)
          /\ thread[ConnectionQueue[e]].waits = SocketQueue
      BY <1>13, <2>4 DEF LifeInv, ServedInv
    <3>2. e # c /\ conn[e].delegate
      BY <1>2, <3>1 DEF LifeInv, HoldInv
    <3>3. QED
      BY <1>14, <1>17, <3>1, <3>2
  <2>5. QED
    BY <1>14, <2>1, <2>3, <2>4 DEF ServedInv
<1>21. QED
  BY <1>18, <1>19, <1>20 DEF LifeInv

\* The only block of its kind is not pending any more when it is taken.
LEMMA OnlyTaken ==
  ASSUME NEW F, Sound(Now, F), NEW q \in Queues, queue[q] # <<>>, NEW kind, NEW c
  PROVE  Head(queue[q]).kind = kind /\ Head(queue[q]).conn = c =>
         /\ Pending(queue[q], kind, c) # {}
         /\ (\A i, j \in Pending(queue[q], kind, c) : i = j) => Pending(Taken(q).queue[q], kind, c) = {}
<1> DEFINE P == Pending(queue[q], kind, c)
           T == Pending(Taken(q).queue[q], kind, c)
           b == Head(queue[q])
<1>1. queue[q] \in Seq(Blocks) /\ Taken(q).queue[q] = Tail(queue[q])
  BY TakenLeaves
<1>2. /\ Cardinality(P) = Cardinality(T) + One(b.kind = kind /\ b.conn = c)
      /\ T # {} => P # {}
      /\ (\A i, j \in P : i = j) =>
           /\ \A i, j \in T : i = j
           /\ b.kind = kind /\ b.conn = c => T = {}
      /\ b.kind = kind /\ b.conn = c => P # {}
  BY <1>1, PendingTail
<1> HIDE DEF P, T
<1>3. b.kind = kind /\ b.conn = c => P # {} /\ ((\A i, j \in P : i = j) => T = {})
  BY <1>2
<1>4. QED
  BY <1>3 DEF P, T

\* The same of the blocks that take an address out of the map.
LEMMA LeavingTaken ==
  ASSUME OwnQueues, NEW F, Sound(Now, F), queue[SocketQueue] # <<>>, NEW c
  PROVE  Head(queue[SocketQueue]).kind = "deregister" /\ Head(queue[SocketQueue]).conn = c =>
         /\ Leaving(Now, c) # {}
         /\ (\A i, j \in Leaving(Now, c) : i = j) => Leaving(Taken(SocketQueue), c) = {}
<1>1. SocketQueue \in Queues /\ Now.queue = queue
  BY QueueNames DEF Now
<1>2. Head(queue[SocketQueue]).kind = "deregister" /\ Head(queue[SocketQueue]).conn = c =>
      /\ Pending(queue[SocketQueue], "deregister", c) # {}
      /\ (\A i, j \in Pending(queue[SocketQueue], "deregister", c) : i = j) =>
            Pending(Taken(SocketQueue).queue[SocketQueue], "deregister", c) = {}
  BY <1>1, OnlyTaken
<1>3. QED
  BY <1>1, <1>2 DEF Leaving

\* The address of a connection leaves the map, and the connection goes on.
LEMMA DeregisterLife ==
  ASSUME NEW E, OwnQueues, QueueInv(E), LifeInv, Deregister,
         NEW c \in Conns, Head(queue[SocketQueue]).conn = c
  PROVE  LifeInv'
<1> DEFINE b == Head(queue[SocketQueue])
           q == ConnectionQueue[c]
           h == conn[c].host
           s == Taken(SocketQueue)
<1>1. /\ Takes(SocketQueue, "deregister") /\ serverConns' = [serverConns EXCEPT ![h] = NoConn]
      /\ Becomes(s) /\ Finishes(SocketQueue, b)
  BY DEF Deregister
<1>2. SocketQueue \in Queues /\ SocketQueue # DelegateQueue
  BY QueueNames DEF OwnQueues
<1>3. /\ Fine(s, Fresh, NoConn, 0) /\ thread[SocketQueue] = Idle /\ b \in Known(SocketQueue)
      /\ b \in Blocks /\ b.kind = "deregister" /\ s.conn = conn /\ queue[SocketQueue] # <<>>
  BY <1>1, <1>2, TakenFine DEF Takes
<1>4. b.conn = c /\ b.from = q
  BY <1>3 DEF Known
<1>5. /\ Invalidating(c) /\ Registered(c) /\ Leaving(s, c) = {}
      /\ Sound(Now, Fresh) /\ Now.conn = conn
  <2>1. Sound(Now, Fresh) /\ Now.conn = conn /\ Now.queue = queue
    BY DEF LifeInv, Now
  <2>2. \A i, j \in Leaving(Now, c) : i = j
    BY <1>4, <2>1 DEF Sound, Once
  <2>3. Leaving(Now, c) # {} /\ ((\A i, j \in Leaving(Now, c) : i = j) => Leaving(s, c) = {})
    BY <1>3, <1>4, <2>1, LeavingTaken
  <2>4. Leaving(Now, c) # {} /\ Leaving(s, c) = {}
    BY <2>2, <2>3
  <2>5. QED
    BY <1>4, <2>1, <2>4 DEF LifeInv, ServedInv
<1> HIDE DEF b, s, h
<1>6. /\ q \in Queues /\ q # SocketQueue /\ q # DelegateQueue /\ DelegateQueue \in Queues
      /\ Nobody \notin Queues
      /\ \A e \in Conns : ConnectionQueue[e] \in ConnQueues /\ ConnectionQueue[e] \in Queues
                          /\ ConnectionQueue[e] # SocketQueue
      /\ \A e \in Conns : e # c => ConnectionQueue[e] # q
      /\ \A p \in ConnQueues : p \in Queues /\ p # SocketQueue /\ p # DelegateQueue
  BY <1>4, QueueNames DEF OwnQueues
<1> HIDE DEF q
<1>7. /\ thread'[SocketQueue] = Idle /\ thread'[q].waits = Nobody
      /\ \A r \in Queues : r # SocketQueue =>
           /\ thread'[r].block = thread[r].block /\ thread'[r].step = thread[r].step
           /\ r # q => thread'[r] = thread[r]
           /\ thread[r] = Idle => thread'[r] = Idle
  BY <1>1, <1>2, <1>3, <1>4, <1>6, FinishesLeaves
<1>8. /\ serverConns \in [Hosts -> Conns \cup {NoConn}] /\ NoConn \notin Conns
      /\ h \in Hosts /\ conn[c].host = h /\ conn[c].delegate
  <2>1. conn[c].delegate
    BY <1>4, <1>5 DEF LifeInv, HoldInv
  <2>2. conn[c] \in Objects /\ conn[c].host # Nobody
    BY <1>4, <2>1 DEF QueueInv, Good, Now, HostsNow, States
  <2>3. conn[c].host \in Hosts
    BY <2>2 DEF Objects
  <2>4. QED
    BY <2>1, <2>3, QueueNames DEF QueueInv, MapInv, h
<1>9. serverConns'[h] = NoConn /\ \A i \in Hosts : i # h => serverConns'[i] = serverConns[i]
  BY <1>1, <1>8
<1>10. \A e \in Conns : /\ ~Constructing(e)' /\ ~Constructing(e) /\ ~Inside(e)'
                        /\ Invalidating(e)' <=> Invalidating(e)
                        /\ e # c => thread'[ConnectionQueue[e]] = thread[ConnectionQueue[e]]
  <2>1. \A e \in Conns : ~Constructing(e)' /\ ~Constructing(e) /\ ~Inside(e)'
    BY <1>3, <1>7, IdleBlock DEF Constructing, Inside
  <2>2. \A e \in Conns : /\ Invalidating(e)' <=> Invalidating(e)
                         /\ e # c => thread'[ConnectionQueue[e]] = thread[ConnectionQueue[e]]
    BY <1>6, <1>7 DEF Invalidating
  <2>3. QED
    BY <2>1, <2>2
<1>11. /\ Sound(Now, Fresh)' /\ Counted(Now, NoConn, 0)'
       /\ \A e \in Conns : /\ conn'[e].host = conn[e].host /\ conn'[e].delegate = conn[e].delegate
                           /\ conn[e].kept => conn'[e].kept
                           /\ Leaving(Now, e)' # {} => Leaving(Now, e) # {}
  BY <1>1, <1>3, <1>10, FineStays
<1>12. Leaving(Now, c)' = {} /\ ~Registered(c)'
  <2>1. Now' = s
    BY <1>1, <1>3, BecomesNow DEF Fine, Sound
  <2>2. Leaving(Now', c) = {}
    BY <1>5, <2>1
  <2>3. ~Registered(c)'
    BY <1>4, <1>8, <1>9, <1>11 DEF Registered
  <2>4. QED
    BY <2>2, <2>3
<1>13. ASSUME NEW e \in Conns, conn[e].delegate, e # c
       PROVE  Registered(e)' <=> Registered(e)
  <2>1. conn[e].host \in Hosts
    <3>1. conn[e] \in Objects /\ conn[e].host # Nobody
      BY <1>13 DEF QueueInv, Good, Now, HostsNow, States
    <3>2. QED
      BY <3>1 DEF Objects
  <2>2. CASE conn[e].host = h
    BY <1>5, <1>8, <1>9, <1>11, <1>13, <2>2 DEF Registered
  <2>3. CASE conn[e].host # h
    BY <1>9, <1>11, <2>1, <2>3 DEF Registered
  <2>4. QED
    BY <2>2, <2>3
<1>14. ServedInv'
  <2>1. ASSUME NEW i \in Hosts, serverConns'[i] # NoConn
        PROVE  conn'[serverConns'[i]].delegate /\ conn'[serverConns'[i]].host = i
    <3>1. serverConns'[i] = serverConns[i]
      BY <1>9, <2>1
    <3>2. serverConns[i] \in Conns /\ conn[serverConns[i]].delegate
          /\ conn[serverConns[i]].host = i
      BY <1>8, <2>1, <3>1 DEF LifeInv, ServedInv
    <3>3. QED
      BY <1>11, <3>1, <3>2
  <2>2. ASSUME NEW e \in Conns, conn'[e].delegate
        PROVE  Registered(e)' \/ Constructing(e)' \/ Invalidating(e)'
    <3>1. CASE e = c
      BY <1>5, <1>10, <3>1
    <3>2. CASE e # c
      <4>1. conn[e].delegate
        BY <1>11, <2>2
      <4>2. Registered(e) \/ Invalidating(e)
        BY <1>10, <4>1 DEF LifeInv, ServedInv
      <4>3. QED
        BY <1>10, <1>13, <3>2, <4>1, <4>2
    <3>3. QED
      BY <3>1, <3>2
  <2>3. ASSUME NEW e \in Conns, Leaving(Now, e)' # {}
        PROVE  /\ Invalidating(e)' /\ Registered(e)'
               /\ thread'[ConnectionQueue[e]].waits = SocketQueue
    <3>1. /\ Invalidating(e) /\ Registered(e)
          /\ thread[ConnectionQueue[e]].waits = SocketQueue
      BY <1>11, <2>3 DEF LifeInv, ServedInv
    <3>2. e # c /\ conn[e].delegate
      BY <1>12, <2>3, <3>1 DEF LifeInv, HoldInv
    <3>3. QED
      BY <1>10, <1>13, <3>1, <3>2
  <2>4. QED
    BY <1>10, <2>1, <2>2, <2>3 DEF ServedInv
<1>15. HoldInv'
  <2>1. \A p \in Queues : /\ thread'[p].block.from = Nobody
                          /\ thread'[p].step = "none" => thread'[p] = Idle
    BY <1>7, IdleBlock DEF LifeInv, HoldInv
  <2>2. /\ thread'[SocketQueue].step \in Making \cup {"none"}
        /\ thread'[SocketQueue].step \notin Making
    BY <1>7, IdleBlock DEF Making
  <2>3. /\ thread'[DelegateQueue].step \in {"called", "closing", "none"}
        /\ thread'[DelegateQueue].step \in {"called", "closing"} =>
             LET e == thread'[DelegateQueue].block.conn IN e \in Conns /\ conn'[e].kept
    BY <1>2, <1>6, <1>7, <1>11 DEF LifeInv, HoldInv
  <2>4. \A p \in ConnQueues : thread'[p].step \in {"invalidating", "none"}
    BY <1>6, <1>7 DEF LifeInv, HoldInv
  <2>5. ASSUME NEW e \in Conns, Invalidating(e)'
        PROVE  /\ conn'[e].delegate
               /\ thread'[ConnectionQueue[e]].waits = Nobody => ~Registered(e)' /\ ~Inside(e)'
    <3>1. /\ conn[e].delegate
          /\ thread[ConnectionQueue[e]].waits = Nobody => ~Registered(e)
      BY <1>10, <2>5 DEF LifeInv, HoldInv
    <3>2. CASE e = c
      BY <1>10, <1>11, <1>12, <3>1, <3>2
    <3>3. CASE e # c
      BY <1>10, <1>11, <1>13, <3>1, <3>3
    <3>4. QED
      BY <3>2, <3>3
  <2>6. QED
    BY <2>1, <2>2, <2>3, <2>4, <2>5 DEF HoldInv
<1>16. QED
  BY <1>11, <1>14, <1>15 DEF LifeInv

-----------------------------------------------------------------------------
(* The delegate queue, the timers and the network *)

\* The application leaves the connection alone.
LEMMA GotNoConnectionLife ==
  ASSUME NEW E, OwnQueues, QueueInv(E), LifeInv, Takes(DelegateQueue, "gotConnection"),
         Becomes(Taken(DelegateQueue)), Finishes(DelegateQueue, Head(queue[DelegateQueue])),
         UNCHANGED serverConns
  PROVE  LifeInv'
<1> DEFINE b == Head(queue[DelegateQueue])
           s == Taken(DelegateQueue)
<1>1. DelegateQueue \in Queues /\ Nobody \notin ConnQueues
  BY QueueNames
<1>2. /\ Fine(s, Fresh, NoConn, 0) /\ thread[DelegateQueue] = Idle /\ b \in Known(DelegateQueue)
      /\ b \in Blocks
  BY <1>1, TakenFine
<1>3. b.from = Nobody
  BY <1>2 DEF Known
<1> HIDE DEF b, s
<1>4. thread[DelegateQueue].step = "none"
  BY <1>2, IdleBlock
<1>5. QED
  BY <1>1, <1>2, <1>3, <1>4, FinishLife DEF b, s

\* The application is told of a connection once: it does not have it, nor will it be told again.
LEMMA ToldOnce ==
  ASSUME OwnQueues, LifeInv, Takes(DelegateQueue, "gotConnection"), NEW c \in Conns
  PROVE  Head(queue[DelegateQueue]).conn = c =>
           c \notin Fresh /\ ~conn[c].kept /\ Announced(Taken(DelegateQueue), c) = {}
<1> DEFINE b == Head(queue[DelegateQueue])
<1>1. DelegateQueue \in Queues /\ queue[DelegateQueue] # <<>> /\ Sound(Now, Fresh)
      /\ b.kind = "gotConnection" /\ Now.queue = queue /\ Now.conn = conn
  BY QueueNames DEF Takes, LifeInv, Now
<1>2. b.kind = "gotConnection" /\ b.conn = c =>
      /\ Pending(queue[DelegateQueue], "gotConnection", c) # {}
      /\ (\A i, j \in Pending(queue[DelegateQueue], "gotConnection", c) : i = j) =>
            Pending(Taken(DelegateQueue).queue[DelegateQueue], "gotConnection", c) = {}
  BY <1>1, OnlyTaken
<1> HIDE DEF b
<1>3. b.conn = c =>
      /\ Announced(Now, c) # {}
      /\ (\A i, j \in Announced(Now, c) : i = j) => Announced(Taken(DelegateQueue), c) = {}
  BY <1>1, <1>2 DEF Announced
<1>4. Once(Now, c, Fresh)
  BY <1>1 DEF Sound
<1>5. QED
  BY <1>1, <1>3, <1>4 DEF Once, b

\* The application gets a connection and keeps it: one reference more.
LEMMA KeptFine ==
  ASSUME OwnQueues, NEW F, NEW s, Fine(s, F, NoConn, 0), NEW c \in Conns,
         s.conn[c].delegate, ~s.conn[c].kept, c \notin F, Announced(s, c) = {}
  PROVE  LET u == Retained([s EXCEPT !.conn[c].kept = TRUE], c) IN
         Fine(u, F, NoConn, 0) /\ u.conn[c].kept
<1> DEFINE r == [s.conn[c] EXCEPT !.kept = TRUE]
           t == [s EXCEPT !.conn[c] = r]
           u == Retained(t, c)
<1>1. /\ s \in States /\ s.conn[c] \in Objects /\ Lives(s.conn[c], s.queue[ConnectionQueue[c]])
      /\ Fine(s, F, c, 0) /\ Sound(s, F) /\ Counted(s, NoConn, 0)
  BY SoundObject, FineNobody DEF Fine
<1>2. s.conn[c].alive /\ Undeleted(s.queue[ConnectionQueue[c]])
  BY <1>1, ReferredLives
<1>3. /\ r \in Objects /\ r.host = s.conn[c].host /\ r.delegate = s.conn[c].delegate
      /\ r.kept = TRUE /\ r.timers = s.conn[c].timers /\ r.refs = s.conn[c].refs
      /\ r.alive = s.conn[c].alive
  BY <1>1, Zenon DEF Objects
<1> HIDE DEF r
<1>4. Lives(r, s.queue[ConnectionQueue[c]])
  BY <1>1, <1>3 DEF Lives
<1>5. Fine(t, F, c, -1)
  <2>1. One(r.kept) = 1 /\ One(s.conn[c].kept) = 0 /\ s.conn[c].refs \in Int
    BY <1>1, <1>3 DEF One, Objects
  <2>2. r.refs - One(r.kept) - (-1) = s.conn[c].refs - One(s.conn[c].kept) - 0
    BY <1>3, <2>1
  <2>3. -1 \in Int /\ 0 \in Int
    OBVIOUS
  <2>4. /\ r.kept => s.conn[c].kept \/ (c \notin F /\ Announced(s, c) = {})
        /\ s.conn[c].kept => r.kept
    BY <1>3
  <2>5. QED
    BY <1>1, <1>3, <1>4, <2>2, <2>3, <2>4, ChangedFine
<1>6. t \in States /\ t.queue = s.queue /\ t.conn[c] = r
  BY <1>1, <1>3, ChangedIs
<1> HIDE DEF t
<1>7. Fine(u, F, c, 0)
  <2>1. t.conn[c].alive
    BY <1>2, <1>3, <1>6, Zenon
  <2>2. Undeleted(t.queue[ConnectionQueue[c]])
    BY <1>2, <1>6
  <2>3. -1 \in Int /\ -1 + 1 = 0
    OBVIOUS
  <2>4. Fine(u, F, c, -1 + 1)
    BY <1>5, <2>1, <2>2, <2>3, RetainedFine
  <2>5. QED
    BY <2>3, <2>4
<1>8. u.conn[c].kept
  <2> DEFINE o == [t.conn[c] EXCEPT !.refs = t.conn[c].refs + 1]
  <2>1. u = [t EXCEPT !.conn[c] = o]
    BY DEF Retained
  <2>2. o \in Objects /\ o.kept = t.conn[c].kept
    BY <1>3, <1>6, RefsIs
  <2> HIDE DEF o
  <2>3. u.conn[c] = o
    BY <1>6, <2>1, <2>2, ChangedIs
  <2>4. QED
    BY <1>3, <1>6, <2>2, <2>3
<1>9. Fine(u, F, NoConn, 0)
  BY <1>7, FineNobody
<1>10. QED
  BY <1>8, <1>9 DEF t, r

\* The application keeps the connection it is told of, or leaves it alone.
LEMMA GotConnectionLife ==
  ASSUME NEW E, OwnQueues, QueueInv(E), LifeInv, GotConnection
  PROVE  LifeInv'
<1> DEFINE b == Head(queue[DelegateQueue])
           c == b.conn
           s == Taken(DelegateQueue)
           u == Retained([s EXCEPT !.conn[c].kept = TRUE], c)
           m == Block("setDelegate", c, "nothing", DelegateQueue)
           n == Enqueued(u, ConnectionQueue[c], m)
<1>1. /\ Takes(DelegateQueue, "gotConnection") /\ UNCHANGED serverConns /\ conn[c].delegate
      /\ \/ Becomes(s) /\ Finishes(DelegateQueue, b)
         \/ Inline(DelegateQueue, ConnectionQueue[c])
         \/ Becomes(n) /\ Waits(DelegateQueue, b, "called", ConnectionQueue[c])
  BY DEF GotConnection
<1>2. DelegateQueue \in Queues /\ DelegateQueue # SocketQueue /\ DelegateQueue \notin ConnQueues
  BY QueueNames DEF OwnQueues
<1>3. /\ Fine(s, Fresh, NoConn, 0) /\ thread[DelegateQueue] = Idle /\ b \in Known(DelegateQueue)
      /\ b \in Blocks /\ s.conn = conn
  BY <1>1, <1>2, TakenFine
<1>4. b.from = Nobody /\ c \in Conns
  BY <1>3 DEF Known
<1>5. CASE Becomes(s) /\ Finishes(DelegateQueue, b)
  BY <1>1, <1>5, GotNoConnectionLife
<1>6. CASE Becomes(n) /\ Waits(DelegateQueue, b, "called", ConnectionQueue[c])
  <2>1. c \notin Fresh /\ ~conn[c].kept /\ Announced(s, c) = {}
    BY <1>1, <1>4, ToldOnce
  <2> HIDE DEF s, b, c
  <2>2. Fine(u, Fresh, NoConn, 0) /\ u.conn[c].kept
    BY <1>1, <1>3, <1>4, <2>1, KeptFine
  <2> HIDE DEF u
  <2>3. /\ ConnectionQueue[c] \in ConnQueues /\ ConnectionQueue[c] \in Queues
        /\ ConnectionQueue[c] # SocketQueue /\ ConnectionQueue[c] # DelegateQueue
    BY <1>4, QueueNames
  <2>4. m \in Known(ConnectionQueue[c]) /\ m \in Blocks /\ m.kind = "setDelegate" /\ m.conn = c
    <3>1. m \in Blocks /\ m.kind = "setDelegate" /\ m.conn = c /\ m.from = DelegateQueue
      BY <1>2, <1>4 DEF Block, Blocks, Kinds, Words
    <3> HIDE DEF m
    <3>2. QED
      BY <1>2, <1>4, <2>3, <3>1 DEF Known, Work
  <2> HIDE DEF m
  <2>5. u.conn[c].alive /\ Undeleted(u.queue[ConnectionQueue[c]])
    <3>1. Sound(u, Fresh) /\ Counted(u, NoConn, 0)
      BY <2>2 DEF Fine
    <3>2. QED
      BY <1>4, <2>2, <3>1, ReferredLives
  <2>6. Fine(n, Fresh, NoConn, 0)
    BY <2>2, <2>3, <2>4, <2>5, EnqueuedFine
  <2>7. n.conn[c].kept
    <3>1. u \in States
      BY <2>2 DEF Fine, Sound
    <3>2. n.conn = u.conn
      BY <2>3, <2>4, <3>1, EnqueuedIs
    <3>3. QED
      BY <2>2, <3>2
  <2> HIDE DEF n
  <2>8. b.conn \in Conns /\ n.conn[b.conn].kept
    BY <1>4, <2>7 DEF c
  <2>9. QED
    BY <1>1, <1>3, <1>4, <1>6, <2>6, <2>8, CalledLife
<1>7. ~Inline(DelegateQueue, ConnectionQueue[c])
  BY <1>2, <1>4, QueueNames DEF Inline
<1>8. QED
  BY <1>1, <1>5, <1>6, <1>7

\* A callback gives its reference back.
LEMMA RunCallbackLife ==
  ASSUME NEW E, OwnQueues, QueueInv(E), LifeInv, RunCallback
  PROVE  LifeInv'
<1> DEFINE b == Head(queue[DelegateQueue])
           c == b.conn
           s == Taken(DelegateQueue)
           r == [s.conn[c] EXCEPT !.told = s.conn[c].told \/ b.what = "disconnect"]
           t == [s EXCEPT !.conn[c] = r]
<1>1. /\ Takes(DelegateQueue, "callback") /\ UNCHANGED serverConns
      /\ Becomes(Released([s EXCEPT !.conn[c].told = @ \/ b.what = "disconnect"], c))
      /\ Finishes(DelegateQueue, b)
  BY DEF RunCallback
<1>2. DelegateQueue \in Queues /\ Nobody \notin ConnQueues
  BY QueueNames
<1>3. /\ queue[DelegateQueue] # <<>> /\ thread[DelegateQueue] = Idle /\ Sound(Now, Fresh)
      /\ Counted(Now, NoConn, 0) /\ b.kind = "callback"
  BY <1>1 DEF Takes, LifeInv
<1>4. b \in Known(DelegateQueue) /\ b \in Blocks
  BY <1>2, <1>3, TakenLeaves
<1>5. c \in Conns /\ b.from = Nobody
  BY <1>2, <1>4 DEF Known
<1>6. Fine(s, Fresh, c, 1)
  <2>1. Sound(s, Fresh) /\ Alike(Now, s)
    BY <1>2, <1>3, TakenSound, TakenAlike
  <2>2. Counted(s, c, 1)
    BY <1>2, <1>3, TakenCounted
  <2>3. QED
    BY <2>1, <2>2 DEF Fine
<1> HIDE DEF s, b, c
<1>7. /\ s \in States /\ s.conn[c] \in Objects /\ Lives(s.conn[c], s.queue[ConnectionQueue[c]])
  BY <1>5, <1>6, SoundObject DEF Fine
<1>8. /\ r \in Objects /\ r.host = s.conn[c].host /\ r.delegate = s.conn[c].delegate
      /\ r.kept = s.conn[c].kept /\ r.timers = s.conn[c].timers /\ r.refs = s.conn[c].refs
      /\ r.alive = s.conn[c].alive
  <2>1. (s.conn[c].told \/ b.what = "disconnect") \in BOOLEAN
    OBVIOUS
  <2>2. QED
    BY <1>7, <2>1, Zenon DEF Objects
<1>9. [s EXCEPT !.conn[c].told = @ \/ b.what = "disconnect"] = t
  BY <1>7
<1> HIDE DEF r
<1>10. Lives(r, s.queue[ConnectionQueue[c]])
  BY <1>7, <1>8 DEF Lives
<1>11. Fine(t, Fresh, c, 1)
  <2>1. r.refs - One(r.kept) - 1 = s.conn[c].refs - One(s.conn[c].kept) - 1
    BY <1>8
  <2>2. /\ r.kept => s.conn[c].kept \/ (c \notin Fresh /\ Announced(s, c) = {})
        /\ s.conn[c].kept => r.kept
    BY <1>8
  <2> HIDE DEF Fresh
  <2>3. QED
    BY <1>5, <1>6, <1>8, <1>10, <2>1, <2>2, ChangedFine
<1> HIDE DEF t
<1>12. Fine(Released(t, c), Fresh, NoConn, 0)
  BY <1>5, <1>11, ReleasedFine
<1>13. Becomes(Released(t, c)) /\ thread[DelegateQueue].step = "none"
  BY <1>1, <1>3, <1>9, IdleBlock
<1>14. QED
  BY <1>1, <1>2, <1>4, <1>5, <1>12, <1>13, FinishLife

\* Steps of the application's, the timers' and the network's that no queue waits for.
LEMMA OtherLife ==
  ASSUME NEW E, OwnQueues, QueueInv(E), LifeInv, UNCHANGED <<thread, serverConns>>,
         NEW s, Sound(s, Fresh), Counted(s, NoConn, 0), Becomes(s),
         \A c \in Conns : /\ s.conn[c].host = conn[c].host /\ s.conn[c].delegate = conn[c].delegate
                          /\ Leaving(s, c) # {} => Leaving(Now, c) # {},
         thread[DelegateQueue].step # "none" =>
           \A c \in Conns : conn[c].kept => s.conn[c].kept
  PROVE  LifeInv'
<1>1. Now' = s /\ conn' = s.conn
  BY BecomesNow DEF Sound
<1>2. \A c \in Conns : /\ conn'[c].host = conn[c].host /\ conn'[c].delegate = conn[c].delegate
                       /\ Leaving(Now, c)' # {} => Leaving(Now, c) # {}
                       /\ Registered(c)' <=> Registered(c)
  BY <1>1 DEF Registered
<1>3. \A c \in Conns : /\ Constructing(c)' <=> Constructing(c)
                       /\ Inside(c)' <=> Inside(c)
                       /\ Invalidating(c)' <=> Invalidating(c)
  BY DEF Constructing, Inside, Invalidating
<1>4. Sound(Now, Fresh)' /\ Counted(Now, NoConn, 0)'
  <2>1. Fresh' = Fresh
    BY <1>2, <1>3 DEF Fresh
  <2>2. QED
    BY <1>1, <2>1
<1>5. ServedInv'
  BY <1>2, <1>3, ServedStays DEF LifeInv
<1>6. HoldInv'
  <2>1. /\ \A q \in Queues : /\ thread'[q].block.from = Nobody
                             /\ thread'[q].step = "none" => thread'[q] = Idle
        /\ thread'[SocketQueue].step \in Making \cup {"none"}
        /\ thread'[DelegateQueue].step \in {"called", "closing", "none"}
        /\ \A q \in ConnQueues : thread'[q].step \in {"invalidating", "none"}
    BY DEF LifeInv, HoldInv
  <2>2. thread'[SocketQueue].step \in Making => conn'[thread'[SocketQueue].block.conn].delegate
    BY <1>2 DEF LifeInv, HoldInv, QueueInv, ThreadInv
  <2>3. thread'[DelegateQueue].step \in {"called", "closing"} =>
          LET c == thread'[DelegateQueue].block.conn IN c \in Conns /\ conn'[c].kept
    BY <1>1 DEF LifeInv, HoldInv
  <2>4. \A c \in Conns : Invalidating(c)' =>
          /\ conn'[c].delegate
          /\ thread'[ConnectionQueue[c]].waits = Nobody => ~Registered(c)' /\ ~Inside(c)'
    BY <1>2, <1>3 DEF LifeInv, HoldInv
  <2>5. QED
    BY <2>1, <2>2, <2>3, <2>4 DEF HoldInv
<1>7. QED
  BY <1>4, <1>5, <1>6 DEF LifeInv

\* A call of the application is made with its reference.
LEMMA CallLife ==
  ASSUME NEW E, OwnQueues, QueueInv(E), LifeInv, NEW c \in Conns,
         NEW method \in {"send", "forceClose"},
         Call(c, method)
  PROVE  LifeInv'
<1> DEFINE m == Block(method, c, "nothing", DelegateQueue)
           b == Block("call", c, method, Nobody)
           n == Enqueued(Now, ConnectionQueue[c], m)
<1>1. /\ conn[c].kept /\ Becomes(n) /\ UNCHANGED serverConns
      /\ Waits(DelegateQueue, b, "called", ConnectionQueue[c])
  <2>1. ~Inline(DelegateQueue, ConnectionQueue[c])
    BY QueueNames DEF Inline
  <2>2. QED
    BY <2>1 DEF Call, Calls
<1>2. /\ ConnectionQueue[c] \in ConnQueues /\ ConnectionQueue[c] \in Queues
      /\ ConnectionQueue[c] # SocketQueue /\ ConnectionQueue[c] # DelegateQueue
      /\ DelegateQueue \in Queues /\ DelegateQueue \notin ConnQueues
  BY QueueNames
<1>3. Fine(Now, Fresh, NoConn, 0) /\ Now \in States /\ Now.conn = conn
  BY DEF LifeInv, Fine, Sound, Alike, Now
<1>4. /\ m \in Known(ConnectionQueue[c]) /\ m \in Blocks /\ m.kind \in {"send", "forceClose"}
      /\ m.conn = c
  <2>1. m \in Blocks /\ m.kind = method /\ m.conn = c /\ m.from = DelegateQueue
    BY <1>2 DEF Block, Blocks, Kinds, Words
  <2> HIDE DEF m
  <2>2. QED
    BY <1>2, <2>1 DEF Known, Work
<1>5. b \in Blocks /\ b.from = Nobody /\ b.conn = c
  BY DEF Block, Blocks, Kinds, Words
<1> HIDE DEF m, b
<1>6. Now.conn[c].alive /\ Undeleted(Now.queue[ConnectionQueue[c]])
  <2>1. Sound(Now, Fresh) /\ Counted(Now, NoConn, 0) /\ Now.conn[c].kept
    BY <1>1, <1>3 DEF LifeInv
  <2>2. QED
    BY <2>1, ReferredLives
<1>7. Fine(n, Fresh, NoConn, 0)
  BY <1>2, <1>3, <1>4, <1>6, EnqueuedFine
<1>8. n.conn = conn
  BY <1>2, <1>3, <1>4, EnqueuedIs
<1> HIDE DEF n
<1>9. b.conn \in Conns /\ n.conn[b.conn].kept
  BY <1>1, <1>5, <1>8
<1>10. QED
  BY <1>1, <1>5, <1>7, <1>9, CalledLife

\* closeWithError: schedules a tick with the application's reference.
LEMMA CloseWithErrorLife ==
  ASSUME NEW E, OwnQueues, QueueInv(E), LifeInv, NEW c \in Conns, CloseWithError(c)
  PROVE  LifeInv'
<1> DEFINE m == Schedule(c, "tick", DelegateQueue)
           b == Block("call", c, "closeWithError", Nobody)
           n == Enqueued(Now, ConnectionQueue[c], m)
<1>1. conn[c].kept /\ UNCHANGED serverConns
  BY DEF CloseWithError, Calls
<1>2. /\ ConnectionQueue[c] \in ConnQueues /\ ConnectionQueue[c] \in Queues
      /\ ConnectionQueue[c] # SocketQueue /\ ConnectionQueue[c] # DelegateQueue
      /\ DelegateQueue \in Queues /\ DelegateQueue \notin ConnQueues
  BY QueueNames
<1>3. Fine(Now, Fresh, NoConn, 0) /\ Now \in States /\ Now.conn = conn
  BY DEF LifeInv, Fine, Sound, Alike, Now
<1>4. CASE UNCHANGED <<conn, queue, thread>>
  <2>1. Becomes(Now)
    BY <1>4 DEF Becomes, Now
  <2>2. QED
    BY <1>1, <1>3, <1>4, <2>1, OtherLife DEF Fine, Alike
<1>5. CASE Schedules(Now, DelegateQueue, b, "closing", c, "tick")
  <2>1. m \in Known(ConnectionQueue[c]) /\ m \in Blocks /\ m.kind = "schedule" /\ m.conn = c
    <3>1. m \in Blocks /\ m.kind = "schedule" /\ m.conn = c /\ m.from = DelegateQueue
      BY <1>2 DEF Schedule, Block, Blocks, Kinds, Words
    <3> HIDE DEF m
    <3>2. QED
      BY <1>2, <3>1 DEF Known, Work
  <2>2. b \in Blocks /\ b.from = Nobody /\ b.conn = c
    BY DEF Block, Blocks, Kinds, Words
  <2> HIDE DEF b
  <2>3. Becomes(n) /\ Waits(DelegateQueue, b, "closing", ConnectionQueue[c])
    BY <1>2, <1>5, SchedulesIs
  <2> HIDE DEF m
  <2>4. Now.conn[c].alive /\ Undeleted(Now.queue[ConnectionQueue[c]])
    <3>1. Sound(Now, Fresh) /\ Counted(Now, NoConn, 0) /\ Now.conn[c].kept
      BY <1>1, <1>3 DEF LifeInv
    <3>2. QED
      BY <3>1, ReferredLives
  <2>5. Fine(n, Fresh, NoConn, 0)
    BY <1>2, <1>3, <2>1, <2>4, EnqueuedFine
  <2>6. n.conn = conn
    BY <1>2, <1>3, <2>1, EnqueuedIs
  <2> HIDE DEF n
  <2>7. b.conn \in Conns /\ n.conn[b.conn].kept
    BY <1>1, <2>2, <2>6
  <2>8. QED
    BY <1>1, <2>2, <2>3, <2>5, <2>7, CalledLife
<1>6. QED
  BY <1>4, <1>5 DEF CloseWithError

\* The application gives its reference up, which may be the last.
LEMMA LoseInterestLife ==
  ASSUME NEW E, OwnQueues, QueueInv(E), LifeInv, NEW c \in Conns, LoseInterest(c)
  PROVE  LifeInv'
<1> DEFINE r == [Now.conn[c] EXCEPT !.kept = FALSE]
           s == [Now EXCEPT !.conn[c] = r]
           u == Released(s, c)
<1>1. /\ thread[DelegateQueue] = Idle /\ conn[c].kept /\ UNCHANGED <<thread, serverConns>>
      /\ Becomes(Released([Now EXCEPT !.conn[c].kept = FALSE], c))
  BY DEF LoseInterest
<1>2. /\ Sound(Now, Fresh) /\ Counted(Now, c, 0) /\ Now \in States /\ Now.conn = conn
      /\ Now.conn[c] \in Objects /\ Lives(Now.conn[c], Now.queue[ConnectionQueue[c]])
  BY SoundObject, CountedNobody DEF LifeInv, Now
<1>3. /\ r \in Objects /\ r.host = Now.conn[c].host /\ r.delegate = Now.conn[c].delegate
      /\ r.kept = FALSE /\ r.timers = Now.conn[c].timers /\ r.refs = Now.conn[c].refs
      /\ r.alive = Now.conn[c].alive
  BY <1>2, Zenon DEF Objects
<1> HIDE DEF r
<1>4. Lives(r, Now.queue[ConnectionQueue[c]])
  BY <1>2, <1>3 DEF Lives
<1>5. Sound(s, Fresh)
  BY <1>2, <1>3, <1>4, ChangedSound
<1>6. Counted(s, c, 1)
  <2>1. One(r.kept) = 0 /\ One(Now.conn[c].kept) = 1
    BY <1>1, <1>2, <1>3 DEF One
  <2>2. /\ Now.conn[c].refs \in Int /\ One(Now.conn[c].delegate) \in Int
        /\ One(r.delegate) = One(Now.conn[c].delegate)
    BY <1>2, <1>3 DEF One, Objects
  <2>3. r.refs - One(r.delegate) - One(r.kept) - 1
          = Now.conn[c].refs - One(Now.conn[c].delegate) - One(Now.conn[c].kept) - 0
    BY <1>3, <2>1, <2>2
  <2>4. Now \in States /\ r \in Objects /\ 0 \in Int /\ 1 \in Int
    BY <1>2, <1>3
  <2>5. QED
    BY <1>2, <2>3, <2>4, ChangedCounted
<1>7. /\ s.queue = Now.queue /\ s.conn[c] = r
      /\ \A e \in Conns : e # c => s.conn[e] = Now.conn[e]
  <2>1. Now \in States /\ r \in Objects
    BY <1>2, <1>3
  <2>2. QED
    BY <2>1, ChangedIs, ZenonT(60)
<1>8. Becomes(u)
  BY <1>1 DEF r
<1> HIDE DEF s
<1>9. SocketQueue \in Queues \ ConnQueues
  BY QueueNames
<1>10. /\ Sound(u, Fresh) /\ Counted(u, c, 0)
       /\ \A e \in Conns : /\ u.conn[e].host = s.conn[e].host
                           /\ u.conn[e].delegate = s.conn[e].delegate
                           /\ u.conn[e].kept = s.conn[e].kept
       /\ \A p \in Queues \ ConnQueues : u.queue[p] = s.queue[p]
  BY <1>5, <1>6, ReleasedSound, ZenonT(60)
<1> HIDE DEF u
<1>11. Counted(u, NoConn, 0)
  BY <1>10, CountedNobody
<1>12. ASSUME NEW e \in Conns
       PROVE  /\ u.conn[e].host = conn[e].host /\ u.conn[e].delegate = conn[e].delegate
              /\ Leaving(u, e) # {} => Leaving(Now, e) # {}
  <2>1. s.conn[e].host = conn[e].host /\ s.conn[e].delegate = conn[e].delegate
    BY <1>2, <1>3, <1>7
  <2>2. u.conn[e].host = conn[e].host /\ u.conn[e].delegate = conn[e].delegate
    BY <1>10, <2>1
  <2>3. Leaving(u, e) = Leaving(Now, e)
    BY <1>7, <1>9, <1>10 DEF Leaving
  <2>4. QED
    BY <2>2, <2>3
<1>13. thread[DelegateQueue].step = "none"
  BY <1>1, IdleBlock
<1>14. QED
  BY <1>1, <1>8, <1>10, <1>11, <1>12, <1>13, OtherLife

\* A time-out: the connection is in the map, or was invalidated already.
LEMMA RunTimerLife ==
  ASSUME NEW E, OwnQueues, QueueInv(E), LifeInv, NEW c \in Conns,
         NEW timer \in {"connection", "force"},
         RunTimer(c, timer)
  PROVE  LifeInv'
<1> DEFINE q == ConnectionQueue[c]
           r == [Now.conn[c] EXCEPT !.timers = @ \ {timer}]
           s == [Now EXCEPT !.conn[c].timers = @ \ {timer}]
           b == Block("timer", c, timer, Nobody)
<1>1. /\ timer \in conn[c].timers /\ (timer = "connection" => ~Inside(c)) /\ thread[q] = Idle
      /\ ForceClose(s, q, b) /\ UNCHANGED serverConns
  BY DEF RunTimer
<1>2. /\ Fine(Now, Fresh, NoConn, 0) /\ Now.conn = conn /\ Now.conn[c] \in Objects /\ Now \in States
  BY SoundObject DEF LifeInv, Fine, Alike, Now
<1>3. /\ r \in Objects /\ r.host = Now.conn[c].host /\ r.delegate = Now.conn[c].delegate
      /\ r.kept = Now.conn[c].kept /\ r.refs = Now.conn[c].refs /\ r.alive = Now.conn[c].alive
      /\ r.timers \subseteq Now.conn[c].timers
  BY <1>2 DEF Objects
<1>4. s = [Now EXCEPT !.conn[c] = r]
  OBVIOUS
<1>5. s.conn[c].delegate = conn[c].delegate
  BY <1>2, <1>3, <1>4 DEF States
<1> HIDE DEF r, s
<1>6. Fine(s, Fresh, NoConn, 0)
  BY <1>2, <1>3, <1>4, TouchedFine
<1>7. s.conn[c].delegate => c \notin Young(E)
  <2>1. CASE timer = "force"
    BY <1>1, <2>1, <1>2 DEF QueueInv, Good
  <2>2. CASE timer = "connection"
    <3>1. conn[c].delegate => conn[c].host # Nobody
      BY <1>2 DEF QueueInv, Good, HostsNow
    <3>2. QED
      BY <1>1, <1>5, <2>2, <3>1 DEF Young, Constructing, Inside
  <2>3. QED
    BY <2>1, <2>2
<1>8. b \in Blocks /\ b.conn = c /\ b.from = Nobody /\ q \in ConnQueues
  BY QueueNames DEF Block, Blocks, Kinds, Words
<1> HIDE DEF b
<1>9. QED
  BY <1>1, <1>6, <1>7, <1>8, ForceCloseLife

\* A packet comes.
LEMMA ArriveLife ==
  ASSUME NEW E, OwnQueues, QueueInv(E), LifeInv, NEW type \in Types,
         NEW h \in Hosts, Arrive(type, h)
  PROVE  LifeInv'
<1> DEFINE b == Packet(type, h)
           n == Enqueued(Now, SocketQueue, b)
<1>1. Becomes(n) /\ UNCHANGED <<thread, serverConns>>
  BY DEF Arrive
<1>2. SocketQueue \in Queues /\ SocketQueue \notin ConnQueues /\ SocketQueue # DelegateQueue
  BY QueueNames DEF OwnQueues
<1>3. b \in Known(SocketQueue) /\ b.kind = "packet"
  <2>1. b \in Blocks /\ b.kind = "packet" /\ b.conn = NoConn /\ b.from = Nobody
    BY DEF Packet, Block, Blocks, Kinds
  <2> HIDE DEF b
  <2>2. QED
    BY <1>2, <2>1 DEF Known
<1> HIDE DEF b
<1>4. Fine(Now, Fresh, NoConn, 0) /\ Now.conn = conn
  BY DEF LifeInv, Fine, Alike, Now
<1>5. Fine(n, Fresh, NoConn, 0)
  BY <1>2, <1>3, <1>4, EnqueuedFine
<1> HIDE DEF n
<1>6. QED
  BY <1>1, <1>4, <1>5, OtherLife DEF Fine, Alike

-----------------------------------------------------------------------------
(* The second invariant holds *)

\* No connection is made, and every queue is empty.
LEMMA InitLifeInv ==
  ASSUME OwnQueues, Init
  PROVE  LifeInv
<1>1. /\ conn = [c \in Conns |-> Unmade] /\ serverConns = [h \in Hosts |-> NoConn]
      /\ queue = [q \in Queues |-> <<>>] /\ thread = [q \in Queues |-> Idle]
  BY DEF Init
<1>2. /\ \A c \in Conns : conn[c] = Unmade /\ ConnectionQueue[c] \in Queues
      /\ \A q \in Queues : queue[q] = <<>> /\ thread[q] = Idle
      /\ SocketQueue \in Queues /\ DelegateQueue \in Queues /\ \A q \in ConnQueues : q \in Queues
      /\ Now.conn = conn /\ Now.queue = queue
  BY <1>1, QueueNames DEF Now
<1>3. /\ Unmade.host = Nobody /\ Unmade.timers = {} /\ Unmade.delegate = FALSE
      /\ Unmade.kept = FALSE /\ Unmade.refs = 0 /\ Unmade.alive = FALSE
  BY DEF Unmade
<1>4. Now \in States
  <2>1. QueueInv({})
    BY InitQueueInv
  <2>2. QED
    BY <2>1 DEF QueueInv, Good
<1>5. \A kind, c : Pending(<<>>, kind, c) = {}
  BY DEF Pending
<1>6. \A c \in Conns : Announced(Now, c) = {} /\ Leaving(Now, c) = {}
  BY <1>2, <1>5 DEF Announced, Leaving
<1>7. Sound(Now, Fresh)
  <2>1. ASSUME NEW q \in Queues
        PROVE  Now.queue[q] \in Seq(Known(q))
    <3>1. Now.queue[q] = <<>>
      BY <1>2
    <3>2. \A S : <<>> \in Seq(S)
      OBVIOUS
    <3>3. QED
      BY <3>1, <3>2
  <2>2. \A c \in Conns : Lives(Now.conn[c], Now.queue[ConnectionQueue[c]])
    BY <1>2, <1>3 DEF Lives
  <2>3. \A c \in Conns : Once(Now, c, Fresh)
    BY <1>2, <1>3, <1>6 DEF Once
  <2>4. QED
    BY <1>4, <2>1, <2>2, <2>3 DEF Sound
<1>8. Counted(Now, NoConn, 0)
  <2>1. ASSUME NEW c \in Conns
        PROVE  Owned(Now, c) = 0
    <3>1. Cardinality({}) = 0
      BY FS_EmptySet
    <3>2. One(Now.conn[c].delegate) = 0 /\ One(Now.conn[c].kept) = 0
      BY <1>2, <1>3 DEF One
    <3>3. Pending(Now.queue[DelegateQueue], "callback", c) = {}
      BY <1>2, <1>5
    <3>4. QED
      BY <3>1, <3>2, <3>3 DEF Owned
  <2>2. QED
    BY <1>2, <1>3, <2>1, QueueNames DEF Counted
<1>9. HoldInv
  <2>1. \A c \in Conns : ~Invalidating(c)
    BY <1>2, IdleBlock DEF Invalidating
  <2>2. QED
    BY <1>2, <2>1, IdleBlock DEF HoldInv, Making
<1>10. ServedInv
  <2>1. \A c \in Conns : ~Constructing(c)
    BY <1>2, IdleBlock DEF Constructing
  <2>2. \A h \in Hosts : serverConns[h] = NoConn
    BY <1>1
  <2>3. \A c \in Conns : ~conn[c].delegate
    BY <1>2, <1>3
  <2>4. QED
    BY <1>6, <2>1, <2>2, <2>3 DEF ServedInv
<1>11. QED
  BY <1>7, <1>8, <1>9, <1>10 DEF LifeInv

\* Every step keeps the second invariant, given the first.
LEMMA StepLifeInv ==
  ASSUME NEW E, OwnQueues, QueueInv(E), LifeInv, [Next]_vars
  PROVE  LifeInv'
<1>1. CASE UNCHANGED vars
  <2>1. Becomes(Now) /\ UNCHANGED <<thread, serverConns>> /\ Now.conn = conn
    BY <1>1 DEF vars, Becomes, Now
  <2>2. Sound(Now, Fresh) /\ Counted(Now, NoConn, 0)
    BY DEF LifeInv
  <2>3. QED
    BY <2>1, <2>2, OtherLife
<1>2. CASE RunSocket
  <2>1. CASE MakeServerConnection
    <3>1. thread[SocketQueue].step \in Making
      BY <2>1 DEF MakeServerConnection, Resumes, Making
    <3>2. PICK c \in Conns : thread[SocketQueue].block.conn = c
      BY <3>1, MakingIs
    <3>3. QED
      BY <2>1, <3>2, MakeServerConnectionLife
  <2>2. CASE Deregister
    <3>1. Takes(SocketQueue, "deregister") /\ SocketQueue \in Queues /\ SocketQueue # DelegateQueue
      BY <2>2, QueueNames DEF Deregister, OwnQueues
    <3>2. Head(queue[SocketQueue]) \in Known(SocketQueue) /\ Head(queue[SocketQueue]).kind = "deregister"
      BY <3>1, TakenFine
    <3>3. PICK c \in Conns : Head(queue[SocketQueue]).conn = c
      BY <3>2 DEF Known
    <3>4. QED
      BY <2>2, <3>3, DeregisterLife
  <2>3. CASE Return(SocketQueue)
    BY <2>3, QueueNames, ReturnLife
  <2>4. QED
    BY <1>2, <2>1, <2>2, <2>3, PassOnLife, StrayLife, AcceptLife, OpenedLife DEF RunSocket
<1>3. CASE RunDelegate
  <2>1. CASE GotNoConnection
    BY <2>1, GotNoConnectionLife DEF GotNoConnection
  <2>2. CASE Return(DelegateQueue)
    BY <2>2, QueueNames, ReturnLife
  <2>3. QED
    BY <1>3, <2>1, <2>2, GotConnectionLife, RunCallbackLife DEF RunDelegate
<1>4. ASSUME NEW q \in ConnQueues, RunConnection(q)
      PROVE  LifeInv'
  BY <1>4, ConnectionLife
<1>5. CASE Next
  BY <1>2, <1>3, <1>4, <1>5, CallLife, CloseWithErrorLife,
     LoseInterestLife, RunTimerLife, ArriveLife DEF Next, Types
<1>6. QED
  BY <1>1, <1>5

\* The references of the delegate and of the application, counted as TypeOK does.
LEMMA HeldIs ==
  ASSUME NEW o \in Objects
  PROVE  Cardinality({x \in {"delegate", "kept"} : o[x]}) = One(o.delegate) + One(o.kept)
<1> DEFINE H == {x \in {"delegate", "kept"} : o[x]}
<1>1. /\ Cardinality({}) = 0 /\ Cardinality({"delegate"}) = 1 /\ Cardinality({"kept"}) = 1
      /\ Cardinality({"delegate", "kept"}) = 2
  <2>1. /\ Cardinality({"delegate"}) = 1 /\ Cardinality({"kept"}) = 1
        /\ IsFiniteSet({"delegate"}) /\ Cardinality({}) = 0
    BY FS_Singleton, FS_EmptySet
  <2>2. {"delegate"} \cup {"kept"} = {"delegate", "kept"} /\ "kept" \notin {"delegate"}
    OBVIOUS
  <2>3. Cardinality({"delegate"} \cup {"kept"}) = Cardinality({"delegate"}) + 1
    BY <2>1, <2>2, FS_AddElement
  <2>4. QED
    BY <2>1, <2>2, <2>3
<1>2. o.delegate = o["delegate"] /\ o.kept = o["kept"]
  OBVIOUS
<1>3. CASE o["delegate"] /\ o["kept"]
  <2>1. H = {"delegate", "kept"}
    BY <1>3
  <2>2. QED
    BY <1>1, <1>2, <1>3, <2>1 DEF One
<1>4. CASE o["delegate"] /\ ~o["kept"]
  <2>1. H = {"delegate"}
    BY <1>4
  <2>2. QED
    BY <1>1, <1>2, <1>4, <2>1 DEF One
<1>5. CASE ~o["delegate"] /\ o["kept"]
  <2>1. H = {"kept"}
    BY <1>5
  <2>2. QED
    BY <1>1, <1>2, <1>5, <2>1 DEF One
<1>6. CASE ~o["delegate"] /\ ~o["kept"]
  <2>1. H = {}
    BY <1>6
  <2>2. QED
    BY <1>1, <1>2, <1>6, <2>1 DEF One
<1>7. QED
  BY <1>3, <1>4, <1>5, <1>6

\* The types, and the retain count.
LEMMA TypeOKThen ==
  ASSUME NEW E, OwnQueues, QueueInv(E), LifeInv
  PROVE  TypeOK
<1>1. Now \in States /\ Now.conn = conn /\ Now.queue = queue
  BY DEF LifeInv, Sound, Now
<1>2. ASSUME NEW c \in Conns
      PROVE  /\ conn[c].logical \in {"none", "open", "closed"}
             /\ conn[c].timers \subseteq {"connection", "tick", "force"}
             /\ conn[c].refs = Cardinality({x \in {"delegate", "kept"} : conn[c][x]})
                               + Cardinality(Callbacks(c))
  <2>1. conn[c] \in Objects
    BY <1>1 DEF States
  <2>2. conn[c].logical \in {"none", "open", "closed"}
        /\ conn[c].timers \subseteq {"connection", "tick", "force"}
        /\ conn[c].refs \in Int
    BY <2>1 DEF Objects, Timers
  <2>3. conn[c].refs = Owned(Now, c) + 0 /\ Owned(Now, c) \in Nat
    <3>1. c # NoConn
      BY QueueNames
    <3>2. Owned(Now, c) \in Nat
      BY <1>1, OwnedIs
    <3>3. QED
      BY <1>1, <3>1, <3>2 DEF LifeInv, Counted
  <2>4. Callbacks(c) = Pending(queue[DelegateQueue], "callback", c)
    BY DEF Callbacks, Pending
  <2>5. Owned(Now, c) = One(conn[c].delegate) + One(conn[c].kept) + Cardinality(Callbacks(c))
    BY <1>1, <2>4 DEF Owned
  <2>6. Cardinality({x \in {"delegate", "kept"} : conn[c][x]})
          = One(conn[c].delegate) + One(conn[c].kept)
    BY <2>1, HeldIs
  <2>7. QED
    BY <2>2, <2>3, <2>5, <2>6
<1>3. serverConns \in [Hosts -> Conns \cup {NoConn}]
  BY DEF QueueInv, MapInv
<1>4. \A q \in Queues : thread[q].waits \in Queues \cup {Nobody}
  BY DEF QueueInv, ThreadInv, Threads
<1>5. QED
  BY <1>2, <1>3, <1>4 DEF TypeOK

\* What refers to a connection finds it alive.
LEMMA OutlivesThen ==
  ASSUME NEW E, OwnQueues, QueueInv(E), LifeInv
  PROVE  OutlivesItsBlocks
<1>1. /\ Now \in States /\ Now.conn = conn /\ Now.queue = queue
      /\ Sound(Now, Fresh) /\ Counted(Now, NoConn, 0)
  BY DEF LifeInv, Sound, Now
<1>2. ASSUME NEW c \in Conns
      PROVE  /\ conn[c].delegate \/ conn[c].kept => conn[c].alive
             /\ Pending(queue[DelegateQueue], "callback", c) # {} => conn[c].alive
  BY <1>1, <1>2, ReferredLives
<1>3. \A c \in Conns : Invalidating(c) => conn[c].delegate
  BY DEF LifeInv, HoldInv
<1>4. MapLeadsToLive
  <2>1. ASSUME NEW h \in Hosts, serverConns[h] # NoConn
        PROVE  /\ conn[serverConns[h]].alive /\ conn[serverConns[h]].delegate
               /\ conn[serverConns[h]].host = h
    <3>1. serverConns[h] \in Conns
      BY <2>1 DEF QueueInv, MapInv
    <3>2. conn[serverConns[h]].delegate /\ conn[serverConns[h]].host = h
      BY <2>1 DEF LifeInv, ServedInv
    <3>3. QED
      BY <1>2, <3>1, <3>2
  <2>2. ASSUME NEW c \in Conns, conn[c].delegate, serverConns[conn[c].host] # c
        PROVE  \E q \in Queues : /\ thread[q].block.conn = c
                                 /\ thread[q].step \in {"constructing", "invalidating"}
    <3>1. Constructing(c) \/ Invalidating(c)
      BY <2>2 DEF LifeInv, ServedInv, Registered
    <3>2. SocketQueue \in Queues /\ ConnectionQueue[c] \in Queues
      BY QueueNames
    <3>3. QED
      BY <3>1, <3>2 DEF Constructing, Invalidating
  <2>3. QED
    BY <2>1, <2>2 DEF MapLeadsToLive
<1>5. ASSUME NEW q \in Queues, thread[q].block.conn # NoConn
      PROVE  conn[thread[q].block.conn].alive
  <2> DEFINE c == thread[q].block.conn
  <2>1. thread[q].step # "none"
    BY <1>5, IdleBlock DEF LifeInv, HoldInv
  <2>2. CASE q = SocketQueue
    <3>1. thread[SocketQueue].step \in Making
      BY <2>1, <2>2 DEF LifeInv, HoldInv
    <3>2. c \in Conns /\ conn[c].delegate
      BY <2>2, <3>1, MakingIs
    <3>3. QED
      BY <1>2, <3>2
  <2>3. CASE q = DelegateQueue
    <3>1. c \in Conns /\ conn[c].kept
      BY <2>1, <2>3 DEF LifeInv, HoldInv
    <3>2. QED
      BY <1>2, <3>1
  <2>4. CASE q \in ConnQueues
    <3>1. thread[q].step = "invalidating"
      BY <2>1, <2>4 DEF LifeInv, HoldInv
    <3>2. c \in Conns /\ ConnectionQueue[c] = q
      BY <2>4, <3>1 DEF QueueInv, ThreadInv
    <3>3. conn[c].delegate
      BY <1>3, <3>1, <3>2 DEF Invalidating
    <3>4. QED
      BY <1>2, <3>2, <3>3
  <2>5. QED
    BY <2>2, <2>3, <2>4 DEF Queues
<1>6. ASSUME NEW q \in Queues, NEW i \in DOMAIN queue[q], queue[q][i].conn # NoConn,
             queue[q][i].kind # "gotConnection"
      PROVE  /\ conn[queue[q][i].conn].alive
             /\ \A j \in 1 .. i - 1 :
                  queue[q][j].kind = "delete" => queue[q][j].conn # queue[q][i].conn
  <2> DEFINE c == queue[q][i].conn
  <2>1. /\ queue[q] \in Seq(Known(q)) /\ i \in 1 .. Len(queue[q]) /\ Len(queue[q]) \in Nat
        /\ \A j \in 1 .. Len(queue[q]) : queue[q][j] \in Known(q)
    <3>1. queue[q] \in Seq(Known(q))
      BY <1>1 DEF Sound
    <3>2. QED
      BY <3>1
  <2>2. CASE q = SocketQueue
    <3>1. queue[q][i].kind = "deregister" /\ c \in Conns
      BY <1>6, <2>1, <2>2 DEF Known
    <3>2. i \in Leaving(Now, c)
      BY <1>1, <2>1, <2>2, <3>1 DEF Leaving, Pending
    <3>3. Invalidating(c)
      BY <3>1, <3>2 DEF LifeInv, ServedInv
    <3>4. conn[c].alive
      BY <1>2, <1>3, <3>1, <3>3
    <3>5. \A j \in 1 .. i - 1 : queue[q][j].kind # "delete"
      <4>1. \A b \in Known(SocketQueue) : b.kind # "delete"
        BY DEF Known
      <4>2. \A j \in 1 .. i - 1 : j \in 1 .. Len(queue[q])
        BY <2>1
      <4>3. QED
        BY <2>1, <2>2, <4>1, <4>2
    <3>6. QED
      BY <3>4, <3>5
  <2>3. CASE q = DelegateQueue
    <3>1. queue[q][i].kind = "callback" /\ c \in Conns
      BY <1>6, <2>1, <2>3 DEF Known
    <3>2. i \in Pending(queue[DelegateQueue], "callback", c)
      BY <2>1, <2>3, <3>1 DEF Pending
    <3>3. conn[c].alive
      BY <1>2, <3>1, <3>2
    <3>4. \A j \in 1 .. i - 1 : queue[q][j].kind # "delete"
      <4>1. \A b \in Known(DelegateQueue) : b.kind # "delete"
        BY DEF Known
      <4>2. \A j \in 1 .. i - 1 : j \in 1 .. Len(queue[q])
        BY <2>1
      <4>3. QED
        BY <2>1, <2>3, <4>1, <4>2
    <3>5. QED
      BY <3>3, <3>4
  <2>4. CASE q \in ConnQueues
    <3>1. c \in Conns /\ ConnectionQueue[c] = q
      BY <2>1, <2>4 DEF Known
    <3>2. Lives(conn[c], queue[q])
      BY <1>1, <3>1 DEF Sound
    <3>3. conn[c].alive
      BY <2>1, <3>2 DEF Lives
    <3>4. \A j \in 1 .. i - 1 : queue[q][j].kind # "delete"
      BY <2>1, <3>2 DEF Lives
    <3>5. QED
      BY <3>3, <3>4
  <2>5. QED
    BY <2>2, <2>3, <2>4 DEF Queues
<1>7. QED
  BY <1>4, <1>5, <1>6, TypeOKThen DEF OutlivesItsBlocks

-----------------------------------------------------------------------------
(* The theorems *)

\* Connections become early, and stay so.
LEMMA EarlyGrows ==
  ASSUME [Next]_vars
  PROVE  early \subseteq early'
<1>1. CASE UNCHANGED vars
  BY <1>1 DEF vars
<1>2. CASE RunSocket
  BY <1>2 DEF RunSocket, PassOn, Stray, Accept, MakeServerConnection, Opened, Deregister, Return
<1>3. CASE RunDelegate
  BY <1>3 DEF RunDelegate, GotNoConnection, GotConnection, RunCallback, Return
<1>4. ASSUME NEW q \in ConnQueues, RunConnection(q)
      PROVE  early \subseteq early'
  BY <1>4 DEF RunConnection, GotMessage, Invalidated, Return, RunSchedule, RunSetDelegate,
              RunForceClose, RunSend, RunDelete
<1>5. ASSUME NEW c \in Conns
      PROVE  /\ \A method : Call(c, method) => early \subseteq early'
             /\ CloseWithError(c) \/ LoseInterest(c) => early \subseteq early'
             /\ \A timer : RunTimer(c, timer) => early \subseteq early'
  BY DEF Call, CloseWithError, LoseInterest, RunTimer
<1>6. \A type, h : Arrive(type, h) => early \subseteq early'
  BY DEF Arrive
<1>7. QED
  BY <1>1, <1>2, <1>3, <1>4, <1>5, <1>6 DEF Next

\* The application has a connection only when the constructor is over; if it force closes
\* it before the socket's queue has opened it, the connection is early.
LEMMA CallIs ==
  ASSUME LifeInv, NEW c \in Conns, Call(c, "forceClose")
  PROVE  ~Constructing(c) /\ (Inside(c) => c \in early')
<1>1. conn[c].kept /\ (Inside(c) => c \in early')
  BY DEF Call, Calls
<1>2. Once(Now, c, Fresh) /\ Now.conn = conn
  BY DEF LifeInv, Sound, Now
<1>3. c \notin Fresh
  BY <1>1, <1>2 DEF Once
<1>4. QED
  BY <1>1, <1>3 DEF Fresh

\* Every step keeps the first invariant, given the second.
LEMMA StepQueueInv ==
  ASSUME OwnQueues, QueueInv(early), LifeInv, [Next]_vars
  PROVE  QueueInv(early)'
<1>1. PICK D : D = early
  OBVIOUS
<1>2. PICK E : E = early'
  OBVIOUS
<1>3. QueueInv(E)
  <2>1. QueueInv(D)
    BY <1>1
  <2>2. D \subseteq E
    BY <1>1, <1>2, EarlyGrows
  <2>3. QED
    BY <2>1, <2>2, QueueInvFewer
<1>4. QueueInv(E)'
  <2>1. CASE UNCHANGED vars
    <3>1. Becomes(Now) /\ UNCHANGED <<thread, serverConns>>
      BY <2>1 DEF vars, Becomes, Now
    <3>2. QED
      BY <1>3, <3>1, OtherStep DEF QueueInv
  <2>2. ASSUME NEW c \in Conns, NEW method \in {"send", "forceClose"}, Call(c, method)
        PROVE  QueueInv(E)'
    BY <1>2, <1>3, <2>2, CallIs, CallStep
  <2>3. CASE Next
    BY <1>3, <2>2, <2>3, SocketStep, DelegateStep, ConnectionStep, CloseWithErrorStep,
       LoseInterestStep, RunTimerStep, ArriveStep DEF Next, Types
  <2>4. QED
    BY <2>1, <2>3
<1>5. Young(early)' = Young(E)'
  BY <1>2 DEF Young
<1>6. ThreadInv(early)'
  BY <1>4, <1>5 DEF QueueInv, ThreadInv
<1>7. QED
  BY <1>4, <1>5, <1>6 DEF QueueInv

LEMMA Invariants ==
  ASSUME OwnQueues
  PROVE  Spec => [](QueueInv(early) /\ LifeInv)
<1>1. Init => QueueInv(early) /\ LifeInv
  <2> SUFFICES ASSUME Init
               PROVE  QueueInv(early) /\ LifeInv
    OBVIOUS
  <2>1. PICK E : E = early
    OBVIOUS
  <2>2. QueueInv(E)
    BY InitQueueInv
  <2>3. QED
    BY <2>1, <2>2, InitLifeInv
<1>2. QueueInv(early) /\ LifeInv /\ [Next]_vars => (QueueInv(early) /\ LifeInv)'
  <2> SUFFICES ASSUME QueueInv(early), LifeInv, [Next]_vars
               PROVE  QueueInv(early)' /\ LifeInv'
    OBVIOUS
  <2>1. PICK E : E = early
    OBVIOUS
  <2>2. QueueInv(E)
    BY <2>1
  <2>3. QED
    BY <2>2, StepQueueInv, StepLifeInv
<1>3. QED
  BY <1>1, <1>2, PTL DEF Spec

\* While each queue is its own, queues wait for one another in a circle only when the
\* application has force closed a connection that the socket's queue was still opening: in
\* no order do packets, timers, closings and other calls make DISPATCH_SYNC and the
\* dispatch_sync of EmiConnDelegate::invalidate deadlock; for any number of connections,
\* hosts, packets and calls.
THEOREM QueuesNeverCircle ==
  ASSUME OwnQueues
  PROVE  Spec => []NoCircle
<1>1. QueueInv(early) /\ LifeInv => NoCircle
  BY NoCircleThen
<1>2. QED
  BY <1>1, Invariants, PTL

\* Whatever order packets, timers, calls and callbacks come in, also calls of a connection
\* that is still being opened, the retain count of a connection is the number of those who
\* refer to it, _serverConns leads only to connections that have their delegate, and no
\* block of a queue but that of gotConnection: uses a connection that was deleted or that
\* will be before it runs; for any number of connections, hosts, packets and calls, while
\* each queue is its own.  (EmiConnection's dealloc, EmiConnDelegate::invalidate,
\* EmiSockDelegate::connectionGotMessage)
THEOREM ConnectionsOutliveTheirBlocks ==
  ASSUME OwnQueues
  PROVE  Spec => []OutlivesItsBlocks
<1>1. QueueInv(early) /\ LifeInv => OutlivesItsBlocks
  <2> SUFFICES ASSUME QueueInv(early), LifeInv
               PROVE  OutlivesItsBlocks
    OBVIOUS
  <2>1. PICK E : E = early
    OBVIOUS
  <2>2. QueueInv(E)
    BY <2>1
  <2>3. QED
    BY <2>2, OutlivesThen
<1>2. QED
  BY <1>1, Invariants, PTL
=============================================================================

----------------------------- MODULE MCConnection -----------------------------
(* The connections of the module Connection, up to what no step depends on, so  *)
(* that the liveness of two attempts can be checked.                            *)
EXTENDS Connection

\* The numbers that a connection or a message still has, by their order: a new
\* one is another than these, and steps only compare them for equality.
InUse == (UNION {{conn[e].sn, conn[e].other} : e \in Ends} \cup {m.sn : m \in net}) \ {0}
Rank(sn) == Cardinality({k \in InUse : k <= sn})

\* The state without the history, which nothing reads but the properties that
\* are not about liveness.  hasSent matters while data may still be sent.
WithoutHistory ==
  <<[e \in Ends |-> [conn[e] EXCEPT !.sn = Rank(@), !.other = Rank(@), !.byApp = FALSE,
                                    !.hasSent = @ /\ bursts < MaxBursts]],
    {[m EXCEPT !.sn = Rank(@)] : m \in net}, attempts, forgets, duplicates, bursts>>
=============================================================================

---------------------------- MODULE MessageSets ----------------------------
(***************************************************************************)
(* EmiReceiverBuffer::DisjointMessageSets: which parts of split messages   *)
(* have been received.  A part that is not the last of its message is put  *)
(* in one set with the number that follows it, so a set is a run of parts, *)
(* and perhaps the number that comes next.  What the root of a set keeps   *)
(* is kept with the set here: whether the first and the last part of the   *)
(* message are in it, its smallest and largest part, and the size of its   *)
(* parts, where the size of a part is one.  How the code finds the set of  *)
(* a number (parents, ranks, path compression) is left out.                *)
(***************************************************************************)
EXTENDS Integers, FiniteSetsExt

Part == [data : Nat, first : BOOLEAN, last : BOOLEAN]
Unsplit(part) == part.first /\ part.last

MessageSet == [members : SUBSET Nat, hasFirst : BOOLEAN, hasLast : BOOLEAN,
               firstMessage : Nat, lastMessage : Nat, size : Nat]

\* Whether number sn is in a set, and in which: find() without creating one.
InSet(sets, sn) == \E s \in sets : sn \in s.members
SetOf(sets, sn) == CHOOSE s \in sets : sn \in s.members

\* The set that part number sn makes of those it joins: find() and merge(),
\* then the end of gotMessage().  The mutant forgets the flags of the sets.
JoinedFlagless(joined, sn, part) ==
  [members |-> UNION {s.members : s \in joined}
                 \cup (IF part.last THEN {sn} ELSE {sn, sn + 1}),
   hasFirst |-> part.first,
   hasLast  |-> part.last,
   firstMessage |-> Min({sn} \cup {s.firstMessage : s \in joined}),
   lastMessage  |-> Max({sn} \cup {s.lastMessage : s \in joined}),
   size |-> 1 + MapThenSumSet(LAMBDA s : s.size, joined)]
Joined(joined, sn, part) ==
  [members |-> UNION {s.members : s \in joined}
                 \cup (IF part.last THEN {sn} ELSE {sn, sn + 1}),
   hasFirst |-> part.first \/ \E s \in joined : s.hasFirst,
   hasLast  |-> part.last \/ \E s \in joined : s.hasLast,
   firstMessage |-> Min({sn} \cup {s.firstMessage : s \in joined}),
   lastMessage  |-> Max({sn} \cup {s.lastMessage : s \in joined}),
   size |-> 1 + MapThenSumSet(LAMBDA s : s.size, joined)]

\* gotMessage(); a message of one part is not kept.
GotMessage(sets, sn, part) ==
  LET joined == {s \in sets : sn \in s.members \/ (~part.last /\ sn + 1 \in s.members)}
  IN  IF Unsplit(part) THEN sets ELSE (sets \ joined) \cup {Joined(joined, sn, part)}

\* getMessageData(), of a split part: whether its message is whole.
Complete(sets, sn) == SetOf(sets, sn).hasFirst /\ SetOf(sets, sn).hasLast

\* getLastSequenceNumberInSet() and getFirstSequenceNumberInSet(); the mutant
\* does not look for the set.
FirstInSetItself(sets, sn) == sn
LastInSet(sets, sn)  == IF InSet(sets, sn) THEN SetOf(sets, sn).lastMessage ELSE sn
FirstInSet(sets, sn) == IF InSet(sets, sn) THEN SetOf(sets, sn).firstMessage ELSE sn

\* removeMessageAndOlderMessages(), and what it asserts of its argument.  (No
\* set has numbers on both sides: what is removed ends with the last part of a
\* message.)
IsRemovable(sets, sn) == InSet(sets, sn) => Complete(sets, sn)
RemoveMessageAndOlder(sets, sn) ==
  {s \in sets : \A m \in s.members : m > LastInSet(sets, sn)}
=============================================================================

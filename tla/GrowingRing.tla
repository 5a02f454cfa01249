------------------------------ MODULE GrowingRing ------------------------------
(***************************************************************************)
(* What PennChord promises while nodes only join, without its messages and *)
(* threads: two pointers per member, which name members from the moment    *)
(* the node is one, and which only ever move closer.  Each step changes    *)
(* the pointers of one node and needs nothing but what is true of the      *)
(* pointers at that moment, however old the messages that brought it about. *)
(***************************************************************************)
EXTENDS ChordKeys

CONSTANTS Node, Hash, Nil

VARIABLES
  next,     \* the member each member takes to come after it
  prev      \* the one it takes to come before it, or Nil

pointers == <<next, prev>>

Member == {n \in Node : next[n] # Nil}

RingInit ==
  /\ next = [n \in Node |-> Nil]
  /\ prev = [n \in Node |-> Nil]

(* n starts a ring.                                                        *)
Found(n) ==
  /\ n \notin Member
  /\ next' = [next EXCEPT ![n] = n]
  /\ UNCHANGED prev

(* n becomes a member in front of another one.                             *)
Enter(n, p) ==
  /\ n \notin Member /\ p \in Member
  /\ next' = [next EXCEPT ![n] = p]
  /\ UNCHANGED prev

(* n learns of a member between itself and its next.                       *)
FindNext(n, p) ==
  /\ {n, p} \subseteq Member
  /\ Distance(Hash[n], Hash[p]) < Distance(Hash[n], Hash[next[n]])
  /\ next' = [next EXCEPT ![n] = p]
  /\ UNCHANGED prev

(* n learns of another member p, its first or between its previous one and *)
(* itself.  A node that was alone takes p for its next one as well.        *)
FindPrevious(n, p) ==
  /\ {n, p} \subseteq Member /\ p # n
  /\ \/ prev[n] = Nil
     \/ Distance(Hash[p], Hash[n]) < Distance(Hash[prev[n]], Hash[n])
  /\ prev' = [prev EXCEPT ![n] = p]
  /\ next' = [next EXCEPT ![n] = IF @ = n THEN p ELSE @]

RingNext ==
  \E n \in Node :
    \/ Found(n)
    \/ \E p \in Node : Enter(n, p) \/ FindNext(n, p) \/ FindPrevious(n, p)

RingSpec == RingInit /\ [][RingNext]_pointers
=============================================================================

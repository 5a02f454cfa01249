------------------------ MODULE PennChordProperties ------------------------
(***************************************************************************)
(* What the ring of PennChord promises: to users who only JOIN, to users   *)
(* who LEAVE as well, and, where it does not keep a promise of a comment,  *)
(* the formula the code refutes.                                           *)
(***************************************************************************)
EXTENDS PennChord

Members == {n \in Node : inRing[n]}

(* The members that can be reached from x over successors, x included: they *)
(* are in every set that contains x and is closed under successor.         *)
Closed(S) == \A p \in S \cap Members : successor[p] \in S

ReachedFrom(x) ==
  {p \in Members : \A S \in SUBSET NodeOrNil : x \in S /\ Closed(S) => p \in S}

OnCycle == {n \in Members : n \in ReachedFrom(successor[n])}

(* The members next to x clockwise and counterclockwise, x itself last.    *)
FirstAfter(x) == CHOOSE p \in Members : \A q \in Members :
                   Distance(x, Hash[p]) <= Distance(x, Hash[q])
LastBefore(x) == CHOOSE p \in Members : \A q \in Members :
                   Distance(Hash[p], x) <= Distance(Hash[q], x)

(* The member responsible for the identifier id.                           *)
Owner(id) == IF \E p \in Members : Hash[p] = id
             THEN CHOOSE p \in Members : Hash[p] = id
             ELSE FirstAfter(id)

IdealRing ==
  /\ \A n \in Node : process[n] = "up" => inRing[n]
  /\ \A n \in Members :
       /\ successor[n] = FirstAfter(Hash[n])
       /\ predecessor[n] = IF Members = {n} THEN Nil ELSE LastBefore(Hash[n])

(***************************************************************************)
(* A later start: the nodes of S form a ring at rest, a state Spec reaches.*)
(* They have joined, stabilised and notified, no finger is fixed yet; or   *)
(* one node has founded it, and nobody joined.                             *)
(***************************************************************************)
SettledRing(S) ==
  /\ todo = Commands
  /\ inRing = [n \in Node |-> n \in S]
  /\ process = [n \in Node |-> IF n \in S THEN "up" ELSE "fresh"]
  /\ isSingleton = [n \in Node |-> S = {n}]
  /\ haveNotifiedOnce = [n \in Node |-> n \in S /\ S # {n}]
  /\ tryingToJoin = [n \in Node |-> FALSE]
  /\ successor = [n \in Node |-> IF n \in S THEN FirstAfter(Hash[n]) ELSE Nil]
  /\ predecessor = [n \in Node |-> IF n \in S /\ S # {n} THEN LastBefore(Hash[n]) ELSE Nil]
  /\ successorIP = [n \in Node |-> IF n \in S THEN successor[n] ELSE AnyIP]
  /\ predecessorIP = [n \in Node |-> IF S = {n} THEN n ELSE
                                     IF n \in S THEN predecessor[n] ELSE AnyIP]
  /\ fixingFingers = [n \in Node |-> FALSE]
  /\ fingerTable = [n \in Node |-> [i \in Finger |-> Nil]]
  /\ nextFinger = [n \in Node |-> 0]
  /\ fixer = [n \in Node |-> "idle"] /\ fixTarget = [n \in Node |-> 0]
  /\ receiver = [n \in Node |-> "idle"]
  /\ network = EmptyBag

-----------------------------------------------------------------------------
(* Users who JOIN once and wait for it: no LEAVE, no second JOIN.          *)

(* No process ends by an uncaught exception (map.at(-1), stoi("")) or by   *)
(* the exit(1) of sendTo.                                                  *)
NoCrash == \A n \in Node : process[n] # "crashed"

(* A node never accepts a NOTIFY of its own: it would stop stabilising     *)
(* (penn-chord.cpp:364) and refuse every later notifier (:440).            *)
NotOwnPredecessor == \A n \in Node : predecessor[n] # n

(* Whatever pointer, finger or message names a node, that node has         *)
(* completed its JOIN; and a member always has a successor.  So no handler *)
(* of a joining node runs on the fields its JOIN has yet to fill in.       *)
OnlyMembersAreKnown ==
  /\ \A n \in Node :
       /\ successor[n] \in (IF inRing[n] THEN Members ELSE {Nil})
       /\ predecessor[n] \in (IF inRing[n] THEN Members ELSE {}) \cup {Nil}
       /\ \A i \in Finger : fingerTable[n][i] \in Members \cup {Nil}
  /\ \A m \in Messages :
       /\ m.type # "FIND_PRED_RSP" => m.dst \in Members
       /\ m.type = "FIND_PRED_RSP" => m.successor \in Members
       /\ m.type = "STABILIZE_RSP" => m.predecessor \in Members \cup {Nil}
       /\ m.type \in {"NOTIFY", "STABILIZE_REQ"} => m.src \in Members

(* The successors of the members form one ring in the order of their       *)
(* hashes, and whoever is not on it yet has a path into it: concurrent     *)
(* joins and stabilisations neither split the ring nor make it skip back.  *)
OneOrderedRing ==
  LET cycle == OnCycle IN
  Members # {} =>
    /\ cycle # {}
    /\ \A n, p \in cycle : ~ InOpenArc(Hash[n], Hash[p], Hash[successor[n]])
    /\ \A n \in Members : ReachedFrom(n) \cap cycle # {}

(* isSingleton, which answers every lookup at once and keeps FixFingers    *)
(* idle, is on exactly at a member that is its own successor, and such a   *)
(* member has no predecessor, so its first NOTIFY is accepted.             *)
SingletonIsAlone ==
  \A n \in Node :
    /\ isSingleton[n] <=> (inRing[n] /\ successor[n] = n)
    /\ isSingleton[n] => predecessor[n] = Nil

(* Once set, a successor is only replaced by a closer one, whatever stale  *)
(* STABILIZE_RSP or NOTIFY arrives.                                        *)
SuccessorGetsCloser ==
  [][\A n \in Node :
       successor[n] \in Node /\ successor'[n] # successor[n] =>
         /\ successor'[n] \in Node
         /\ Distance(Hash[n], Hash[successor'[n]])
              < Distance(Hash[n], Hash[successor[n]])]_vars

(* The same of predecessors: a late NOTIFY of a farther node is ignored.   *)
PredecessorGetsCloser ==
  [][\A n \in Node :
       predecessor[n] \in Node /\ predecessor'[n] # predecessor[n] =>
         /\ predecessor'[n] \in Node
         /\ Distance(Hash[predecessor'[n]], Hash[n])
              < Distance(Hash[predecessor[n]], Hash[n])]_vars

(* Every JOIN completes, and once the users stop typing the ring settles   *)
(* on the true successors and predecessors (Stabilize, Notify).            *)
Converges == <>[]IdealRing

(* A RING_STATE is back at its originator some day, even if it was sent    *)
(* before the originator was linked into the ring.                         *)
RingWalkEnds ==
  \A n \in Node :
    LET walking == \E m \in Messages : m.type = "RING_STATE" /\ m.origin = n
    IN  walking ~> ~walking

(* The abstract ring, with the pointers of PennChord for its own.          *)
Ring == INSTANCE GrowingRing WITH next <- successor, prev <- predecessor

(* All the messages, threads and flags of the code amount to steps of that *)
(* ring: a JOIN lets a node in in one step, in front of a member; a pointer *)
(* moves only to a member, only closer, and one node's at a time; and a    *)
(* node alone gets both its pointers at once.                              *)
ImplementsGrowingRing == Ring!RingSpec

(***************************************************************************)
(* Why the above holds: what is true of each node and of each message, in  *)
(* every state, while users only CREATE, JOIN, look up and walk the ring.  *)
(***************************************************************************)
OnlyJoins ==
  /\ \A n \in Node : Commands[n] \cap {"LEAVE", "REJOIN"} = {}
  /\ Impatient = {}

JoinNode(n) ==
  /\ todo[n] \cap {"LEAVE", "REJOIN"} = {}
  /\ process[n] \in {"fresh", "up"}
  /\ process[n] = "fresh" => ~inRing[n] /\ ~tryingToJoin[n]
  /\ tryingToJoin[n] => ~inRing[n]
  /\ receiver[n] = "notify" => inRing[n] /\ successor[n] # n
  /\ fixer[n] # "idle" => inRing[n]
  /\ successor[n] \in IF inRing[n] THEN Members ELSE {Nil}
  /\ predecessor[n] \in (IF inRing[n] THEN Members \ {n} ELSE {}) \cup {Nil}
  /\ \A i \in Finger : fingerTable[n][i] \in Members \cup {Nil}
  /\ inRing[n] => successorIP[n] = successor[n]
  /\ isSingleton[n] <=> (inRing[n] /\ successor[n] = n)
  /\ isSingleton[n] => predecessor[n] = Nil

JoinMessage(m) ==
  /\ m.type \notin {"LEAVE_P", "LEAVE_S"}
  /\ m.type # "FIND_PRED_RSP" => m.dst \in Members
  /\ m.type = "FIND_PRED_RSP" => m.successor \in Members
  /\ m.type = "STABILIZE_RSP" => /\ m.predecessor \in Members \cup {Nil}
                                 /\ successor[m.dst] # m.dst
  /\ m.type = "STABILIZE_REQ" => m.src \in Members /\ successor[m.src] # m.src
  /\ m.type = "NOTIFY" => m.src \in Members /\ m.src # m.dst

(* The inductive invariant of a ring that only grows: no half-joined node  *)
(* is known to anyone, and no stabilisation is under way at a node that is *)
(* its own successor, so no node ever gets a NOTIFY of its own (:421).     *)
JoinInv ==
  /\ TypeOK
  /\ \A n \in Node : JoinNode(n)
  /\ \A m \in Messages : JoinMessage(m)

(* Only one user types CREATE.                                             *)
OneFounder ==
  \A n, p \in Node : "CREATE" \in Commands[n] \cap Commands[p] => n = p

Founder == CHOOSE n \in Node : "CREATE" \in Commands[n]

(* Seen from x, the node p is not past the founder.                        *)
UpToFounder(x, p) ==
  Distance(Hash[x], Hash[p]) <= Distance(Hash[x], Hash[Founder])

(* No successor skips the founder, and a node that joins is not told one   *)
(* that does; so all successors lead to the founder, and the ring is the   *)
(* way from the founder back to it.                                        *)
RingInv ==
  /\ JoinInv
  /\ \A n \in Node : todo[n] \subseteq Commands[n]
  /\ Members # {} => Founder \in Members
  /\ \A n \in Members : UpToFounder(n, successor[n])
  /\ \A m \in Messages :
       /\ m.type = "FIND_PRED_REQ" =>
            inRing[m.origin] \/ m.target = Hash[m.origin]
       /\ m.type = "FIND_PRED_RSP" =>
            inRing[m.dst] \/ UpToFounder(m.dst, m.successor)

-----------------------------------------------------------------------------
(* Lookups.                                                                *)

(* A node that forwards a FIND_PRED_REQ sends it strictly closer to its    *)
(* target: no lookup visits a forwarding node twice, in any state of the   *)
(* ring, stale fingers included.                                           *)
ForwardsGetCloser ==
  \A m \in Messages :
    m.type = "FIND_PRED_REQ" /\ m.src # m.origin =>
      Distance(Hash[m.dst], m.target) < Distance(Hash[m.src], m.target)

(* In a settled ring a FIND_PRED_REQ is answered with the owner of its     *)
(* target, by whichever node answers and however stale its fingers are.    *)
LookupsFindOwner ==
  [][IdealRing =>
       \A m \in Messages' \ Messages :
         m.type = "FIND_PRED_RSP" => m.successor = Owner(m.target)]_vars

(* A node's queries do not pile up: each is answered.                      *)
LookupsAreAnswered == \A n \in Node : []<>(Lookups(n) = 0)

(* As long as each query is answered before the next one is sent, the      *)
(* fingers of a node that keeps fixing them end up at the owners of their  *)
(* starts.  (Where queries overtake each other, a response is stored under *)
(* whatever finger is next, :532, and no finger need ever be right.)       *)
FingersSettle ==
  <>[](\A n \in Members : MaxLookups[n] = 1 /\ Cardinality(Members) > 1 =>
         \A i \in Finger :
           \E s \in FingerStarts(Hash[n], i) : fingerTable[n][i] = Owner(s))

-----------------------------------------------------------------------------
(* Users who LEAVE as well.                                                *)

(* A JOIN was typed a second time.                                         *)
Rejoined == \E n \in Node : "REJOIN" \in Commands[n] \ todo[n]

(* The message a step has handled is for, or names, a process that has     *)
(* ended: connect is refused (transmit.cpp:39).                            *)
Refused(n, m) ==
  \/ m.src = n /\ Ended(m.dst)
  \/ /\ m.type = "FIND_PRED_RSP" /\ m.query \in Query
     /\ m.dst = n /\ m.successor \in Node /\ Ended(m.successor)

(* It says that a node with no predecessor left, or one with no successor, *)
(* whose user did not wait for the JOIN.                                   *)
ToldNothing(n, m) ==
  /\ m.dst = n
  /\ \/ m.type = "LEAVE_S" /\ m.predecessor = Nil
     \/ m.type = "LEAVE_P" /\ m.successor = Nil /\ n \in Impatient

(* As long as JOIN is typed once, a process is brought down by one of      *)
(* three things only: a connection to a process that has ended; a LEAVE    *)
(* that has no neighbour to name (map.at of "-1" throws, :684); a lookup   *)
(* typed before the JOIN was complete (:474).  However many nodes join and *)
(* leave together, whatever rings they found, split or are left with: no   *)
(* handler, no finger and no stale message makes any other lookup or       *)
(* address one of "-1", though a node that becomes singleton keeps its     *)
(* fingers (:330).                                                         *)
CrashNeedsCause ==
  [][\A n \in Node : process[n] # "crashed" /\ process'[n] = "crashed" =>
       \/ \E m \in Messages : Consume(m) /\ (Refused(n, m) \/ ToldNothing(n, m))
       \/ n \in Impatient /\ successor[n] = Nil
       \/ Rejoined]_vars

(* The addresses messages are sent to are those of the nodes the fields    *)
(* name, in all the handlers that change one or the other.                 *)
AddressesAgree ==
  \A n \in Members :
    /\ successorIP[n] = successor[n]
    /\ predecessor[n] # Nil => predecessorIP[n] = predecessor[n]

(* A member whose Stabilize has nothing to do though it has a predecessor: *)
(* it is its own successor or its own predecessor.                         *)
Deaf(n) == inRing[n] /\ predecessor[n] # Nil /\ n \in {successor[n], predecessor[n]}

(* After LEAVEs among stabilisations the remaining ring settles again,     *)
(* unless a process crashed or a member went deaf: there is no other way   *)
(* for the ring to stay broken.                                            *)
HealsOrFails == <>[](IdealRing \/ \E n \in Node : process[n] = "crashed" \/ Deaf(n))

(***************************************************************************)
(* Why nothing else brings a process down: what is true of each node and   *)
(* of each message until a JOIN is typed a second time, whoever joins,     *)
(* leaves, exits or crashes.                                               *)
(***************************************************************************)

(* The nodes that have a successor: members, and those that were.          *)
Linked == {n \in Node : successor[n] # Nil}

LinkedNode(n) ==
  /\ todo[n] \subseteq Commands[n]
  /\ process[n] = "fresh" => n \notin Linked
  /\ \/ inRing[n] \/ isSingleton[n] \/ predecessor[n] # Nil
     \/ fixer[n] # "idle" \/ receiver[n] = "notify"
     => n \in Linked
  /\ n \in Linked => successorIP[n] = successor[n]
  /\ IF predecessor[n] = Nil THEN HostAt(n, predecessorIP[n]) = n
                             ELSE predecessorIP[n] = predecessor[n]
  /\ {successor[n], predecessor[n]} \subseteq Linked \cup {Nil}
  /\ \A i \in Finger : fingerTable[n][i] \in Linked \cup {Nil}

LinkedMessage(m) ==
  /\ m.type \notin {"FIND_PRED_RSP", "RING_STATE", "LEAVE_P", "LEAVE_S"} => m.dst \in Linked
  /\ m.type \in {"NOTIFY", "STABILIZE_REQ"} => m.src \in Linked
  /\ m.type = "FIND_PRED_RSP" => m.successor \in Linked
  /\ m.type \in {"STABILIZE_RSP", "LEAVE_S"} => m.predecessor \in Linked \cup {Nil}
  /\ m.type = "LEAVE_S" => m.dst \in Linked \/ m.predecessor = Nil
  /\ m.type = "LEAVE_P" =>
       m.successor \in Linked \/ (m.successor = Nil /\ m.dst \in Impatient)

(* Inductive until JOIN is typed a second time: whatever names a node,     *)
(* that node has a successor, which it never loses.                        *)
LinkedInv ==
  /\ TypeOK
  /\ \A n \in Node : LinkedNode(n)
  /\ \A m \in Messages : LinkedMessage(m)

-----------------------------------------------------------------------------
(* A promise of a comment that the code does not keep.                     *)

(* "Time for other clients to realize the leave before ending TCP          *)
(* connection" (:257): when the process ends, no other node points at it.  *)
LeaveIsRealized ==
  \A n, p \in Node : process[n] = "exited" /\ process[p] = "up" =>
    n \notin {successor[p], predecessor[p]}
=============================================================================

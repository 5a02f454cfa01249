------------------------------ MODULE PennChord ------------------------------
(***************************************************************************)
(* The ring maintenance and lookup protocol of src/src/penn-chord.cpp, one *)
(* process per node.  A process runs five threads over one PennChord       *)
(* object guarded by one mutex:                                            *)
(*                                                                         *)
(*   CommandLine   CreateRing, Join, Lookup, RingState, Leave, Exit        *)
(*   Stabilize     Stabilize, once a second                                *)
(*   FixFingers    FixFingers, ReadFinger, FindSuccessor, ten times a      *)
(*                 second                                                  *)
(*   Receive       the Process* handlers, one message at a time, and Notify*)
(*                                                                         *)
(* (the fifth belongs to PennSearch).  Each critical section is an action, *)
(* together with the message sent after the unlock: a message waits in     *)
(* "network" for an arbitrary time, which covers the gap between unlock    *)
(* and connect.                                                            *)
(*                                                                         *)
(* Every message has a TCP connection of its own, so messages overtake     *)
(* each other; none is duplicated.  Connecting to a process that has       *)
(* ended makes sendTo call exit(1): see Unreachable.                       *)
(***************************************************************************)
EXTENDS ChordKeys, Bags, FiniteSetsExt

CONSTANTS
  Node,          \* the entries of m_nodeAddressMap
  Hash,          \* CreateShaKey of each node number
  Nil,           \* the node number "-1"
  AnyIP,         \* the address 0.0.0.0 of a default Ipv4Address
  Commands,      \* what the user of each node is going to type
  Impatient,     \* the nodes whose user does not wait for a pending JOIN
  Keys,          \* the identifiers PennSearch looks up
  MaxExchanges,  \* bound: stabilisations a node has outstanding
  MaxLookups     \* bound: finger queries and lookups a node has outstanding

CommandName == {"CREATE", "JOIN", "REJOIN", "LEAVE", "RINGSTATE"}
Query       == {"search", "publish"}     \* SEARCH_QUERY, PUBLISH_QUERY

ASSUME DistinctHashes ==
  /\ Hash \in [Node -> Id]
  /\ \A p, q \in Node : Hash[p] = Hash[q] => p = q
ASSUME SentinelsAreNoNodes == Nil \notin Node /\ AnyIP \notin Node /\ Nil # AnyIP
ASSUME UserInput ==
  /\ Commands \in [Node -> SUBSET CommandName]
  /\ Impatient \subseteq Node
  /\ Keys \subseteq Id
ASSUME Bounds == MaxExchanges \in Nat /\ MaxLookups \in [Node -> Nat]

VARIABLES
  todo,              \* the commands each user has yet to type
  process,           \* the life of each process, see TypeOK
  successor,         \* successorNumber; successorHash is HashOf of it
  predecessor,       \* predecessorNumber; likewise
  successorIP,
  predecessorIP,
  isSingleton,
  inRing,
  tryingToJoin,
  haveNotifiedOnce,
  fixingFingers,
  fingerTable,
  nextFinger,
  fixer,             \* where the FixFingers thread is
  fixTarget,         \* the argument it passes to FindSuccessor
  receiver,          \* where the Receive thread is
  network            \* the messages in flight, a bag

commandLine == <<todo, process>>
ring        == <<successor, predecessor, successorIP, predecessorIP>>
flags       == <<isSingleton, inRing, tryingToJoin, haveNotifiedOnce>>
fingers     == <<fixingFingers, fingerTable, nextFinger>>
fixThread   == <<fixer, fixTarget>>
vars        == <<commandLine, ring, flags, fingers, fixThread, receiver, network>>

NodeOrNil == Node \cup {Nil}
Address   == Node \cup {AnyIP}

(* Before its first JOIN; running; in Leave; in the seven seconds after it; *)
(* ended by exit(0); ended by an exception or by exit(1).                  *)
Life == {"fresh", "up", "leaving", "left", "exited", "crashed"}

Message ==
       [type : {"NOTIFY", "STABILIZE_REQ"}, src : Node, dst : Node]
  \cup [type : {"STABILIZE_RSP", "LEAVE_S"}, src : Node, dst : Node,
        predecessor : NodeOrNil]
  \cup [type : {"LEAVE_P"}, src : Node, dst : Node, successor : NodeOrNil]
  \cup [type : {"RING_STATE"}, src : Node, dst : Node, origin : Node]
  \cup [type : {"FIND_PRED_REQ"}, src : Node, dst : Node, origin : Node,
        target : Id, query : Query \cup {"none"}]
  \cup [type : {"FIND_PRED_RSP"}, src : Node, dst : Node,
        successor : NodeOrNil, target : Id, query : Query \cup {"none"}]

TypeOK ==
  /\ todo             \in [Node -> SUBSET CommandName]
  /\ process          \in [Node -> Life]
  /\ successor        \in [Node -> NodeOrNil]
  /\ predecessor      \in [Node -> NodeOrNil]
  /\ successorIP      \in [Node -> Address]
  /\ predecessorIP    \in [Node -> Address]
  /\ isSingleton      \in [Node -> BOOLEAN]
  /\ inRing           \in [Node -> BOOLEAN]
  /\ tryingToJoin     \in [Node -> BOOLEAN]
  /\ haveNotifiedOnce \in [Node -> BOOLEAN]
  /\ fixingFingers    \in [Node -> BOOLEAN]
  /\ fingerTable      \in [Node -> [Finger -> NodeOrNil]]
  /\ nextFinger       \in [Node -> Finger]
  /\ fixer            \in [Node -> {"idle", "read", "find"}]
  /\ fixTarget        \in [Node -> Id]
  /\ receiver         \in [Node -> {"idle", "notify"}]
  /\ DOMAIN network \subseteq Message

(***************************************************************************)
(* The numbers, hashes and nextFinger of an object are uninitialised or    *)
(* empty before its first JOIN.  Nothing reads them: Stabilize and         *)
(* FixFingers test inRing, which starts FALSE, and a node that has not     *)
(* joined is in nobody's pointers, so the values chosen here do not matter.*)
(***************************************************************************)
Init ==
  /\ todo = Commands
  /\ process = [n \in Node |-> "fresh"]
  /\ successor = [n \in Node |-> Nil]
  /\ predecessor = [n \in Node |-> Nil]
  /\ successorIP = [n \in Node |-> AnyIP]
  /\ predecessorIP = [n \in Node |-> AnyIP]
  /\ isSingleton = [n \in Node |-> FALSE]
  /\ inRing = [n \in Node |-> FALSE]
  /\ tryingToJoin = [n \in Node |-> FALSE]
  /\ haveNotifiedOnce = [n \in Node |-> FALSE]
  /\ fixingFingers = [n \in Node |-> FALSE]
  /\ fingerTable = [n \in Node |-> [i \in Finger |-> Nil]]
  /\ nextFinger = [n \in Node |-> 0]
  /\ fixer = [n \in Node |-> "idle"]
  /\ fixTarget = [n \in Node |-> 0]
  /\ receiver = [n \in Node |-> "idle"]
  /\ network = EmptyBag

-----------------------------------------------------------------------------
(* Helpers.                                                                *)

BagOps == INSTANCE BagsExt

HashOf(p) == IF p = Nil THEN NilHash ELSE Hash[p]

(* Where a connection from n to the address ip arrives: 0.0.0.0 is n.      *)
HostAt(n, ip) == IF ip = AnyIP THEN n ELSE ip

Messages == DOMAIN network
Send(m) == network' = BagOps!BagAdd(network, m)
Consume(m) == network' = BagOps!BagRemove(network, m)
Reply(m, r) == network' = BagOps!BagAdd(BagOps!BagRemove(network, m), r)
InFlight(M) == Cardinality(UNION {{m} \X (1 .. network[m]) : m \in M})

Running(n) == process[n] \in {"up", "leaving", "left"}
Ended(n)   == process[n] \in {"exited", "crashed"}

(* An exception leaves a thread, or sendTo fails: the process ends.        *)
Crash(n) == process' = [process EXCEPT ![n] = "crashed"]

(* Mutant: the way round is over the predecessor.                          *)
ClosestOrPredecessor(n, id) ==
  LET preceding == {i \in Finger :
        /\ fingerTable[n][i] # Nil
        /\ FingerPrecedes(Hash[n], HashOf(fingerTable[n][i]), id)} IN
  IF preceding # {} THEN fingerTable[n][Max(preceding)]
  ELSE IF isSingleton[n] THEN n ELSE predecessor[n]

(* The finger of n closest before id, or n's successor.                    *)
ClosestPrecedingNode(n, id) ==
  LET preceding == {i \in Finger :
        /\ fingerTable[n][i] # Nil
        /\ FingerPrecedes(Hash[n], HashOf(fingerTable[n][i]), id)} IN
  IF preceding # {} THEN fingerTable[n][Max(preceding)]
  ELSE IF isSingleton[n] THEN n ELSE successor[n]

(* What is taken for granted of users, not a test of the code: one types   *)
(* on once the JOIN has been answered, or does not care.                   *)
UserReady(n) == n \in Impatient \/ inRing[n]

Exchanges(n) ==
  (IF receiver[n] = "notify" THEN 1 ELSE 0)
  + InFlight({m \in Messages : \/ m.type = "STABILIZE_REQ" /\ m.src = n
                               \/ m.type = "STABILIZE_RSP" /\ m.dst = n
                               \/ m.type = "NOTIFY" /\ m.src = n})

Lookups(n) ==
  InFlight({m \in Messages : \/ m.type = "FIND_PRED_REQ" /\ m.origin = n
                             \/ m.type = "FIND_PRED_RSP" /\ m.dst = n})

-----------------------------------------------------------------------------
(* CommandLine thread.                                                     *)

Typed(n, c) == c \in todo[n] /\ todo' = [todo EXCEPT ![n] = @ \ {c}]

(* JOIN of the node's own number; also as a second JOIN (REJOIN) by a      *)
(* process that is up, in whatever ring it is.                             *)
CreateRing(n) ==
  /\ \/ process[n] = "fresh" /\ Typed(n, "CREATE")
     \/ process[n] = "up" /\ Typed(n, "REJOIN")
  /\ process' = [process EXCEPT ![n] = "up"]
  /\ successor' = [successor EXCEPT ![n] = n]
  /\ successorIP' = [successorIP EXCEPT ![n] = n]
  /\ predecessor' = [predecessor EXCEPT ![n] = Nil]
  /\ predecessorIP' = [predecessorIP EXCEPT ![n] = n]
  /\ nextFinger' = [nextFinger EXCEPT ![n] = 0]
  /\ fingerTable' = [fingerTable EXCEPT ![n] = [i \in Finger |-> Nil]]
  /\ inRing' = [inRing EXCEPT ![n] = TRUE]
  /\ isSingleton' = [isSingleton EXCEPT ![n] = TRUE]
  /\ UNCHANGED <<tryingToJoin, haveNotifiedOnce, fixingFingers, fixThread,
                 receiver, network>>

(***************************************************************************)
(* JOIN c, where c is "already in Chord ring" (README).  The second time   *)
(* JOIN is typed (REJOIN) inRing, isSingleton and both addresses are those   *)
(* of the ring the node was in.                                            *)
(***************************************************************************)
Join(n, c) ==
  /\ c # n /\ process[c] = "up" /\ inRing[c]
  /\ \/ process[n] = "fresh" /\ Typed(n, "JOIN")
     \/ process[n] = "up" /\ Typed(n, "REJOIN")
  /\ process' = [process EXCEPT ![n] = "up"]
  /\ predecessor' = [predecessor EXCEPT ![n] = Nil]
  /\ successor' = [successor EXCEPT ![n] = Nil]
  /\ nextFinger' = [nextFinger EXCEPT ![n] = 0]
  /\ fingerTable' = [fingerTable EXCEPT ![n] = [i \in Finger |-> Nil]]
  /\ tryingToJoin' = [tryingToJoin EXCEPT ![n] = TRUE]
  /\ Send([type |-> "FIND_PRED_REQ", src |-> n, dst |-> c, origin |-> n,
           target |-> Hash[n], query |-> "none"])
  /\ UNCHANGED <<successorIP, predecessorIP, isSingleton, inRing,
                 haveNotifiedOnce, fixingFingers, fixThread, receiver>>

(* Called by PennSearch for each term of a PUBLISH or SEARCH.              *)
Lookup(n, id, query) ==
  /\ LET next == ClosestPrecedingNode(n, id) IN
     IF next = Nil THEN Crash(n) /\ UNCHANGED network
     ELSE /\ Send([type |-> "FIND_PRED_REQ", src |-> n, dst |-> next,
                   origin |-> n, target |-> id, query |-> query])
          /\ UNCHANGED process
  /\ UNCHANGED <<todo, ring, flags, fingers, fixThread, receiver>>

(* A lookup of anything, by a user whose node is in the ring.  (Module     *)
(* PennSearch has the lookups its users and its handlers really make.)     *)
LookupAnything(n) ==
  /\ process[n] = "up" /\ UserReady(n)
  /\ Lookups(n) < MaxLookups[n]
  /\ \E id \in Keys, query \in Query : Lookup(n, id, query)

RingState(n) ==
  /\ process[n] = "up" /\ UserReady(n)
  /\ Typed(n, "RINGSTATE")
  /\ Send([type |-> "RING_STATE", src |-> n, dst |-> HostAt(n, successorIP[n]),
           origin |-> n])
  /\ UNCHANGED <<process, ring, flags, fingers, fixThread, receiver>>

(* Mutant: the messages to the two neighbours are mixed up.                *)
LeaveNamesPredecessor(n) ==
  /\ process[n] = "up" /\ UserReady(n)
  /\ Typed(n, "LEAVE")
  /\ process' = [process EXCEPT ![n] = "leaving"]
  /\ inRing' = [inRing EXCEPT ![n] = FALSE]
  /\ Send([type |-> "LEAVE_P", src |-> n, dst |-> HostAt(n, predecessorIP[n]),
           successor |-> predecessor[n]])
  /\ UNCHANGED <<ring, isSingleton, tryingToJoin, haveNotifiedOnce, fingers,
                 fixThread, receiver>>

(* Leave, first critical section: tell the predecessor.                    *)
Leave(n) ==
  /\ process[n] = "up" /\ UserReady(n)
  /\ Typed(n, "LEAVE")
  /\ process' = [process EXCEPT ![n] = "leaving"]
  /\ inRing' = [inRing EXCEPT ![n] = FALSE]
  /\ Send([type |-> "LEAVE_P", src |-> n, dst |-> HostAt(n, predecessorIP[n]),
           successor |-> successor[n]])
  /\ UNCHANGED <<ring, isSingleton, tryingToJoin, haveNotifiedOnce, fingers,
                 fixThread, receiver>>

(* Leave, second critical section: tell the successor.                     *)
LeaveSuccessor(n) ==
  /\ process[n] = "leaving"
  /\ process' = [process EXCEPT ![n] = "left"]
  /\ Send([type |-> "LEAVE_S", src |-> n, dst |-> HostAt(n, successorIP[n]),
           predecessor |-> predecessor[n]])
  /\ UNCHANGED <<todo, ring, flags, fingers, fixThread, receiver>>

(***************************************************************************)
(* exit(0), seven seconds later: "Time for other clients to realize the    *)
(* leave".  Seven seconds are taken to be enough for every message that    *)
(* concerns n and is in flight to be delivered.                            *)
(***************************************************************************)
Concerns(m, n) ==
  \/ n \in {m.src, m.dst}
  \/ m.type = "FIND_PRED_REQ" /\ m.origin = n
  \/ m.type = "FIND_PRED_RSP" /\ m.successor = n
  \/ m.type = "STABILIZE_RSP" /\ m.predecessor = n

Exit(n) ==
  /\ process[n] = "left"
  /\ receiver[n] = "idle" /\ fixer[n] = "idle"
  /\ \A m \in Messages : ~ Concerns(m, n)
  /\ process' = [process EXCEPT ![n] = "exited"]
  /\ UNCHANGED <<todo, ring, flags, fingers, fixThread, receiver, network>>

-----------------------------------------------------------------------------
(* FixFingers thread.                                                      *)

(* Every 100 ms, whatever is outstanding; Lookups(n) is bounded to keep the *)
(* number of states finite.                                                *)
FixFingers(n) ==
  /\ Running(n) /\ fixer[n] = "idle"
  /\ inRing[n] /\ ~isSingleton[n] /\ haveNotifiedOnce[n]
  /\ Lookups(n) < MaxLookups[n]
  /\ fixingFingers' = [fixingFingers EXCEPT ![n] = TRUE]
  /\ fixer' = [fixer EXCEPT ![n] = "read"]
  /\ UNCHANGED <<commandLine, ring, flags, fingerTable, nextFinger, fixTarget,
                 receiver, network>>

(* nextFinger is read outside the lock.                                    *)
ReadFinger(n) ==
  /\ Running(n) /\ fixer[n] = "read"
  /\ \E start \in FingerStarts(Hash[n], nextFinger[n]) :
       fixTarget' = [fixTarget EXCEPT ![n] = start]
  /\ fixer' = [fixer EXCEPT ![n] = "find"]
  /\ UNCHANGED <<commandLine, ring, flags, fingers, receiver, network>>

FindSuccessor(n) ==
  /\ Running(n) /\ fixer[n] = "find"
  /\ fixingFingers' = [fixingFingers EXCEPT ![n] = TRUE]
  /\ LET next == ClosestPrecedingNode(n, fixTarget[n]) IN
     IF next = Nil THEN Crash(n) /\ UNCHANGED network
     ELSE /\ Send([type |-> "FIND_PRED_REQ", src |-> n, dst |-> next,
                   origin |-> n, target |-> fixTarget[n], query |-> "none"])
          /\ UNCHANGED process
  /\ fixer' = [fixer EXCEPT ![n] = "idle"]
  /\ fixTarget' = [fixTarget EXCEPT ![n] = 0]
  /\ UNCHANGED <<todo, ring, flags, fingerTable, nextFinger, receiver>>

-----------------------------------------------------------------------------
(* Stabilize thread.                                                       *)

(* Mutants: a node alone stabilises as well; a node that has not joined    *)
(* does.                                                                   *)
StabilizesAlone(n) == inRing[n] /\ predecessor[n] # n
StabilizesEarly(n) == successor[n] # n /\ predecessor[n] # n

Stabilizes(n) == inRing[n] /\ successor[n] # n /\ predecessor[n] # n

Stabilize(n) ==
  /\ Running(n) /\ Stabilizes(n)
  /\ Exchanges(n) < MaxExchanges
  /\ tryingToJoin' = [tryingToJoin EXCEPT ![n] = FALSE]
  /\ Send([type |-> "STABILIZE_REQ", src |-> n,
           dst |-> HostAt(n, successorIP[n])])
  /\ UNCHANGED <<commandLine, ring, isSingleton, inRing, haveNotifiedOnce,
                 fingers, fixThread, receiver>>

-----------------------------------------------------------------------------
(* Receive thread.                                                         *)

Receive(n, m, type) ==
  /\ Running(n) /\ receiver[n] = "idle"
  /\ m.type = type /\ m.dst = n

ProcessStabilizeReq(n, m) ==
  /\ Receive(n, m, "STABILIZE_REQ")
  /\ Reply(m, [type |-> "STABILIZE_RSP", src |-> n, dst |-> m.src,
               predecessor |-> predecessor[n]])
  /\ UNCHANGED <<commandLine, ring, flags, fingers, fixThread, receiver>>

Adopts(n, p) ==
  p # Nil /\ BetterSuccessor(Hash[n], HashOf(successor[n]), HashOf(p))

(* Adopt the successor's predecessor if it is closer; Notify comes next.   *)
ProcessStabilizeRsp(n, m) ==
  /\ Receive(n, m, "STABILIZE_RSP")
  /\ IF Adopts(n, m.predecessor)
     THEN /\ successor' = [successor EXCEPT ![n] = m.predecessor]
          /\ successorIP' = [successorIP EXCEPT ![n] = m.predecessor]
     ELSE UNCHANGED <<successor, successorIP>>
  /\ receiver' = [receiver EXCEPT ![n] = "notify"]
  /\ Consume(m)
  /\ UNCHANGED <<commandLine, predecessor, predecessorIP, flags, fingers,
                 fixThread>>

Notify(n) ==
  /\ Running(n) /\ receiver[n] = "notify"
  /\ haveNotifiedOnce' = [haveNotifiedOnce EXCEPT ![n] = TRUE]
  /\ Send([type |-> "NOTIFY", src |-> n, dst |-> HostAt(n, successorIP[n])])
  /\ receiver' = [receiver EXCEPT ![n] = "idle"]
  /\ UNCHANGED <<commandLine, ring, isSingleton, inRing, tryingToJoin, fingers,
                 fixThread>>

(* Mutants: any notifier is accepted; only the first one is.               *)
AcceptsAll(n, p) == TRUE
AcceptsFirst(n, p) == predecessor[n] = Nil

AcceptsNotify(n, p) ==
  \/ predecessor[n] = Nil
  \/ NotifierInRange(HashOf(predecessor[n]), Hash[n], Hash[p])

(* A singleton's first predecessor becomes its successor as well.          *)
ProcessNotify(n, m) ==
  /\ Receive(n, m, "NOTIFY")
  /\ IF AcceptsNotify(n, m.src)
     THEN /\ predecessor' = [predecessor EXCEPT ![n] = m.src]
          /\ predecessorIP' = [predecessorIP EXCEPT ![n] = m.src]
          /\ IF isSingleton[n]
             THEN /\ successor' = [successor EXCEPT ![n] = m.src]
                  /\ successorIP' = [successorIP EXCEPT ![n] = m.src]
             ELSE UNCHANGED <<successor, successorIP>>
          /\ isSingleton' = [isSingleton EXCEPT ![n] = FALSE]
     ELSE UNCHANGED <<ring, isSingleton>>
  /\ Consume(m)
  /\ UNCHANGED <<commandLine, inRing, tryingToJoin, haveNotifiedOnce, fingers,
                 fixThread, receiver>>

(***************************************************************************)
(* The response carries neither the query it answers nor a finger index:   *)
(* unless it is for PennSearch, flags decide what it is taken for.  (The   *)
(* target of a response with the query "none" is there for the properties; *)
(* no handler looks at it.)                                                *)
(***************************************************************************)
SearchCallback(n, m) ==
  /\ m.query \in Query
  /\ IF \/ m.successor = Nil /\ m.query = "publish"
        \/ m.successor \in Node /\ Ended(m.successor)
     THEN Crash(n) ELSE UNCHANGED process
  /\ UNCHANGED <<ring, flags, fingers>>

TakeAsJoin(n, m) ==
  /\ m.query = "none" /\ tryingToJoin[n]
  /\ successor' = [successor EXCEPT ![n] = m.successor]
  /\ IF m.successor = Nil
     THEN Crash(n) /\ UNCHANGED <<successorIP, tryingToJoin, inRing>>
     ELSE /\ successorIP' = [successorIP EXCEPT ![n] = m.successor]
          /\ tryingToJoin' = [tryingToJoin EXCEPT ![n] = FALSE]
          /\ inRing' = [inRing EXCEPT ![n] = TRUE]
          /\ UNCHANGED process
  /\ UNCHANGED <<predecessor, predecessorIP, isSingleton, haveNotifiedOnce,
                 fingers>>

(* Mutants: the index does not wrap; it does not move.                     *)
FingerPastLast(i) == i + 1
SameFinger(i)     == i

FingerAfter(i) == (i + 1) % Bits

TakeAsFinger(n, m) ==
  /\ m.query = "none" /\ ~tryingToJoin[n] /\ fixingFingers[n]
  /\ fingerTable' = [fingerTable EXCEPT ![n][nextFinger[n]] = m.successor]
  /\ fixingFingers' = [fixingFingers EXCEPT ![n] = FALSE]
  /\ nextFinger' = [nextFinger EXCEPT ![n] = FingerAfter(@)]
  /\ UNCHANGED <<process, ring, flags>>

IgnoreResponse(n, m) ==
  /\ m.query = "none" /\ ~tryingToJoin[n] /\ ~fixingFingers[n]
  /\ UNCHANGED <<process, ring, flags, fingers>>

ProcessFindPredRsp(n, m) ==
  /\ Receive(n, m, "FIND_PRED_RSP")
  /\ \/ SearchCallback(n, m)
     \/ TakeAsJoin(n, m)
     \/ TakeAsFinger(n, m)
     \/ IgnoreResponse(n, m)
  /\ Consume(m)
  /\ UNCHANGED <<todo, fixThread, receiver>>

Answers(n, id) ==
  isSingleton[n] \/ OwnsTarget(Hash[n], HashOf(successor[n]), id)

AnswerFindPred(n, m) ==
  /\ Answers(n, m.target)
  /\ Reply(m, [type |-> "FIND_PRED_RSP", src |-> n, dst |-> m.origin,
               successor |-> successor[n], target |-> m.target,
               query |-> m.query])
  /\ UNCHANGED process

ForwardFindPred(n, m) ==
  /\ ~Answers(n, m.target)
  /\ LET next == ClosestPrecedingNode(n, m.target) IN
     IF next = Nil THEN Crash(n) /\ Consume(m)
     ELSE Reply(m, [m EXCEPT !.src = n, !.dst = next]) /\ UNCHANGED process

ProcessFindPredReq(n, m) ==
  /\ Receive(n, m, "FIND_PRED_REQ")
  /\ AnswerFindPred(n, m) \/ ForwardFindPred(n, m)
  /\ UNCHANGED <<todo, ring, flags, fingers, fixThread, receiver>>

(* Mutants: the address of the new successor is not taken over; the leave  *)
(* is not acted upon.                                                      *)
ProcessLeavePNumberOnly(n, m) ==
  /\ Receive(n, m, "LEAVE_P")
  /\ IF m.successor = Nil
     THEN Crash(n) /\ UNCHANGED <<successor, isSingleton>>
     ELSE /\ successor' = [successor EXCEPT ![n] = m.successor]
          /\ isSingleton' = [isSingleton EXCEPT ![n] = @ \/ m.successor = n]
          /\ UNCHANGED process
  /\ Consume(m)
  /\ UNCHANGED <<todo, successorIP, predecessor, predecessorIP, inRing,
                 tryingToJoin, haveNotifiedOnce, fingers, fixThread, receiver>>

ProcessLeavePIgnored(n, m) ==
  /\ Receive(n, m, "LEAVE_P")
  /\ Consume(m)
  /\ UNCHANGED <<commandLine, ring, flags, fingers, fixThread, receiver>>

(* "your successor left the ring"                                          *)
ProcessLeaveP(n, m) ==
  /\ Receive(n, m, "LEAVE_P")
  /\ IF m.successor = Nil
     THEN Crash(n) /\ UNCHANGED <<successor, successorIP, isSingleton>>
     ELSE /\ successor' = [successor EXCEPT ![n] = m.successor]
          /\ successorIP' = [successorIP EXCEPT ![n] = m.successor]
          /\ isSingleton' = [isSingleton EXCEPT ![n] = @ \/ m.successor = n]
          /\ UNCHANGED process
  /\ Consume(m)
  /\ UNCHANGED <<todo, predecessor, predecessorIP, inRing, tryingToJoin,
                 haveNotifiedOnce, fingers, fixThread, receiver>>

(* Mutant: the leaver's predecessor is not taken over.                     *)
AlwaysAlone(n, m) == TRUE

LeftAlone(n, m) == m.predecessor = n

(* "your predecessor left the ring"                                        *)
ProcessLeaveS(n, m) ==
  /\ Receive(n, m, "LEAVE_S")
  /\ IF m.predecessor = Nil
     THEN Crash(n) /\ UNCHANGED <<predecessor, predecessorIP>>
     ELSE /\ predecessor' = [predecessor EXCEPT
                               ![n] = IF LeftAlone(n, m) THEN Nil ELSE m.predecessor]
          /\ predecessorIP' = [predecessorIP EXCEPT
                                 ![n] = IF LeftAlone(n, m) THEN AnyIP
                                              ELSE m.predecessor]
          /\ UNCHANGED process
  /\ Consume(m)
  /\ UNCHANGED <<todo, successor, successorIP, flags, fingers, fixThread,
                 receiver>>

(* Mutant: the walk ends where the node sent to itself.                    *)
BackAtSender(n, m) == m.src = n

BackAtOrigin(n, m) == m.origin = n

(* A RING_STATE goes on until it is back at its originator.                *)
ProcessRingState(n, m) ==
  /\ Receive(n, m, "RING_STATE")
  /\ IF BackAtOrigin(n, m) THEN Consume(m)
     ELSE Reply(m, [m EXCEPT !.src = n, !.dst = HostAt(n, successorIP[n])])
  /\ UNCHANGED <<commandLine, ring, flags, fingers, fixThread, receiver>>

ProcessMessage(n, m) ==
  \/ ProcessRingState(n, m)    \/ ProcessFindPredRsp(n, m)
  \/ ProcessFindPredReq(n, m)  \/ ProcessLeaveP(n, m)
  \/ ProcessLeaveS(n, m)       \/ ProcessNotify(n, m)
  \/ ProcessStabilizeReq(n, m) \/ ProcessStabilizeRsp(n, m)

(***************************************************************************)
(* A message for a process that has ended: connect is refused and sendTo   *)
(* makes the sender exit(1).  If the process crashed, the connection may   *)
(* have been in its backlog already, and the message is lost.              *)
(***************************************************************************)
Unreachable(m) ==
  /\ Ended(m.dst)
  /\ Consume(m)
  /\ \/ Running(m.src) /\ Crash(m.src)
     \/ (process[m.dst] = "crashed" \/ ~ Running(m.src)) /\ UNCHANGED process
  /\ UNCHANGED <<todo, ring, flags, fingers, fixThread, receiver>>

-----------------------------------------------------------------------------
UserStep(n) ==
  \/ CreateRing(n) \/ RingState(n) \/ Leave(n) \/ LookupAnything(n)
  \/ \E c \in Node : Join(n, c)

TimerStep(n) == Stabilize(n) \/ FixFingers(n)

Next ==
  \/ \E n \in Node :
       \/ UserStep(n) \/ TimerStep(n)
       \/ LeaveSuccessor(n) \/ Exit(n)
       \/ ReadFinger(n) \/ FindSuccessor(n) \/ Notify(n)
  \/ \E m \in Messages :
       ProcessMessage(m.dst, m) \/ Unreachable(m)

Spec == Init /\ [][Next]_vars

(***************************************************************************)
(* The threads run; what users type is up to them.  Connections queue in   *)
(* the listen backlog in the order they were made, so no message is passed *)
(* over for ever by later ones: time and again none of a given type waits  *)
(* between two given nodes.  (That is implied by the order of the backlog  *)
(* as long as at most one such message is in flight, as it is in the runs  *)
(* that check liveness.)                                                   *)
(***************************************************************************)
MessageTypes == {"NOTIFY", "STABILIZE_REQ", "STABILIZE_RSP", "LEAVE_S", "LEAVE_P",
                 "RING_STATE", "FIND_PRED_REQ", "FIND_PRED_RSP"}

Waiting(p, n, type) == \E m \in Messages : m.type = type /\ m.src = p /\ m.dst = n

EveryMessageArrives ==
  \A p, n \in Node, type \in MessageTypes : []<> ~Waiting(p, n, type)

Fairness ==
  /\ \A n \in Node :
       /\ WF_vars(Stabilize(n))
       /\ WF_vars(FixFingers(n))
       /\ WF_vars(ReadFinger(n) \/ FindSuccessor(n))
       /\ WF_vars(Notify(n))
       /\ WF_vars(LeaveSuccessor(n)) /\ SF_vars(Exit(n))
  /\ EveryMessageArrives

FairSpec == Spec /\ Fairness
=============================================================================

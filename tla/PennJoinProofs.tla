--------------------------- MODULE PennJoinProofs ---------------------------
(***************************************************************************)
(* Safety of a ring that only grows: theorems for users who CREATE, JOIN,  *)
(* look up and walk the ring but do not LEAVE or JOIN twice, for any       *)
(* number of nodes, any hashes and any interleaving.                       *)
(***************************************************************************)
EXTENDS PennChordProofs

(* What no step does to a node other than the one it runs at.              *)
Untouched(p) ==
  /\ todo'[p] = todo[p] /\ process'[p] = process[p]
  /\ successor'[p] = successor[p] /\ predecessor'[p] = predecessor[p]
  /\ successorIP'[p] = successorIP[p] /\ isSingleton'[p] = isSingleton[p]
  /\ inRing'[p] = inRing[p] /\ tryingToJoin'[p] = tryingToJoin[p]
  /\ fingerTable'[p] = fingerTable[p]
  /\ fixer'[p] = fixer[p] /\ receiver'[p] = receiver[p]

(* What a step never does to the node it runs at: make a member leave, or  *)
(* make it its own successor again.                                        *)
Advances(n) ==
  /\ inRing[n] => inRing'[n]
  /\ inRing[n] /\ successor[n] # n => successor'[n] # n

(* Such a step leaves the invariant true of the other nodes and of the     *)
(* messages in flight.                                                     *)
LEMMA JoinFrame ==
  ASSUME JoinInv, NEW n \in Node, Advances(n),
         \A p \in Node \ {n} : Untouched(p)
  PROVE  /\ Members \subseteq Members'
         /\ \A p \in Node \ {n} : JoinNode(p)'
         /\ \A m \in Messages : JoinMessage(m)'
<1>1. Members \subseteq Members'
  BY DEF Members, Advances, Untouched
<1>2. ASSUME NEW p \in Node \ {n} PROVE JoinNode(p)'
  <2>1. JoinNode(p) /\ Untouched(p)
    BY DEF JoinInv
  <2> QED BY <1>1, <2>1 DEF JoinNode, Untouched
<1>3. ASSUME NEW m \in Messages PROVE JoinMessage(m)'
  <2>1. JoinMessage(m)
    BY DEF JoinInv
  <2>2. \A p \in Members : successor[p] # p => successor'[p] # p
    BY DEF Members, Advances, Untouched
  <2>3. m.type = "STABILIZE_RSP" => m.dst \in Members
    BY <2>1 DEF JoinMessage
  <2> QED BY <1>1, <2>1, <2>2, <2>3 DEF JoinMessage
<1> QED BY <1>1, <1>2, <1>3

(* What is left to show of a step.                                         *)
LEMMA JoinStep ==
  ASSUME JoinInv, TypeOK', NEW n \in Node, Advances(n),
         \A p \in Node \ {n} : Untouched(p),
         Members \subseteq Members' => JoinNode(n)',
         NEW r, Messages' \subseteq Messages \cup {r},
         Members \subseteq Members' => JoinMessage(r)'
  PROVE  JoinInv'
<1>1. Members \subseteq Members' /\ \A m \in Messages : JoinMessage(m)'
  BY JoinFrame
<1>2. \A p \in Node \ {n} : JoinNode(p)'
  BY JoinFrame
<1>3. \A p \in Node : JoinNode(p)'
  BY <1>1, <1>2
<1>4. \A m \in Messages' : JoinMessage(m)'
  BY <1>1
<1> QED BY <1>3, <1>4 DEF JoinInv

LEMMA JoinStepSilent ==
  ASSUME JoinInv, TypeOK', NEW n \in Node, Advances(n),
         \A p \in Node \ {n} : Untouched(p),
         Members \subseteq Members' => JoinNode(n)',
         Messages' \subseteq Messages
  PROVE  JoinInv'
<1>1. Members \subseteq Members' /\ \A m \in Messages : JoinMessage(m)'
  BY JoinFrame
<1>2. \A p \in Node \ {n} : JoinNode(p)'
  BY JoinFrame
<1>3. \A p \in Node : JoinNode(p)'
  BY <1>1, <1>2
<1>4. \A m \in Messages' : JoinMessage(m)'
  BY <1>1
<1> QED BY <1>3, <1>4 DEF JoinInv

(* ClosestPrecedingNode of a member is a member.                           *)
LEMMA ClosestIsMember ==
  ASSUME JoinInv, NEW n \in Members, NEW id \in Id
  PROVE  ClosestPrecedingNode(n, id) \in Members
<1> DEFINE S == {i \in Finger :
                   /\ fingerTable[n][i] # Nil
                   /\ FingerPrecedes(Hash[n], HashOf(fingerTable[n][i]), id)}
<1>1. n \in Node /\ inRing[n] /\ JoinNode(n)
  BY DEF Members, JoinInv
<1>2. CASE S # {}
  <2>1. Max(S) \in S
    <3>1. S \in SUBSET Finger
      OBVIOUS
    <3> HIDE DEF S
    <3> QED BY <3>1, <1>2, HighestFinger
  <2>2. ClosestPrecedingNode(n, id) = fingerTable[n][Max(S)]
    BY <1>2 DEF ClosestPrecedingNode
  <2> QED BY <2>1, <2>2, <1>1 DEF JoinNode
<1>3. CASE S = {}
  <2>1. ClosestPrecedingNode(n, id) = IF isSingleton[n] THEN n ELSE successor[n]
    BY <1>3 DEF ClosestPrecedingNode
  <2> QED BY <2>1, <1>1 DEF JoinNode
<1> QED BY <1>2, <1>3

LEMMA NilIsNoNode == \A n \in Node : n # Nil /\ n # AnyIP
BY SentinelsAreNoNodes

(* A lookup that starts at a member.                                       *)
LEMMA JoinLookup ==
  ASSUME JoinInv, TypeOK', NEW n \in Node, NEW id \in Id, NEW query \in Query,
         ClosestPrecedingNode(n, id) \in Members, Lookup(n, id, query)
  PROVE  JoinInv'
<1> DEFINE next == ClosestPrecedingNode(n, id)
<1>1. JoinNode(n) /\ TypeOK
  BY DEF JoinInv
<1>2. next \in Members /\ next # Nil
  BY NilIsNoNode DEF Members
<1>3. UNCHANGED process
  BY <1>2 DEF Lookup
<1>4. Advances(n) /\ (\A p \in Node \ {n} : Untouched(p)) /\ Untouched(n)
  BY <1>3 DEF Lookup, Advances, Untouched, ring, flags, fingers, fixThread
<1>5. Members \subseteq Members' => JoinNode(n)'
  BY <1>1, <1>4 DEF JoinNode, Untouched
<1>6. PICK r : r = [type |-> "FIND_PRED_REQ", src |-> n, dst |-> next,
                    origin |-> n, target |-> id, query |-> query]
  OBVIOUS
<1>7. Messages' \subseteq Messages \cup {r}
  BY <1>2, <1>6, SendAdds DEF Lookup
<1>8. Members \subseteq Members' => JoinMessage(r)'
  <2>1. r.type = "FIND_PRED_REQ" /\ r.dst \in Members
    <3> HIDE DEF next
    <3> QED BY <1>2, <1>6
  <2> QED BY <2>1 DEF JoinMessage
<1> QED BY <1>1, <1>4, <1>5, <1>7, <1>8, JoinStep

LEMMA JoinUser ==
  ASSUME OnlyJoins, JoinInv, TypeOK', NEW n \in Node, UserStep(n)
  PROVE  JoinInv'
<1>0. JoinNode(n) /\ TypeOK
  BY DEF JoinInv
<1>1. CASE CreateRing(n)
  <2>1. Advances(n) /\ \A p \in Node \ {n} : Untouched(p)
    BY <1>0, <1>1 DEF CreateRing, Typed, Advances, Untouched, JoinNode, TypeOK, fixThread
  <2>2. /\ process'[n] = "up" /\ successor'[n] = n /\ successorIP'[n] = n
        /\ predecessor'[n] = Nil /\ inRing'[n] /\ isSingleton'[n]
        /\ todo'[n] \subseteq todo[n] /\ tryingToJoin'[n] = tryingToJoin[n]
        /\ \A i \in Finger : fingerTable'[n][i] = Nil
        /\ fixer'[n] = fixer[n] /\ receiver'[n] = receiver[n]
    BY <1>0, <1>1 DEF CreateRing, Typed, TypeOK, fixThread
  <2>3. process[n] = "fresh"
    BY <1>0, <1>1 DEF CreateRing, Typed, JoinNode
  <2>4. JoinNode(n)'
    BY <1>0, <2>2, <2>3 DEF JoinNode, Members
  <2>5. Messages' \subseteq Messages
    BY <1>1 DEF CreateRing, Messages
  <2> QED BY <2>1, <2>4, <2>5, JoinStepSilent
<1>2. ASSUME NEW c \in Node, Join(n, c) PROVE JoinInv'
  <2> DEFINE m == [type |-> "FIND_PRED_REQ", src |-> n, dst |-> c, origin |-> n,
                   target |-> Hash[n], query |-> "none"]
  <2>1. process[n] = "fresh"
    BY <1>0, <1>2 DEF Join, Typed, JoinNode
  <2>2. Advances(n) /\ \A p \in Node \ {n} : Untouched(p)
    BY <1>0, <1>2, <2>1 DEF Join, Typed, Advances, Untouched, JoinNode, TypeOK, fixThread
  <2>3. /\ process'[n] = "up" /\ successor'[n] = Nil /\ predecessor'[n] = Nil
        /\ inRing'[n] = inRing[n] /\ isSingleton'[n] = isSingleton[n]
        /\ todo'[n] \subseteq todo[n]
        /\ \A i \in Finger : fingerTable'[n][i] = Nil
        /\ fixer'[n] = fixer[n] /\ receiver'[n] = receiver[n]
    BY <1>0, <1>2 DEF Join, Typed, TypeOK, fixThread
  <2>4. JoinNode(n)'
    BY <1>0, <2>1, <2>3 DEF JoinNode
  <2>5. Messages' \subseteq Messages \cup {m}
    BY <1>2, SendAdds DEF Join
  <2>6. Members \subseteq Members' => JoinMessage(m)'
    BY <1>2 DEF Join, Members, JoinMessage
  <2> HIDE DEF m
  <2> QED BY <2>2, <2>4, <2>5, <2>6, JoinStep
<1>3. ASSUME NEW id \in Keys, NEW query \in Query, UserReady(n),
             Lookup(n, id, query)
      PROVE  JoinInv'
  <2>1. n \in Members /\ id \in Id
    BY <1>3, UserInput DEF UserReady, OnlyJoins, Members
  <2> QED BY <1>3, <2>1, ClosestIsMember, JoinLookup
<1>4. CASE RingState(n)
  <2>0. PICK r : r = [type |-> "RING_STATE", src |-> n,
                      dst |-> HostAt(n, successorIP[n]), origin |-> n]
    OBVIOUS
  <2>1. inRing[n]
    BY <1>4 DEF RingState, UserReady, OnlyJoins
  <2>2. HostAt(n, successorIP[n]) \in Members
    BY <1>0, <2>1, NilIsNoNode DEF JoinNode, HostAt, Members
  <2>3. Advances(n) /\ \A p \in Node \ {n} : Untouched(p)
    BY <1>0, <1>4 DEF RingState, Typed, Advances, Untouched, ring, flags, fingers,
                      fixThread, TypeOK
  <2>4. todo'[n] \subseteq todo[n]
    BY <1>0, <1>4 DEF RingState, Typed, TypeOK
  <2>5. Members \subseteq Members' => JoinNode(n)'
    BY <1>0, <1>4, <2>4 DEF RingState, JoinNode, ring, flags, fingers, fixThread
  <2>6. Messages' \subseteq Messages \cup {r}
    BY <1>4, <2>0, SendAdds DEF RingState
  <2>7. Members \subseteq Members' => JoinMessage(r)'
    BY <2>0, <2>2 DEF JoinMessage
  <2> QED BY <2>3, <2>5, <2>6, <2>7, JoinStep
<1>5. CASE Leave(n)
  BY <1>0, <1>5 DEF Leave, Typed, JoinNode
<1> QED BY <1>1, <1>2, <1>3, <1>4, <1>5 DEF UserStep, LookupAnything

LEMMA JoinThreads ==
  ASSUME JoinInv, TypeOK', NEW n \in Node,
         \/ TimerStep(n) \/ LeaveSuccessor(n) \/ Exit(n)
         \/ ReadFinger(n) \/ FindSuccessor(n) \/ Notify(n)
  PROVE  JoinInv'
<1>0. JoinNode(n) /\ TypeOK
  BY DEF JoinInv
<1>1. CASE FixFingers(n) \/ ReadFinger(n)
  <2>1. Advances(n) /\ \A p \in Node \ {n} : Untouched(p)
    BY <1>0, <1>1 DEF FixFingers, ReadFinger, Advances, Untouched, commandLine,
                      ring, flags, fingers, TypeOK
  <2>2. inRing[n]
    BY <1>0, <1>1 DEF FixFingers, ReadFinger, JoinNode
  <2>3. Members \subseteq Members' => JoinNode(n)'
    BY <1>0, <1>1, <2>2 DEF FixFingers, ReadFinger, JoinNode, commandLine, ring,
                            flags, fingers
  <2>4. Messages' \subseteq Messages
    BY <1>1 DEF FixFingers, ReadFinger, Messages
  <2> QED BY <2>1, <2>3, <2>4, JoinStepSilent
<1>2. CASE FindSuccessor(n)
  <2> DEFINE next == ClosestPrecedingNode(n, fixTarget[n])
  <2>1. n \in Members /\ fixTarget[n] \in Id
    BY <1>0, <1>2 DEF FindSuccessor, JoinNode, Members, TypeOK
  <2>2. next \in Members /\ next # Nil
    BY <2>1, ClosestIsMember, NilIsNoNode DEF Members
  <2>3. UNCHANGED process
    BY <1>2, <2>2 DEF FindSuccessor
  <2>4. Advances(n) /\ \A p \in Node \ {n} : Untouched(p)
    BY <1>0, <1>2, <2>3 DEF FindSuccessor, Advances, Untouched, ring, flags, TypeOK
  <2>5. Members \subseteq Members' => JoinNode(n)'
    <3>1. fixer'[n] = "idle"
      BY <1>0, <1>2 DEF FindSuccessor, TypeOK
    <3> QED BY <1>0, <1>2, <2>3, <3>1 DEF FindSuccessor, JoinNode, ring, flags
  <2>6. PICK r : r = [type |-> "FIND_PRED_REQ", src |-> n, dst |-> next,
                      origin |-> n, target |-> fixTarget[n], query |-> "none"]
    OBVIOUS
  <2>7. Messages' \subseteq Messages \cup {r}
    BY <1>2, <2>2, <2>6, SendAdds DEF FindSuccessor
  <2>8. Members \subseteq Members' => JoinMessage(r)'
    <3>1. r.type = "FIND_PRED_REQ" /\ r.dst \in Members
      <4> HIDE DEF next
      <4> QED BY <2>2, <2>6
    <3> QED BY <3>1 DEF JoinMessage
  <2> QED BY <2>4, <2>5, <2>7, <2>8, JoinStep
<1>3. CASE Stabilize(n)
  <2>1. inRing[n] /\ successor[n] # n /\ successor[n] \in Members
    BY <1>0, <1>3 DEF Stabilize, Stabilizes, JoinNode
  <2>2. HostAt(n, successorIP[n]) = successor[n]
    BY <1>0, <2>1, NilIsNoNode DEF JoinNode, HostAt, Members
  <2>3. Advances(n) /\ \A p \in Node \ {n} : Untouched(p)
    BY <1>0, <1>3 DEF Stabilize, Advances, Untouched, commandLine, ring, fingers,
                      fixThread, TypeOK
  <2>4. Members \subseteq Members' => JoinNode(n)'
    BY <1>0, <1>3, <2>1 DEF Stabilize, JoinNode, commandLine, ring, fingers,
                            fixThread, TypeOK
  <2>5. PICK r : r = [type |-> "STABILIZE_REQ", src |-> n,
                      dst |-> HostAt(n, successorIP[n])]
    OBVIOUS
  <2>6. Messages' \subseteq Messages \cup {r}
    BY <1>3, <2>5, SendAdds DEF Stabilize
  <2>7. UNCHANGED <<successor, inRing>>
    BY <1>3 DEF Stabilize, ring
  <2>8. Members \subseteq Members' => JoinMessage(r)'
    BY <2>1, <2>2, <2>5, <2>7 DEF JoinMessage, Members
  <2> QED BY <2>3, <2>4, <2>6, <2>8, JoinStep
<1>4. CASE Notify(n)
  <2>1. inRing[n] /\ successor[n] # n /\ successor[n] \in Members
    BY <1>0, <1>4 DEF Notify, JoinNode
  <2>2. HostAt(n, successorIP[n]) = successor[n]
    BY <1>0, <2>1, NilIsNoNode DEF JoinNode, HostAt, Members
  <2>3. Advances(n) /\ \A p \in Node \ {n} : Untouched(p)
    BY <1>0, <1>4 DEF Notify, Advances, Untouched, commandLine, ring, fingers,
                      fixThread, TypeOK
  <2>4. Members \subseteq Members' => JoinNode(n)'
    BY <1>0, <1>4, <2>1 DEF Notify, JoinNode, commandLine, ring, fingers,
                            fixThread, TypeOK
  <2>5. PICK r : r = [type |-> "NOTIFY", src |-> n, dst |-> HostAt(n, successorIP[n])]
    OBVIOUS
  <2>6. Messages' \subseteq Messages \cup {r}
    BY <1>4, <2>5, SendAdds DEF Notify
  <2>7. UNCHANGED inRing
    BY <1>4 DEF Notify
  <2>8. Members \subseteq Members' => JoinMessage(r)'
    BY <2>1, <2>2, <2>5, <2>7 DEF JoinMessage, Members
  <2> QED BY <2>3, <2>4, <2>6, <2>8, JoinStep
<1>5. CASE LeaveSuccessor(n) \/ Exit(n)
  BY <1>0, <1>5 DEF LeaveSuccessor, Exit, JoinNode
<1> QED BY <1>1, <1>2, <1>3, <1>4, <1>5 DEF TimerStep

LEMMA JoinStabilization ==
  ASSUME JoinInv, TypeOK', NEW n \in Node, NEW m \in Messages,
         \/ ProcessStabilizeReq(n, m) \/ ProcessStabilizeRsp(n, m)
         \/ ProcessNotify(n, m)
  PROVE  JoinInv'
<1>0. JoinNode(n) /\ TypeOK /\ JoinMessage(m) /\ m \in Message
  BY DEF JoinInv, TypeOK, Messages
<1>1. CASE ProcessStabilizeReq(n, m)
  <2>1. inRing[n] /\ m.src \in Members /\ successor[m.src] # m.src
    BY <1>0, <1>1 DEF ProcessStabilizeReq, Receive, JoinMessage, Members
  <2>2. Advances(n) /\ \A p \in Node : Untouched(p)
    BY <1>1 DEF ProcessStabilizeReq, Advances, Untouched, commandLine, ring, flags,
                fingers, fixThread
  <2>3. Members \subseteq Members' => JoinNode(n)'
    BY <1>0, <2>2 DEF JoinNode, Untouched
  <2>4. PICK r : r = [type |-> "STABILIZE_RSP", src |-> n, dst |-> m.src,
                      predecessor |-> predecessor[n]]
    OBVIOUS
  <2>5. Messages' \subseteq Messages \cup {r}
    BY <1>1, <2>4, ReplyAdds DEF ProcessStabilizeReq
  <2>6. predecessor[n] \in Members \cup {Nil}
    BY <1>0, <2>1 DEF JoinNode
  <2>7. UNCHANGED <<successor, inRing>>
    BY <1>1 DEF ProcessStabilizeReq, ring, flags
  <2>8. Members \subseteq Members' => JoinMessage(r)'
    BY <2>1, <2>4, <2>6, <2>7 DEF JoinMessage, Members
  <2> QED BY <2>2, <2>3, <2>5, <2>8, JoinStep
<1>2. CASE ProcessStabilizeRsp(n, m)
  <2>1. /\ inRing[n] /\ successor[n] # n /\ successor[n] \in Members
        /\ m.predecessor \in Members \cup {Nil}
    BY <1>0, <1>2 DEF ProcessStabilizeRsp, Receive, JoinMessage, JoinNode, Members
  <2>2. \/ successor'[n] = successor[n] /\ successorIP'[n] = successorIP[n]
        \/ /\ m.predecessor # Nil
           /\ BetterSuccessor(Hash[n], HashOf(successor[n]), HashOf(m.predecessor))
           /\ successor'[n] = m.predecessor /\ successorIP'[n] = m.predecessor
    BY <1>0, <1>2 DEF ProcessStabilizeRsp, Adopts, TypeOK
  <2>3. /\ successor'[n] # n /\ successor'[n] \in Members
        /\ successorIP'[n] = successor'[n]
    <3>1. m.predecessor # Nil /\ m.predecessor = n
          => ~ BetterSuccessor(Hash[n], HashOf(successor[n]), HashOf(m.predecessor))
      <4> SUFFICES ~ BetterSuccessor(Hash[n], HashOf(successor[n]), Hash[n])
        BY NilIsNoNode DEF HashOf
      <4>1. Hash[n] \in Id /\ HashOf(successor[n]) \in Id
        BY <2>1, HashType, HashOfType DEF Members, NodeOrNil
      <4> QED BY <4>1 DEF BetterSuccessor, Id
    <3> QED BY <1>0, <2>1, <2>2, <3>1 DEF JoinNode
  <2>4. Advances(n) /\ \A p \in Node \ {n} : Untouched(p)
    BY <1>0, <1>2, <2>3 DEF ProcessStabilizeRsp, Advances, Untouched, commandLine,
                            flags, fingers, fixThread, TypeOK
  <2>5. Members \subseteq Members' => JoinNode(n)'
    BY <1>0, <1>2, <2>1, <2>3 DEF ProcessStabilizeRsp, JoinNode, commandLine, flags,
                                  fingers, fixThread, TypeOK
  <2>6. Messages' \subseteq Messages
    BY <1>2, ConsumeRemoves DEF ProcessStabilizeRsp
  <2> QED BY <2>4, <2>5, <2>6, JoinStepSilent
<1>3. CASE ProcessNotify(n, m)
  <2>1. inRing[n] /\ m.src \in Members /\ m.src # n
    BY <1>0, <1>3 DEF ProcessNotify, Receive, JoinMessage, Members
  <2>2. CASE AcceptsNotify(n, m.src)
    <3>1. /\ predecessor' = [predecessor EXCEPT ![n] = m.src]
          /\ isSingleton' = [isSingleton EXCEPT ![n] = FALSE]
      BY <1>3, <2>2 DEF ProcessNotify
    <3>2. IF isSingleton[n]
          THEN /\ successor' = [successor EXCEPT ![n] = m.src]
               /\ successorIP' = [successorIP EXCEPT ![n] = m.src]
          ELSE UNCHANGED <<successor, successorIP>>
      BY <1>3, <2>2 DEF ProcessNotify
    <3>3. UNCHANGED <<commandLine, inRing, tryingToJoin, fingers, fixThread, receiver>>
      BY <1>3 DEF ProcessNotify
    <3>4. /\ successor'[n] # n /\ successor'[n] \in Members
          /\ successorIP'[n] = successor'[n]
      BY <1>0, <2>1, <3>2 DEF JoinNode, TypeOK
    <3>5. Advances(n) /\ \A p \in Node \ {n} : Untouched(p)
      BY <1>0, <3>1, <3>2, <3>3, <3>4
      DEF Advances, Untouched, commandLine, fingers, fixThread, TypeOK
    <3>6. Members \subseteq Members' => JoinNode(n)'
      BY <1>0, <2>1, <3>1, <3>3, <3>4
      DEF JoinNode, commandLine, fingers, fixThread, TypeOK
    <3>7. Messages' \subseteq Messages
      BY <1>3, ConsumeRemoves DEF ProcessNotify
    <3> QED BY <3>5, <3>6, <3>7, JoinStepSilent
  <2>3. CASE ~ AcceptsNotify(n, m.src)
    <3>1. Advances(n) /\ \A p \in Node : Untouched(p)
      BY <1>3, <2>3 DEF ProcessNotify, Advances, Untouched, commandLine, ring,
                        fingers, fixThread
    <3>2. Members \subseteq Members' => JoinNode(n)'
      BY <1>0, <3>1 DEF JoinNode, Untouched
    <3>3. Messages' \subseteq Messages
      BY <1>3, ConsumeRemoves DEF ProcessNotify
    <3> QED BY <3>1, <3>2, <3>3, JoinStepSilent
  <2> QED BY <2>2, <2>3
<1> QED BY <1>1, <1>2, <1>3

LEMMA JoinLookups ==
  ASSUME JoinInv, TypeOK', NEW n \in Node, NEW m \in Messages,
         ProcessFindPredReq(n, m) \/ ProcessFindPredRsp(n, m)
  PROVE  JoinInv'
<1>0. JoinNode(n) /\ TypeOK /\ JoinMessage(m) /\ m \in Message
  BY DEF JoinInv, TypeOK, Messages
<1>1. CASE ProcessFindPredReq(n, m)
  <2>1. /\ n \in Members
        /\ m \in [type : {"FIND_PRED_REQ"}, src : Node, dst : Node, origin : Node,
                  target : Id, query : Query \cup {"none"}]
    BY <1>0, <1>1 DEF ProcessFindPredReq, Receive, JoinMessage, Message
  <2>2. CASE AnswerFindPred(n, m)
    <3>1. Advances(n) /\ \A p \in Node : Untouched(p)
      BY <1>1, <2>2 DEF ProcessFindPredReq, AnswerFindPred, Advances, Untouched, ring,
                        flags, fingers, fixThread
    <3>2. Members \subseteq Members' => JoinNode(n)'
      BY <1>0, <3>1 DEF JoinNode, Untouched
    <3>3. PICK r : r = [type |-> "FIND_PRED_RSP", src |-> n, dst |-> m.origin,
                        successor |-> successor[n], target |-> m.target,
                        query |-> m.query]
      OBVIOUS
    <3>4. Messages' \subseteq Messages \cup {r}
      BY <2>2, <3>3, ReplyAdds DEF AnswerFindPred
    <3>5. successor[n] \in Members
      BY <1>0, <2>1 DEF JoinNode, Members
    <3>6. Members \subseteq Members' => JoinMessage(r)'
      BY <3>3, <3>5 DEF JoinMessage
    <3> QED BY <3>1, <3>2, <3>4, <3>6, JoinStep
  <2>3. CASE ForwardFindPred(n, m)
    <3> DEFINE next == ClosestPrecedingNode(n, m.target)
    <3>1. next \in Members /\ next # Nil
      BY <2>1, ClosestIsMember, NilIsNoNode DEF Members
    <3>2. UNCHANGED process
      BY <2>3, <3>1 DEF ForwardFindPred
    <3>3. Advances(n) /\ \A p \in Node : Untouched(p)
      BY <1>1, <3>2 DEF ProcessFindPredReq, Advances, Untouched, ring, flags,
                        fingers, fixThread
    <3>4. Members \subseteq Members' => JoinNode(n)'
      BY <1>0, <3>3 DEF JoinNode, Untouched
    <3>5. PICK r : r = [m EXCEPT !.src = n, !.dst = next]
      OBVIOUS
    <3>6. Messages' \subseteq Messages \cup {r}
      BY <2>3, <3>1, <3>5, ReplyAdds DEF ForwardFindPred
    <3>7. r.type = "FIND_PRED_REQ" /\ r.dst \in Members
      <4> HIDE DEF next
      <4> QED BY <2>1, <3>1, <3>5
    <3>8. Members \subseteq Members' => JoinMessage(r)'
      BY <3>7 DEF JoinMessage
    <3> QED BY <3>3, <3>4, <3>6, <3>8, JoinStep
  <2> QED BY <1>1, <2>2, <2>3 DEF ProcessFindPredReq
<1>2. CASE ProcessFindPredRsp(n, m)
  <2>1. m.successor \in Members /\ m.successor # Nil /\ ~ Ended(m.successor)
    <3>1. m.successor \in Members
      BY <1>0, <1>2 DEF ProcessFindPredRsp, Receive, JoinMessage
    <3>2. JoinNode(m.successor)
      BY <3>1 DEF JoinInv, Members
    <3> QED BY <3>1, <3>2, NilIsNoNode DEF Members, JoinNode, Ended
  <2>2. Messages' \subseteq Messages
    BY <1>2, ConsumeRemoves DEF ProcessFindPredRsp
  <2>3. CASE SearchCallback(n, m) \/ IgnoreResponse(n, m)
    <3>1. Advances(n) /\ \A p \in Node : Untouched(p)
      BY <1>2, <2>1, <2>3 DEF ProcessFindPredRsp, SearchCallback, IgnoreResponse,
                              Advances, Untouched, ring, flags, fingers, fixThread
    <3>2. Members \subseteq Members' => JoinNode(n)'
      BY <1>0, <3>1 DEF JoinNode, Untouched
    <3> QED BY <2>2, <3>1, <3>2, JoinStepSilent
  <2>4. CASE TakeAsJoin(n, m)
    <3>1. tryingToJoin[n] /\ ~ inRing[n] /\ m.successor # n
      BY <1>0, <2>1, <2>4 DEF TakeAsJoin, JoinNode, Members
    <3>2. /\ successor' = [successor EXCEPT ![n] = m.successor]
          /\ successorIP' = [successorIP EXCEPT ![n] = m.successor]
          /\ tryingToJoin' = [tryingToJoin EXCEPT ![n] = FALSE]
          /\ inRing' = [inRing EXCEPT ![n] = TRUE]
          /\ UNCHANGED <<process, predecessor, isSingleton, fingers>>
      BY <2>1, <2>4 DEF TakeAsJoin
    <3>3. UNCHANGED <<todo, fixThread, receiver>>
      BY <1>2 DEF ProcessFindPredRsp
    <3>4. Advances(n) /\ \A p \in Node \ {n} : Untouched(p)
      BY <1>0, <3>1, <3>2, <3>3 DEF Advances, Untouched, fingers, fixThread, TypeOK
    <3>5. process[n] # "fresh" /\ isSingleton[n] = FALSE
      BY <1>0, <3>1 DEF JoinNode, TypeOK
    <3>6. Members \subseteq Members' => JoinNode(n)'
      BY <1>0, <2>1, <3>1, <3>2, <3>3, <3>5 DEF JoinNode, fingers, fixThread, TypeOK
    <3> QED BY <2>2, <3>4, <3>6, JoinStepSilent
  <2>5. CASE TakeAsFinger(n, m)
    <3>1. UNCHANGED <<todo, fixThread, receiver, process, ring, flags>>
      BY <1>2, <2>5 DEF ProcessFindPredRsp, TakeAsFinger
    <3>2. fingerTable' = [fingerTable EXCEPT ![n][nextFinger[n]] = m.successor]
      BY <2>5 DEF TakeAsFinger
    <3>3. Advances(n) /\ \A p \in Node \ {n} : Untouched(p)
      BY <1>0, <3>1, <3>2 DEF Advances, Untouched, ring, flags, fixThread, TypeOK
    <3>4. \A i \in Finger : fingerTable'[n][i] \in {fingerTable[n][i], m.successor}
      BY <1>0, <3>2 DEF TypeOK
    <3>5. Members \subseteq Members' => JoinNode(n)'
      BY <1>0, <2>1, <3>1, <3>4 DEF JoinNode, ring, flags, fixThread
    <3> QED BY <2>2, <3>3, <3>5, JoinStepSilent
  <2> QED BY <1>2, <2>3, <2>4, <2>5 DEF ProcessFindPredRsp
<1> QED BY <1>1, <1>2

LEMMA JoinOthers ==
  ASSUME JoinInv, TypeOK', NEW n \in Node, NEW m \in Messages, m.dst = n,
         \/ ProcessLeaveP(n, m) \/ ProcessLeaveS(n, m)
         \/ ProcessRingState(n, m) \/ Unreachable(m)
  PROVE  JoinInv'
<1>0. JoinNode(n) /\ TypeOK /\ JoinMessage(m) /\ m \in Message
  BY DEF JoinInv, TypeOK, Messages
<1>1. CASE ProcessRingState(n, m)
  <2>1. m \in [type : {"RING_STATE"}, src : Node, dst : Node, origin : Node]
    BY <1>0, <1>1 DEF ProcessRingState, Receive, Message
  <2>2. inRing[n] /\ successor[n] \in Members /\ HostAt(n, successorIP[n]) = successor[n]
    BY <1>0, <2>1, NilIsNoNode DEF JoinMessage, JoinNode, HostAt, Members
  <2>3. Advances(n) /\ \A p \in Node : Untouched(p)
    BY <1>1 DEF ProcessRingState, Advances, Untouched, commandLine, ring, flags,
                fingers, fixThread
  <2>4. Members \subseteq Members' => JoinNode(n)'
    BY <1>0, <2>3 DEF JoinNode, Untouched
  <2>5. PICK r : r = [m EXCEPT !.src = n, !.dst = HostAt(n, successorIP[n])]
    OBVIOUS
  <2>6. Messages' \subseteq Messages \cup {r}
    BY <1>1, <2>5, ConsumeRemoves, ReplyAdds DEF ProcessRingState
  <2>7. r.type = "RING_STATE" /\ r.dst \in Members
    BY <2>1, <2>2, <2>5
  <2>8. Members \subseteq Members' => JoinMessage(r)'
    BY <2>7 DEF JoinMessage
  <2> QED BY <2>3, <2>4, <2>6, <2>8, JoinStep
<1>2. CASE ProcessLeaveP(n, m) \/ ProcessLeaveS(n, m)
  BY <1>0, <1>2 DEF ProcessLeaveP, ProcessLeaveS, Receive, JoinMessage
<1>3. CASE Unreachable(m)
  BY <1>0, <1>3 DEF Unreachable, Ended, JoinNode
<1> QED BY <1>1, <1>2, <1>3

LEMMA JoinInit == OnlyJoins /\ Init => JoinInv
<1> SUFFICES ASSUME OnlyJoins, Init PROVE JoinInv
  OBVIOUS
<1>1. Messages = {}
  BY DEF Init, Messages, EmptyBag, SetToBag
<1>2. ASSUME NEW n \in Node PROVE JoinNode(n)
  BY DEF Init, OnlyJoins, JoinNode, Members
<1> QED BY <1>1, <1>2, TypeInit DEF JoinInv

LEMMA JoinNext == OnlyJoins /\ JoinInv /\ [Next]_vars => JoinInv'
<1> SUFFICES ASSUME OnlyJoins, JoinInv, [Next]_vars PROVE JoinInv'
  OBVIOUS
<1>0. TypeOK'
  BY TypeStep DEF JoinInv
<1>1. ASSUME NEW n \in Node,
             \/ UserStep(n) \/ TimerStep(n) \/ LeaveSuccessor(n) \/ Exit(n)
             \/ ReadFinger(n) \/ FindSuccessor(n) \/ Notify(n)
      PROVE  JoinInv'
  BY <1>0, <1>1, JoinUser, JoinThreads
<1>2. ASSUME NEW m \in Messages, ProcessMessage(m.dst, m) \/ Unreachable(m)
      PROVE  JoinInv'
  <2>1. m.dst \in Node
    BY DEF JoinInv, TypeOK, Messages, Message
  <2> QED BY <1>0, <1>2, <2>1, JoinStabilization, JoinLookups, JoinOthers
          DEF ProcessMessage
<1>3. CASE UNCHANGED vars
  BY <1>3 DEF vars, JoinInv, JoinNode, JoinMessage, Messages, Members, TypeOK,
              commandLine, ring, flags, fingers, fixThread
<1> QED BY <1>1, <1>2, <1>3 DEF Next

(* While users only join, look up and walk the ring, every node and every  *)
(* message in flight is as JoinNode and JoinMessage say.                   *)
THEOREM JoinsKeepInvariant ==
  ASSUME OnlyJoins
  PROVE  Spec => []JoinInv
<1>1. Init => JoinInv
  BY JoinInit
<1>2. JoinInv /\ [Next]_vars => JoinInv'
  BY JoinNext
<1> QED BY <1>1, <1>2, PTL DEF Spec

(* No lookup, forward or response of a growing ring meets the node "-1":   *)
(* no map.at(-1) or stoi("") is uncaught, no connection is refused.        *)
THEOREM JoinsDoNotCrash ==
  ASSUME OnlyJoins
  PROVE  Spec => []NoCrash
<1>1. JoinInv => NoCrash
  BY DEF JoinInv, JoinNode, NoCrash
<1> QED BY <1>1, JoinsKeepInvariant, PTL

(* ProcessNotify never sees a NOTIFY of its own node.                      *)
THEOREM NoNodeNotifiesItself ==
  ASSUME OnlyJoins
  PROVE  Spec => []NotOwnPredecessor
<1>1. JoinInv => NotOwnPredecessor
  BY NilIsNoNode DEF JoinInv, JoinNode, NotOwnPredecessor
<1> QED BY <1>1, JoinsKeepInvariant, PTL

(* Whatever pointer, finger or message names a node, it has joined.        *)
THEOREM OnlyMembersAreNamed ==
  ASSUME OnlyJoins
  PROVE  Spec => []OnlyMembersAreKnown
<1>1. JoinInv => OnlyMembersAreKnown
  BY DEF JoinInv, JoinNode, JoinMessage, OnlyMembersAreKnown
<1> QED BY <1>1, JoinsKeepInvariant, PTL

(* isSingleton tells exactly whether a member is its own successor.        *)
THEOREM SingletonFlagIsRight ==
  ASSUME OnlyJoins
  PROVE  Spec => []SingletonIsAlone
<1>1. JoinInv => SingletonIsAlone
  BY DEF JoinInv, JoinNode, SingletonIsAlone
<1> QED BY <1>1, JoinsKeepInvariant, PTL

-----------------------------------------------------------------------------
(* Pointers only improve.                                                  *)

CloserSuccessor(n) ==
  successor[n] \in Node /\ successor'[n] # successor[n] =>
    /\ successor'[n] \in Node
    /\ Distance(Hash[n], Hash[successor'[n]]) < Distance(Hash[n], Hash[successor[n]])

CloserPredecessor(n) ==
  predecessor[n] \in Node /\ predecessor'[n] # predecessor[n] =>
    /\ predecessor'[n] \in Node
    /\ Distance(Hash[predecessor'[n]], Hash[n]) < Distance(Hash[predecessor[n]], Hash[n])

(* Only four handlers write a successor or a predecessor.                  *)
LEMMA PointersKept ==
  ASSUME OnlyJoins, JoinInv, [Next]_vars
  PROVE  \/ UNCHANGED <<successor, predecessor>>
         \/ \E n \in Node : CreateRing(n) \/ \E c \in Node : Join(n, c)
         \/ \E n \in Node, m \in Messages :
              \/ ProcessStabilizeRsp(n, m) \/ ProcessNotify(n, m)
              \/ ProcessFindPredRsp(n, m) /\ TakeAsJoin(n, m)
<1>1. ASSUME NEW n \in Node, UserStep(n), ~ CreateRing(n), \A c \in Node : ~ Join(n, c)
      PROVE  UNCHANGED <<successor, predecessor>>
  BY <1>1 DEF UserStep, LookupAnything, Lookup, RingState, Leave, ring
<1>2. ASSUME NEW n \in Node,
             \/ TimerStep(n) \/ LeaveSuccessor(n) \/ Exit(n)
             \/ ReadFinger(n) \/ FindSuccessor(n) \/ Notify(n)
      PROVE  UNCHANGED <<successor, predecessor>>
  BY <1>2 DEF TimerStep, FixFingers, Stabilize, LeaveSuccessor, Exit, ReadFinger,
              FindSuccessor, Notify, ring
<1>3. ASSUME NEW m \in Messages, ProcessMessage(m.dst, m) \/ Unreachable(m)
      PROVE  /\ m.dst \in Node
             /\ \/ UNCHANGED <<successor, predecessor>>
                \/ ProcessStabilizeRsp(m.dst, m) \/ ProcessNotify(m.dst, m)
                \/ ProcessFindPredRsp(m.dst, m) /\ TakeAsJoin(m.dst, m)
  <2>1. m.dst \in Node /\ JoinMessage(m)
    BY DEF JoinInv, TypeOK, Messages, Message
  <2>2. ~ ProcessLeaveP(m.dst, m) /\ ~ ProcessLeaveS(m.dst, m)
    BY <2>1 DEF ProcessLeaveP, ProcessLeaveS, Receive, JoinMessage
  <2>3. ProcessFindPredRsp(m.dst, m) =>
          UNCHANGED <<successor, predecessor>> \/ TakeAsJoin(m.dst, m)
    BY DEF ProcessFindPredRsp, SearchCallback, TakeAsFinger, IgnoreResponse, ring
  <2> QED BY <1>3, <2>1, <2>2, <2>3
          DEF ProcessMessage, ProcessRingState, ProcessFindPredReq,
              ProcessStabilizeReq, Unreachable, ring
<1>4. CASE UNCHANGED vars
  BY <1>4 DEF vars, ring
<1> QED BY <1>1, <1>2, <1>3, <1>4 DEF Next

LEMMA PointersStep ==
  ASSUME OnlyJoins, JoinInv, [Next]_vars, NEW n \in Node
  PROVE  CloserSuccessor(n) /\ CloserPredecessor(n)
<1>0. TypeOK /\ \A p \in Node : JoinNode(p)
  BY DEF JoinInv
<1>1. CASE UNCHANGED <<successor, predecessor>>
  BY <1>1 DEF CloserSuccessor, CloserPredecessor
<1>2. ASSUME NEW k \in Node, CreateRing(k) \/ \E c \in Node : Join(k, c)
      PROVE  CloserSuccessor(n) /\ CloserPredecessor(n)
  <2>1. process[k] = "fresh"
    BY <1>0, <1>2 DEF CreateRing, Join, Typed, JoinNode
  <2>2. successor[k] = Nil /\ predecessor[k] = Nil
    BY <1>0, <2>1 DEF JoinNode
  <2>3. n # k => successor'[n] = successor[n] /\ predecessor'[n] = predecessor[n]
    BY <1>0, <1>2 DEF CreateRing, Join, TypeOK
  <2> QED BY <2>2, <2>3, NilIsNoNode DEF CloserSuccessor, CloserPredecessor
<1>3. ASSUME NEW k \in Node, NEW m \in Messages, ProcessStabilizeRsp(k, m)
      PROVE  CloserSuccessor(n) /\ CloserPredecessor(n)
  <2>1. UNCHANGED predecessor
    BY <1>3 DEF ProcessStabilizeRsp
  <2>2. m.predecessor \in NodeOrNil
    BY <1>0, <1>3 DEF ProcessStabilizeRsp, Receive, TypeOK, Messages, Message
  <2>3. ASSUME successor[n] \in Node, successor'[n] # successor[n]
        PROVE  /\ successor'[n] \in Node
               /\ BetterSuccessor(Hash[n], Hash[successor[n]], Hash[successor'[n]])
    <3>1. /\ n = k /\ successor'[n] = m.predecessor /\ m.predecessor # Nil
          /\ BetterSuccessor(Hash[n], HashOf(successor[n]), HashOf(m.predecessor))
      BY <1>0, <1>3, <2>3 DEF ProcessStabilizeRsp, Adopts, TypeOK
    <3> QED BY <2>2, <2>3, <3>1, NilIsNoNode DEF HashOf, NodeOrNil
  <2>4. CloserSuccessor(n)
    <3> SUFFICES ASSUME successor[n] \in Node, successor'[n] # successor[n]
                 PROVE  /\ successor'[n] \in Node
                        /\ Distance(Hash[n], Hash[successor'[n]])
                             < Distance(Hash[n], Hash[successor[n]])
      BY DEF CloserSuccessor
    <3>1. InOpenArc(Hash[n], Hash[successor'[n]], Hash[successor[n]])
      BY <2>3, HashType, BetterSuccessorArc
    <3> QED BY <2>3, <3>1, HashType, ArcShortens
  <2> QED BY <2>1, <2>4 DEF CloserPredecessor
<1>4. ASSUME NEW k \in Node, NEW m \in Messages, ProcessNotify(k, m)
      PROVE  CloserSuccessor(n) /\ CloserPredecessor(n)
  <2>1. m.src \in Node /\ m.src # k /\ inRing[k]
    BY <1>4 DEF ProcessNotify, Receive, JoinInv, JoinMessage, Members
  <2>2. CASE ~ AcceptsNotify(k, m.src) \/ n # k
    BY <1>0, <1>4, <2>2
    DEF ProcessNotify, ring, TypeOK, CloserSuccessor, CloserPredecessor
  <2>3. CASE AcceptsNotify(k, m.src) /\ n = k
    <3>1. predecessor'[n] = m.src
      BY <1>0, <1>4, <2>3 DEF ProcessNotify, TypeOK
    <3>2. predecessor[n] \in Node => NotifierInRange(Hash[predecessor[n]], Hash[n], Hash[m.src])
      BY <2>3, NilIsNoNode DEF AcceptsNotify, HashOf
    <3>3. CloserPredecessor(n)
      <4> SUFFICES ASSUME predecessor[n] \in Node
                   PROVE  Distance(Hash[m.src], Hash[n]) < Distance(Hash[predecessor[n]], Hash[n])
        BY <2>1, <3>1 DEF CloserPredecessor
      <4>1. InOpenArc(Hash[predecessor[n]], Hash[m.src], Hash[n])
        BY <2>1, <3>2, HashType, NotifierInRangeArc
      <4> QED BY <2>1, <4>1, HashType, ArcShortens
    <3>4. CloserSuccessor(n)
      <4>1. CASE isSingleton[n]
        <5>1. successor[n] = n /\ successor'[n] = m.src
          BY <1>0, <1>4, <2>3, <4>1 DEF ProcessNotify, JoinNode, TypeOK
        <5>2. Hash[n] # Hash[m.src] /\ Hash[n] \in Id /\ Hash[m.src] \in Id
          BY <2>1, <2>3, HashType, DistinctHashes
        <5>3. Distance(Hash[n], Hash[m.src]) < Distance(Hash[n], Hash[n])
          BY <5>2, RingSizeType, DistanceType
        <5> QED BY <2>1, <5>1, <5>3 DEF CloserSuccessor
      <4>2. CASE ~ isSingleton[n]
        BY <1>4, <2>3, <4>2 DEF ProcessNotify, CloserSuccessor
      <4> QED BY <4>1, <4>2
    <3> QED BY <3>3, <3>4
  <2> QED BY <2>2, <2>3
<1>5. ASSUME NEW k \in Node, NEW m \in Messages, ProcessFindPredRsp(k, m), TakeAsJoin(k, m)
      PROVE  CloserSuccessor(n) /\ CloserPredecessor(n)
  <2>1. successor[k] = Nil
    BY <1>0, <1>5 DEF TakeAsJoin, JoinNode
  <2>2. n # k => successor'[n] = successor[n]
    BY <1>0, <1>5 DEF TakeAsJoin, TypeOK
  <2>3. UNCHANGED predecessor
    BY <1>5 DEF TakeAsJoin
  <2> QED BY <2>1, <2>2, <2>3, NilIsNoNode DEF CloserSuccessor, CloserPredecessor
<1> QED BY <1>1, <1>2, <1>3, <1>4, <1>5, PointersKept

(* ProcessStabilizeRsp, ProcessNotify and the JOIN, in any order and with  *)
(* messages of any age, never move a successor away from its node.         *)
THEOREM SuccessorsImprove ==
  ASSUME OnlyJoins
  PROVE  Spec => SuccessorGetsCloser
<1>1. JoinInv /\ [Next]_vars =>
        [\A n \in Node :
           successor[n] \in Node /\ successor'[n] # successor[n] =>
             /\ successor'[n] \in Node
             /\ Distance(Hash[n], Hash[successor'[n]])
                  < Distance(Hash[n], Hash[successor[n]])]_vars
  BY PointersStep DEF CloserSuccessor
<1> QED BY <1>1, JoinsKeepInvariant, PTL DEF Spec, SuccessorGetsCloser

(* The same of predecessors.                                               *)
THEOREM PredecessorsImprove ==
  ASSUME OnlyJoins
  PROVE  Spec => PredecessorGetsCloser
<1>1. JoinInv /\ [Next]_vars =>
        [\A n \in Node :
           predecessor[n] \in Node /\ predecessor'[n] # predecessor[n] =>
             /\ predecessor'[n] \in Node
             /\ Distance(Hash[predecessor'[n]], Hash[n])
                  < Distance(Hash[predecessor[n]], Hash[n])]_vars
  BY PointersStep DEF CloserPredecessor
<1> QED BY <1>1, JoinsKeepInvariant, PTL DEF Spec, PredecessorGetsCloser

-----------------------------------------------------------------------------
(* The ring implements GrowingRing: every step of every thread of every    *)
(* process is a step of that ring, or one that leaves the pointers alone.  *)

LEMMA SameDistance == \A x, y : Ring!Distance(x, y) = Distance(x, y)
BY DEF Ring!Distance, Ring!RingSize, Distance, RingSize

LEMMA SameMembers == JoinInv => Ring!Member = Members
BY NilIsNoNode DEF JoinInv, JoinNode, Ring!Member, Members

LEMMA FoundStep ==
  ASSUME JoinInv, NEW n \in Node, CreateRing(n)
  PROVE  Ring!Found(n)
<1>1. JoinNode(n) /\ TypeOK /\ process[n] = "fresh"
  BY DEF JoinInv, JoinNode, CreateRing, Typed
<1>2. n \notin Ring!Member
  BY <1>1, SameMembers DEF JoinNode, Members
<1>3. predecessor[n] = Nil
  BY <1>1 DEF JoinNode
<1> QED BY <1>1, <1>2, <1>3 DEF CreateRing, Ring!Found, TypeOK

LEMMA JoinIsSilent ==
  ASSUME JoinInv, NEW n \in Node, NEW c \in Node, Join(n, c)
  PROVE  UNCHANGED <<successor, predecessor>>
<1>1. JoinNode(n) /\ TypeOK
  BY DEF JoinInv
<1>2. process[n] = "fresh"
  BY <1>1 DEF Join, Typed, JoinNode
<1>3. successor[n] = Nil /\ predecessor[n] = Nil
  BY <1>1, <1>2 DEF JoinNode
<1> QED BY <1>1, <1>3 DEF Join, TypeOK

LEMMA EnterStep ==
  ASSUME JoinInv, NEW n \in Node, NEW m \in Messages,
         ProcessFindPredRsp(n, m), TakeAsJoin(n, m)
  PROVE  Ring!Enter(n, m.successor)
<1>1. JoinNode(n) /\ TypeOK /\ JoinMessage(m)
  BY DEF JoinInv
<1>2. n \notin Ring!Member /\ m.successor \in Ring!Member
  BY <1>1, SameMembers
  DEF TakeAsJoin, ProcessFindPredRsp, Receive, JoinNode, JoinMessage, Members
<1> QED BY <1>1, <1>2 DEF TakeAsJoin, Ring!Enter

LEMMA FindNextStep ==
  ASSUME JoinInv, NEW n \in Node, NEW m \in Messages, ProcessStabilizeRsp(n, m)
  PROVE  Ring!FindNext(n, m.predecessor) \/ UNCHANGED <<successor, predecessor>>
<1>1. JoinNode(n) /\ TypeOK /\ JoinMessage(m) /\ m.dst = n /\ m.type = "STABILIZE_RSP"
  BY DEF JoinInv, ProcessStabilizeRsp, Receive
<1>2. CASE ~ Adopts(n, m.predecessor)
  BY <1>2 DEF ProcessStabilizeRsp
<1>3. CASE Adopts(n, m.predecessor)
  <2> DEFINE p == m.predecessor
  <2>1. n \in Members /\ p \in Members /\ successor[n] \in Members
    BY <1>1, <1>3 DEF JoinMessage, JoinNode, Adopts, Members
  <2>2. InOpenArc(Hash[n], Hash[p], Hash[successor[n]])
    <3>1. BetterSuccessor(Hash[n], Hash[successor[n]], Hash[p])
      BY <1>3, <2>1, NilIsNoNode DEF Adopts, HashOf, Members
    <3> QED BY <2>1, <3>1, HashType, BetterSuccessorArc DEF Members
  <2>3. Ring!Distance(Hash[n], Hash[p]) < Ring!Distance(Hash[n], Hash[successor[n]])
    BY <2>2, SameDistance DEF InOpenArc
  <2>4. successor' = [successor EXCEPT ![n] = p] /\ UNCHANGED predecessor
    BY <1>3 DEF ProcessStabilizeRsp
  <2> QED BY <2>1, <2>3, <2>4, SameMembers DEF Ring!FindNext
<1> QED BY <1>2, <1>3

LEMMA FindPreviousStep ==
  ASSUME JoinInv, NEW n \in Node, NEW m \in Messages, ProcessNotify(n, m)
  PROVE  Ring!FindPrevious(n, m.src) \/ UNCHANGED <<successor, predecessor>>
<1>1. JoinNode(n) /\ TypeOK /\ JoinMessage(m) /\ m.dst = n /\ m.type = "NOTIFY"
  BY DEF JoinInv, ProcessNotify, Receive
<1>2. CASE ~ AcceptsNotify(n, m.src)
  BY <1>2 DEF ProcessNotify, ring
<1>3. CASE AcceptsNotify(n, m.src)
  <2>1. n \in Members /\ m.src \in Members /\ m.src # n
    BY <1>1 DEF JoinMessage
  <2>2. \/ predecessor[n] = Nil
        \/ Ring!Distance(Hash[m.src], Hash[n]) < Ring!Distance(Hash[predecessor[n]], Hash[n])
    <3> SUFFICES ASSUME predecessor[n] # Nil
                 PROVE  Distance(Hash[m.src], Hash[n]) < Distance(Hash[predecessor[n]], Hash[n])
      BY SameDistance
    <3>1. predecessor[n] \in Node
      BY <1>1, <2>1 DEF JoinNode, Members
    <3>2. NotifierInRange(Hash[predecessor[n]], Hash[n], Hash[m.src])
      BY <1>3, <3>1, NilIsNoNode DEF AcceptsNotify, HashOf
    <3>3. InOpenArc(Hash[predecessor[n]], Hash[m.src], Hash[n])
      BY <2>1, <3>1, <3>2, HashType, NotifierInRangeArc DEF Members
    <3> QED BY <2>1, <3>1, <3>3, HashType, ArcShortens DEF Members
  <2>3. predecessor' = [predecessor EXCEPT ![n] = m.src]
    BY <1>3 DEF ProcessNotify
  <2>4. successor' = [successor EXCEPT ![n] = IF @ = n THEN m.src ELSE @]
    <3>1. isSingleton[n] <=> successor[n] = n
      BY <1>1, <2>1 DEF JoinNode, Members
    <3>2. CASE isSingleton[n]
      BY <1>1, <1>3, <3>1, <3>2 DEF ProcessNotify, TypeOK
    <3>3. CASE ~ isSingleton[n]
      BY <1>1, <1>3, <3>1, <3>3 DEF ProcessNotify, TypeOK
    <3> QED BY <3>2, <3>3
  <2> QED BY <2>1, <2>2, <2>3, <2>4, SameMembers DEF Ring!FindPrevious, Members
<1> QED BY <1>2, <1>3

LEMMA RingStepOrStutter ==
  ASSUME OnlyJoins, JoinInv, [Next]_vars
  PROVE  [Ring!RingNext]_<<successor, predecessor>>
<1>1. ASSUME NEW n \in Node, CreateRing(n) \/ \E c \in Node : Join(n, c)
      PROVE  [Ring!RingNext]_<<successor, predecessor>>
  BY <1>1, FoundStep, JoinIsSilent DEF Ring!RingNext
<1>2. ASSUME NEW n \in Node, NEW m \in Messages,
             \/ ProcessStabilizeRsp(n, m) \/ ProcessNotify(n, m)
             \/ ProcessFindPredRsp(n, m) /\ TakeAsJoin(n, m)
      PROVE  [Ring!RingNext]_<<successor, predecessor>>
  <2>1. m.src \in Node \/ m.type # "NOTIFY"
    BY DEF JoinInv, TypeOK, Messages, Message
  <2>2. ASSUME ProcessStabilizeRsp(n, m) PROVE [Ring!RingNext]_<<successor, predecessor>>
    <3>1. Ring!FindNext(n, m.predecessor) => m.predecessor \in Node
      BY DEF Ring!FindNext, Ring!Member
    <3> QED BY <2>2, <3>1, FindNextStep DEF Ring!RingNext
  <2>3. ASSUME ProcessNotify(n, m) PROVE [Ring!RingNext]_<<successor, predecessor>>
    <3>1. Ring!FindPrevious(n, m.src) => m.src \in Node
      BY DEF Ring!FindPrevious, Ring!Member
    <3> QED BY <2>3, <3>1, FindPreviousStep DEF Ring!RingNext
  <2>4. ASSUME ProcessFindPredRsp(n, m), TakeAsJoin(n, m)
        PROVE  [Ring!RingNext]_<<successor, predecessor>>
    <3>1. Ring!Enter(n, m.successor)
      BY <2>4, EnterStep
    <3>2. m.successor \in Node
      BY <3>1 DEF Ring!Enter, Ring!Member
    <3> QED BY <3>1, <3>2 DEF Ring!RingNext
  <2> QED BY <1>2, <2>2, <2>3, <2>4
<1> QED BY <1>1, <1>2, PointersKept

(* All that stabilisation, joins and late messages do to the pointers of a *)
(* ring that only grows is what GrowingRing says.                          *)
THEOREM JoinsImplementGrowingRing ==
  ASSUME OnlyJoins
  PROVE  Spec => ImplementsGrowingRing
<1>1. Init => Ring!RingInit
  BY DEF Init, Ring!RingInit
<1>2. JoinInv /\ [Next]_vars => [Ring!RingNext]_<<successor, predecessor>>
  BY RingStepOrStutter
<1>3. Ring!pointers = <<successor, predecessor>>
  BY DEF Ring!pointers
<1> QED BY <1>1, <1>2, <1>3, JoinsKeepInvariant, PTL
        DEF Spec, ImplementsGrowingRing, Ring!RingSpec, Ring!pointers

=============================================================================

-------------------------- MODULE PennChordProofs --------------------------
(***************************************************************************)
(* Theorems about PennChord, for any number of nodes, any hashes, any      *)
(* width of the keys and any bounds.                                       *)
(***************************************************************************)
EXTENDS PennChordProperties, ChordKeysProofs

-----------------------------------------------------------------------------
(* Helpers: the messages in flight, hashes, the highest of some fingers.   *)

LEMMA BagAddDomain ==
  ASSUME NEW B, NEW x
  PROVE  DOMAIN BagOps!BagAdd(B, x) = DOMAIN B \cup {x}
BY DEF BagOps!BagAdd

LEMMA BagRemoveDomain ==
  ASSUME NEW B, NEW x
  PROVE  DOMAIN BagOps!BagRemove(B, x) \subseteq DOMAIN B
BY DEF BagOps!BagRemove

LEMMA SendAdds ==
  ASSUME NEW m, Send(m)
  PROVE  Messages' = Messages \cup {m}
BY BagAddDomain DEF Send, Messages

LEMMA ConsumeRemoves ==
  ASSUME NEW m, Consume(m)
  PROVE  Messages' \subseteq Messages
BY BagRemoveDomain DEF Consume, Messages

LEMMA ReplyAdds ==
  ASSUME NEW m, NEW r, Reply(m, r)
  PROVE  Messages' \subseteq Messages \cup {r}
<1>1. Messages' = DOMAIN BagOps!BagRemove(network, m) \cup {r}
  BY BagAddDomain DEF Reply, Messages
<1>2. QED
  BY <1>1, BagRemoveDomain DEF Messages

LEMMA HashType == \A n \in Node : Hash[n] \in Id
BY DistinctHashes

LEMMA FingerType == 0 \in Finger /\ \A i \in Finger : (i + 1) % Bits \in Finger
<1>1. Bits \in Nat /\ Bits > 0
  BY KeyWidth
<1>2. \A k \in Nat : k % Bits \in 0 .. Bits - 1
  BY <1>1
<1>3. QED
  BY <1>1, <1>2 DEF Finger

LEMMA FingerStartsType ==
  ASSUME NEW h \in Id, NEW i \in Finger, NEW s \in FingerStarts(h, i)
  PROVE  s \in Id
BY RingSizeType, PowersOfTwo DEF FingerStarts, Id

(* A set of fingers that is not empty has a highest one.                   *)
LEMMA HighestFinger ==
  ASSUME NEW S \in SUBSET Finger, S # {}
  PROVE  Max(S) \in S
<1> DEFINE T == {Bits - 1 - i : i \in S}
<1>1. T \subseteq Nat /\ T # {}
  <2>1. \A i \in S : Bits - 1 - i \in Nat
    BY KeyWidth DEF Finger
  <2>2. QED
    BY <2>1
<1>2. PICK t \in T : \A u \in T : ~ (u < t)
  BY <1>1, LeastNatural
<1>3. PICK i \in S : t = Bits - 1 - i
  BY <1>2
<1>4. \A j \in S : i >= j
  <2>1. \A j \in S : ~ (Bits - 1 - j < Bits - 1 - i)
    BY <1>2, <1>3
  <2>2. QED
    BY <2>1, KeyWidth DEF Finger
<1>5. QED
  BY <1>4 DEF Max

LEMMA HashOfType == \A p \in NodeOrNil : HashOf(p) \in Id
BY HashType, NilHashType DEF HashOf, NodeOrNil

(* ClosestPrecedingNode yields one of the node's own pointers.             *)
LEMMA ClosestType ==
  ASSUME TypeOK, NEW n \in Node, NEW id \in Id
  PROVE  ClosestPrecedingNode(n, id) \in NodeOrNil
<1> DEFINE S == {i \in Finger :
                   /\ fingerTable[n][i] # Nil
                   /\ FingerPrecedes(Hash[n], HashOf(fingerTable[n][i]), id)}
<1>1. fingerTable[n] \in [Finger -> NodeOrNil] /\ successor[n] \in NodeOrNil
  BY DEF TypeOK
<1>2. CASE S # {}
  <2>1. Max(S) \in Finger
    <3>1. S \in SUBSET Finger
      OBVIOUS
    <3> HIDE DEF S
    <3> QED BY <3>1, <1>2, HighestFinger
  <2>2. ClosestPrecedingNode(n, id) = fingerTable[n][Max(S)]
    BY <1>2 DEF ClosestPrecedingNode
  <2> QED BY <2>1, <2>2, <1>1
<1>3. CASE S = {}
  <2>1. ClosestPrecedingNode(n, id) = IF isSingleton[n] THEN n ELSE successor[n]
    BY <1>3 DEF ClosestPrecedingNode
  <2> QED BY <2>1, <1>1 DEF NodeOrNil
<1>4. QED
  BY <1>2, <1>3

-----------------------------------------------------------------------------
(* Type correctness.                                                       *)

LEMMA TypeInit == Init => TypeOK
<1> SUFFICES ASSUME Init PROVE TypeOK
  OBVIOUS
<1>1. 0 \in Id /\ 0 \in Finger
  BY RingSizeType, FingerType DEF Id
<1>2. DOMAIN network = {}
  BY DEF Init, EmptyBag, SetToBag
<1>3. QED
  BY <1>1, <1>2, UserInput DEF Init, TypeOK, Life, NodeOrNil, Address

(* The messages of TypeOK, for a step that sends, consumes or replies.     *)
LEMMA TypeCrash ==
  ASSUME TypeOK, NEW n \in Node, Crash(n) \/ UNCHANGED process
  PROVE  process' \in [Node -> Life]
BY DEF TypeOK, Crash, Life

LEMMA TypeTyped ==
  ASSUME TypeOK, NEW n \in Node, NEW cmd, Typed(n, cmd)
  PROVE  todo' \in [Node -> SUBSET CommandName]
BY DEF TypeOK, Typed

LEMMA TypeLookup ==
  ASSUME TypeOK, NEW n \in Node, NEW id \in Id, NEW query \in Query,
         Lookup(n, id, query)
  PROVE  TypeOK'
<1> DEFINE next == ClosestPrecedingNode(n, id)
           m == [type |-> "FIND_PRED_REQ", src |-> n, dst |-> next,
                 origin |-> n, target |-> id, query |-> query]
<1>1. next \in NodeOrNil
  BY ClosestType
<1>2. process' \in [Node -> Life]
  <2>1. Crash(n) \/ UNCHANGED process
    BY DEF Lookup
  <2> QED BY <2>1, TypeCrash
<1>3. Messages' \subseteq Message
  <2>1. CASE next = Nil
    BY <2>1 DEF Lookup, TypeOK, Messages
  <2>2. CASE next # Nil
    <3> HIDE DEF next
    <3>1. m \in Message
      BY <1>1, <2>2 DEF Message, NodeOrNil
    <3>2. Messages' = Messages \cup {m}
      BY <2>2, SendAdds DEF Lookup, next
    <3> QED BY <3>1, <3>2 DEF TypeOK, Messages
  <2> QED BY <2>1, <2>2
<1> QED BY <1>2, <1>3
        DEF Lookup, TypeOK, ring, flags, fingers, fixThread, Messages

LEMMA TypeUser ==
  ASSUME TypeOK, NEW n \in Node, UserStep(n)
  PROVE  TypeOK'
<1>1. CASE CreateRing(n)
  <2>1. todo' \in [Node -> SUBSET CommandName]
    BY <1>1, TypeTyped DEF CreateRing
  <2>2. fingerTable' \in [Node -> [Finger -> NodeOrNil]]
    BY <1>1 DEF CreateRing, TypeOK, NodeOrNil
  <2> QED BY <1>1, <2>1, <2>2, FingerType
          DEF CreateRing, TypeOK, Life, NodeOrNil, Address, fixThread
<1>2. ASSUME NEW c \in Node, Join(n, c) PROVE TypeOK'
  <2> DEFINE m == [type |-> "FIND_PRED_REQ", src |-> n, dst |-> c, origin |-> n,
                   target |-> Hash[n], query |-> "none"]
  <2>1. todo' \in [Node -> SUBSET CommandName]
    BY <1>2, TypeTyped DEF Join
  <2>2. fingerTable' \in [Node -> [Finger -> NodeOrNil]]
    BY <1>2 DEF Join, TypeOK, NodeOrNil
  <2>3. m \in Message
    BY HashType DEF Message
  <2>4. Messages' = Messages \cup {m}
    BY <1>2, SendAdds DEF Join
  <2> QED BY <1>2, <2>1, <2>2, <2>3, <2>4, FingerType
          DEF Join, TypeOK, Life, NodeOrNil, Address, fixThread, Messages
<1>3. ASSUME NEW id \in Keys, NEW query \in Query, Lookup(n, id, query) PROVE TypeOK'
  BY <1>3, UserInput, TypeLookup
<1>4. CASE RingState(n)
  <2> DEFINE m == [type |-> "RING_STATE", src |-> n,
                   dst |-> HostAt(n, successorIP[n]), origin |-> n]
  <2>1. m \in Message
    BY DEF Message, HostAt, TypeOK, Address
  <2>2. Messages' = Messages \cup {m}
    BY <1>4, SendAdds DEF RingState
  <2>3. todo' \in [Node -> SUBSET CommandName]
    BY <1>4, TypeTyped DEF RingState
  <2> QED BY <1>4, <2>1, <2>2, <2>3
          DEF RingState, TypeOK, ring, flags, fingers, fixThread, Messages
<1>5. CASE Leave(n)
  <2> DEFINE m == [type |-> "LEAVE_P", src |-> n,
                   dst |-> HostAt(n, predecessorIP[n]), successor |-> successor[n]]
  <2>1. m \in Message
    BY DEF Message, HostAt, TypeOK, Address
  <2>2. Messages' = Messages \cup {m}
    BY <1>5, SendAdds DEF Leave
  <2>3. todo' \in [Node -> SUBSET CommandName]
    BY <1>5, TypeTyped DEF Leave
  <2> QED BY <1>5, <2>1, <2>2, <2>3
          DEF Leave, TypeOK, Life, ring, fingers, fixThread, Messages
<1> QED BY <1>1, <1>2, <1>3, <1>4, <1>5 DEF UserStep, LookupAnything

LEMMA TypeTimers ==
  ASSUME TypeOK, NEW n \in Node,
         TimerStep(n) \/ ReadFinger(n) \/ FindSuccessor(n)
  PROVE  TypeOK'
<1>1. CASE FixFingers(n)
  BY <1>1 DEF FixFingers, TypeOK, commandLine, ring, flags
<1>2. CASE ReadFinger(n)
  <2>1. PICK start \in FingerStarts(Hash[n], nextFinger[n]) :
          fixTarget' = [fixTarget EXCEPT ![n] = start]
    BY <1>2 DEF ReadFinger
  <2>2. start \in Id
    BY <2>1, HashType, FingerStartsType DEF TypeOK
  <2> QED BY <1>2, <2>1, <2>2
          DEF ReadFinger, TypeOK, commandLine, ring, flags, fingers
<1>3. CASE FindSuccessor(n)
  <2> DEFINE next == ClosestPrecedingNode(n, fixTarget[n])
             m == [type |-> "FIND_PRED_REQ", src |-> n, dst |-> next,
                   origin |-> n, target |-> fixTarget[n], query |-> "none"]
  <2>1. fixTarget[n] \in Id /\ next \in NodeOrNil
    BY ClosestType DEF TypeOK
  <2>2. process' \in [Node -> Life]
    <3>1. Crash(n) \/ UNCHANGED process
      BY <1>3 DEF FindSuccessor
    <3> QED BY <3>1, TypeCrash
  <2>3. Messages' \subseteq Message
    <3>1. CASE next = Nil
      BY <1>3, <3>1 DEF FindSuccessor, TypeOK, Messages
    <3>2. CASE next # Nil
      <4> HIDE DEF next
      <4>1. m \in Message
        BY <2>1, <3>2 DEF Message, NodeOrNil
      <4>2. Messages' = Messages \cup {m}
        BY <1>3, <3>2, SendAdds DEF FindSuccessor, next
      <4> QED BY <4>1, <4>2 DEF TypeOK, Messages
    <3> QED BY <3>1, <3>2
  <2>4. 0 \in Id
    BY RingSizeType DEF Id
  <2> QED BY <1>3, <2>2, <2>3, <2>4
          DEF FindSuccessor, TypeOK, ring, flags, Messages
<1>4. CASE Stabilize(n)
  <2> DEFINE m == [type |-> "STABILIZE_REQ", src |-> n,
                   dst |-> HostAt(n, successorIP[n])]
  <2>1. m \in Message
    BY DEF Message, HostAt, TypeOK, Address
  <2>2. Messages' = Messages \cup {m}
    BY <1>4, SendAdds DEF Stabilize
  <2> QED BY <1>4, <2>1, <2>2
          DEF Stabilize, TypeOK, commandLine, ring, fingers, fixThread, Messages
<1> QED BY <1>1, <1>2, <1>3, <1>4 DEF TimerStep

LEMMA TypeLeaving ==
  ASSUME TypeOK, NEW n \in Node, LeaveSuccessor(n) \/ Exit(n)
  PROVE  TypeOK'
<1>1. CASE LeaveSuccessor(n)
  <2> DEFINE m == [type |-> "LEAVE_S", src |-> n,
                   dst |-> HostAt(n, successorIP[n]), predecessor |-> predecessor[n]]
  <2>1. m \in Message
    BY DEF Message, HostAt, TypeOK, Address
  <2>2. Messages' = Messages \cup {m}
    BY <1>1, SendAdds DEF LeaveSuccessor
  <2> QED BY <1>1, <2>1, <2>2
          DEF LeaveSuccessor, TypeOK, Life, ring, flags, fingers, fixThread, Messages
<1>2. CASE Exit(n)
  BY <1>2 DEF Exit, TypeOK, Life, ring, flags, fingers, fixThread
<1> QED BY <1>1, <1>2

LEMMA TypeStabilization ==
  ASSUME TypeOK, NEW n \in Node,
         \/ Notify(n)
         \/ \E m \in Messages : \/ ProcessStabilizeReq(n, m)
                                \/ ProcessStabilizeRsp(n, m)
                                \/ ProcessNotify(n, m)
  PROVE  TypeOK'
<1> Messages \subseteq Message
  BY DEF TypeOK, Messages
<1>1. CASE Notify(n)
  <2> DEFINE m == [type |-> "NOTIFY", src |-> n, dst |-> HostAt(n, successorIP[n])]
  <2>1. m \in Message
    BY DEF Message, HostAt, TypeOK, Address
  <2>2. Messages' = Messages \cup {m}
    BY <1>1, SendAdds DEF Notify
  <2> QED BY <1>1, <2>1, <2>2
          DEF Notify, TypeOK, commandLine, ring, fingers, fixThread, Messages
<1>2. ASSUME NEW m \in Messages, ProcessStabilizeReq(n, m) PROVE TypeOK'
  <2> DEFINE r == [type |-> "STABILIZE_RSP", src |-> n, dst |-> m.src,
                   predecessor |-> predecessor[n]]
  <2>1. m.src \in Node
    BY DEF Message
  <2>2. r \in Message
    BY <2>1 DEF Message, TypeOK
  <2>3. Messages' \subseteq Messages \cup {r}
    BY <1>2, ReplyAdds DEF ProcessStabilizeReq
  <2> QED BY <1>2, <2>2, <2>3
          DEF ProcessStabilizeReq, TypeOK, commandLine, ring, flags, fingers,
              fixThread, Messages
<1>3. ASSUME NEW m \in Messages, ProcessStabilizeRsp(n, m) PROVE TypeOK'
  <2>1. m.predecessor \in NodeOrNil
    BY <1>3 DEF ProcessStabilizeRsp, Receive, Message
  <2>2. Messages' \subseteq Messages
    BY <1>3, ConsumeRemoves DEF ProcessStabilizeRsp
  <2>3. successor' \in [Node -> NodeOrNil] /\ successorIP' \in [Node -> Address]
    BY <1>3, <2>1 DEF ProcessStabilizeRsp, TypeOK, NodeOrNil, Address, Adopts
  <2> QED BY <1>3, <2>2, <2>3
          DEF ProcessStabilizeRsp, TypeOK, commandLine, flags, fingers,
              fixThread, Messages
<1>4. ASSUME NEW m \in Messages, ProcessNotify(n, m) PROVE TypeOK'
  <2>1. m.src \in Node
    BY DEF Message
  <2>2. Messages' \subseteq Messages
    BY <1>4, ConsumeRemoves DEF ProcessNotify
  <2>3. /\ successor' \in [Node -> NodeOrNil] /\ successorIP' \in [Node -> Address]
        /\ predecessor' \in [Node -> NodeOrNil] /\ predecessorIP' \in [Node -> Address]
        /\ isSingleton' \in [Node -> BOOLEAN]
    <3>1. CASE AcceptsNotify(n, m.src)
      <4>1. /\ predecessor' = [predecessor EXCEPT ![n] = m.src]
            /\ predecessorIP' = [predecessorIP EXCEPT ![n] = m.src]
            /\ isSingleton' = [isSingleton EXCEPT ![n] = FALSE]
        BY <1>4, <3>1 DEF ProcessNotify
      <4>2. \/ /\ successor' = [successor EXCEPT ![n] = m.src]
               /\ successorIP' = [successorIP EXCEPT ![n] = m.src]
            \/ UNCHANGED <<successor, successorIP>>
        BY <1>4, <3>1 DEF ProcessNotify
      <4> QED BY <2>1, <4>1, <4>2 DEF TypeOK, NodeOrNil, Address
    <3>2. CASE ~AcceptsNotify(n, m.src)
      BY <1>4, <3>2 DEF ProcessNotify, TypeOK, ring
    <3> QED BY <3>1, <3>2
  <2> QED BY <1>4, <2>2, <2>3
          DEF ProcessNotify, TypeOK, commandLine, fingers, fixThread, Messages
<1> QED BY <1>1, <1>2, <1>3, <1>4

LEMMA TypeLookups ==
  ASSUME TypeOK, NEW n \in Node, NEW m \in Messages,
         ProcessFindPredReq(n, m) \/ ProcessFindPredRsp(n, m)
  PROVE  TypeOK'
<1> Messages \subseteq Message
  BY DEF TypeOK, Messages
<1>1. CASE ProcessFindPredReq(n, m)
  <2>1. /\ m \in [type : {"FIND_PRED_REQ"}, src : Node, dst : Node, origin : Node,
                  target : Id, query : Query \cup {"none"}]
    BY <1>1 DEF ProcessFindPredReq, Receive, Message
  <2>2. process' \in [Node -> Life]
    <3>1. Crash(n) \/ UNCHANGED process
      BY <1>1 DEF ProcessFindPredReq, AnswerFindPred, ForwardFindPred
    <3> QED BY <3>1, TypeCrash
  <2>3. Messages' \subseteq Message
    <3>1. CASE AnswerFindPred(n, m)
      <4> DEFINE r == [type |-> "FIND_PRED_RSP", src |-> n, dst |-> m.origin,
                       successor |-> successor[n], target |-> m.target,
                       query |-> m.query]
      <4>1. r \in Message
        BY <2>1 DEF Message, TypeOK
      <4>2. Messages' \subseteq Messages \cup {r}
        BY <3>1, ReplyAdds DEF AnswerFindPred
      <4> QED BY <4>1, <4>2
    <3>2. CASE ForwardFindPred(n, m)
      <4> DEFINE next == ClosestPrecedingNode(n, m.target)
                 r == [m EXCEPT !.src = n, !.dst = next]
      <4>1. next \in NodeOrNil
        BY <2>1, ClosestType
      <4>2. CASE next = Nil
        BY <3>2, <4>2, ConsumeRemoves DEF ForwardFindPred
      <4>3. CASE next # Nil
        <5> HIDE DEF next
        <5>1. r \in Message
          BY <2>1, <4>1, <4>3 DEF Message, NodeOrNil
        <5>2. Messages' \subseteq Messages \cup {r}
          BY <3>2, <4>3, ReplyAdds DEF ForwardFindPred, next
        <5> QED BY <5>1, <5>2
      <4> QED BY <4>2, <4>3
    <3> QED BY <1>1, <3>1, <3>2 DEF ProcessFindPredReq
  <2> QED BY <1>1, <2>2, <2>3
          DEF ProcessFindPredReq, TypeOK, ring, flags, fingers, fixThread, Messages
<1>2. CASE ProcessFindPredRsp(n, m)
  <2>1. m.successor \in NodeOrNil
    BY <1>2 DEF ProcessFindPredRsp, Receive, Message
  <2>2. Messages' \subseteq Message
    BY <1>2, ConsumeRemoves DEF ProcessFindPredRsp
  <2>3. process' \in [Node -> Life]
    <3>1. Crash(n) \/ UNCHANGED process
      BY <1>2 DEF ProcessFindPredRsp, SearchCallback, TakeAsJoin, TakeAsFinger,
                  IgnoreResponse
    <3> QED BY <3>1, TypeCrash
  <2>4. CASE SearchCallback(n, m) \/ IgnoreResponse(n, m)
    BY <1>2, <2>2, <2>3, <2>4
    DEF ProcessFindPredRsp, SearchCallback, IgnoreResponse, TypeOK, ring, flags,
        fingers, fixThread, Messages
  <2>5. CASE TakeAsJoin(n, m)
    BY <1>2, <2>1, <2>2, <2>3, <2>5
    DEF ProcessFindPredRsp, TakeAsJoin, TypeOK, NodeOrNil, Address, fingers,
        fixThread, Messages
  <2>6. CASE TakeAsFinger(n, m)
    <3>1. nextFinger' \in [Node -> Finger]
      BY <2>6, FingerType DEF TakeAsFinger, FingerAfter, TypeOK
    <3>2. fingerTable' \in [Node -> [Finger -> NodeOrNil]]
      BY <2>6, <2>1 DEF TakeAsFinger, FingerAfter, TypeOK
    <3> QED BY <1>2, <2>2, <2>3, <2>6, <3>1, <3>2
            DEF ProcessFindPredRsp, TakeAsFinger, TypeOK, ring, flags, fixThread,
                Messages
  <2> QED BY <1>2, <2>4, <2>5, <2>6 DEF ProcessFindPredRsp
<1> QED BY <1>1, <1>2

LEMMA TypeOthers ==
  ASSUME TypeOK, NEW n \in Node, NEW m \in Messages,
         \/ ProcessLeaveP(n, m) \/ ProcessLeaveS(n, m)
         \/ ProcessRingState(n, m) \/ Unreachable(m)
  PROVE  TypeOK'
<1> Messages \subseteq Message
  BY DEF TypeOK, Messages
<1>1. CASE ProcessLeaveP(n, m)
  <2>1. m.successor \in NodeOrNil
    BY <1>1 DEF ProcessLeaveP, Receive, Message
  <2>2. Messages' \subseteq Message
    BY <1>1, ConsumeRemoves DEF ProcessLeaveP
  <2>3. process' \in [Node -> Life]
    BY <1>1, TypeCrash DEF ProcessLeaveP
  <2> QED BY <1>1, <2>1, <2>2, <2>3
          DEF ProcessLeaveP, TypeOK, NodeOrNil, Address, fingers, fixThread, Messages
<1>2. CASE ProcessLeaveS(n, m)
  <2>1. m.predecessor \in NodeOrNil
    BY <1>2 DEF ProcessLeaveS, Receive, Message
  <2>2. Messages' \subseteq Message
    BY <1>2, ConsumeRemoves DEF ProcessLeaveS
  <2>3. process' \in [Node -> Life]
    BY <1>2, TypeCrash DEF ProcessLeaveS
  <2> QED BY <1>2, <2>1, <2>2, <2>3
          DEF ProcessLeaveS, TypeOK, NodeOrNil, Address, flags, fingers, fixThread,
              Messages
<1>3. CASE ProcessRingState(n, m)
  <2> DEFINE r == [m EXCEPT !.src = n, !.dst = HostAt(n, successorIP[n])]
  <2>1. m \in [type : {"RING_STATE"}, src : Node, dst : Node, origin : Node]
    BY <1>3 DEF ProcessRingState, Receive, Message
  <2>2. r \in Message
    BY <2>1 DEF Message, HostAt, TypeOK, Address
  <2>3. Messages' \subseteq Messages \cup {r}
    BY <1>3, ConsumeRemoves, ReplyAdds DEF ProcessRingState
  <2> QED BY <1>3, <2>2, <2>3
          DEF ProcessRingState, TypeOK, commandLine, ring, flags, fingers, fixThread,
              Messages
<1>4. CASE Unreachable(m)
  <2>1. Messages' \subseteq Message
    BY <1>4, ConsumeRemoves DEF Unreachable
  <2>2. process' \in [Node -> Life]
    BY <1>4 DEF Unreachable, Crash, TypeOK, Life
  <2> QED BY <1>4, <2>1, <2>2
          DEF Unreachable, TypeOK, ring, flags, fingers, fixThread, Messages
<1> QED BY <1>1, <1>2, <1>3, <1>4

LEMMA TypeStep == TypeOK /\ [Next]_vars => TypeOK'
<1> SUFFICES ASSUME TypeOK, [Next]_vars PROVE TypeOK'
  OBVIOUS
<1>1. ASSUME NEW n \in Node,
             \/ UserStep(n) \/ TimerStep(n) \/ LeaveSuccessor(n) \/ Exit(n)
             \/ ReadFinger(n) \/ FindSuccessor(n) \/ Notify(n)
      PROVE  TypeOK'
  BY <1>1, TypeUser, TypeTimers, TypeLeaving, TypeStabilization
<1>2. ASSUME NEW m \in Messages, ProcessMessage(m.dst, m) \/ Unreachable(m)
      PROVE  TypeOK'
  <2>1. m.dst \in Node
    BY DEF TypeOK, Messages, Message
  <2> QED BY <1>2, <2>1, TypeStabilization, TypeLookups, TypeOthers DEF ProcessMessage
<1>3. CASE UNCHANGED vars
  BY <1>3 DEF vars, TypeOK, commandLine, ring, flags, fingers, fixThread
<1> QED BY <1>1, <1>2, <1>3 DEF Next

(* Whatever users type and however threads and messages interleave, the    *)
(* fields of every object keep their types: in particular nextFinger stays *)
(* an index of m_fingerTable (ProcessFindPredRsp), finger starts and       *)
(* targets stay uint32_t, and every message in flight is well-formed.      *)
THEOREM TypeCorrect == Spec => []TypeOK
<1>1. Init => TypeOK
  BY TypeInit
<1>2. TypeOK /\ [Next]_vars => TypeOK'
  BY TypeStep
<1> QED BY <1>1, <1>2, PTL DEF Spec

-----------------------------------------------------------------------------
(* Lookups get closer to their target.                                     *)

(* A node that does not answer for id sends it strictly closer.            *)
LEMMA ClosestIsCloser ==
  ASSUME TypeOK, NEW n \in Node, NEW id \in Id, ~ Answers(n, id),
         ClosestPrecedingNode(n, id) # Nil
  PROVE  Distance(Hash[ClosestPrecedingNode(n, id)], id) < Distance(Hash[n], id)
<1> DEFINE next == ClosestPrecedingNode(n, id)
           S == {i \in Finger :
                   /\ fingerTable[n][i] # Nil
                   /\ FingerPrecedes(Hash[n], HashOf(fingerTable[n][i]), id)}
<1>1. next \in Node /\ HashOf(next) = Hash[next] /\ Hash[next] \in Id /\ Hash[n] \in Id
  BY ClosestType, HashType DEF NodeOrNil, HashOf
<1>2. InOpenArc(Hash[n], HashOf(next), id)
  <2>1. CASE S # {}
    <3>1. Max(S) \in S
      <4>1. S \in SUBSET Finger
        OBVIOUS
      <4> HIDE DEF S
      <4> QED BY <4>1, <2>1, HighestFinger
    <3>2. next = fingerTable[n][Max(S)]
      BY <2>1 DEF ClosestPrecedingNode
    <3>3. FingerPrecedes(Hash[n], HashOf(next), id)
      BY <3>1, <3>2
    <3> QED BY <3>3, <1>1, FingerPrecedesArc
  <2>2. CASE S = {}
    <3>1. ~ isSingleton[n] /\ ~ OwnsTarget(Hash[n], HashOf(successor[n]), id)
      BY DEF Answers
    <3>2. next = successor[n]
      BY <2>2, <3>1 DEF ClosestPrecedingNode
    <3> HIDE DEF next
    <3> QED BY <3>1, <3>2, <1>1, SuccessorPrecedes
  <2> QED BY <2>1, <2>2
<1>3. QED
  BY <1>1, <1>2, ArcShortens

(* Only ForwardFindPred sends a FIND_PRED_REQ on behalf of another node.   *)
Forwarded(m) == m.type = "FIND_PRED_REQ" /\ m.src # m.origin
GetsCloser(m) == Distance(Hash[m.dst], m.target) < Distance(Hash[m.src], m.target)

LEMMA ForwardCloser ==
  ASSUME TypeOK, NEW n \in Node, NEW m \in Messages, ProcessFindPredReq(n, m)
  PROVE  \A x \in Messages' \ Messages : Forwarded(x) => GetsCloser(x)
<1>0. m \in [type : {"FIND_PRED_REQ"}, src : Node, dst : Node, origin : Node,
             target : Id, query : Query \cup {"none"}]
  BY DEF ProcessFindPredReq, Receive, Message, TypeOK, Messages
<1>1. CASE AnswerFindPred(n, m)
  <2> DEFINE r == [type |-> "FIND_PRED_RSP", src |-> n, dst |-> m.origin,
                   successor |-> successor[n], target |-> m.target,
                   query |-> m.query]
  <2>1. Messages' \subseteq Messages \cup {r}
    BY <1>1, ReplyAdds DEF AnswerFindPred
  <2>2. ~ Forwarded(r)
    BY DEF Forwarded
  <2> QED BY <2>1, <2>2
<1>2. CASE ForwardFindPred(n, m)
  <2> DEFINE next == ClosestPrecedingNode(n, m.target)
             r == [m EXCEPT !.src = n, !.dst = next]
  <2>1. CASE next = Nil
    BY <1>2, <2>1, ConsumeRemoves DEF ForwardFindPred
  <2>2. CASE next # Nil
    <3>1. Distance(Hash[next], m.target) < Distance(Hash[n], m.target)
      BY <1>0, <1>2, <2>2, ClosestIsCloser DEF ForwardFindPred
    <3>2. Messages' \subseteq Messages \cup {r}
      BY <1>2, <2>2, ReplyAdds DEF ForwardFindPred
    <3>3. r.src = n /\ r.dst = next /\ r.target = m.target
      BY <1>0
    <3> HIDE DEF next, r
    <3> QED BY <3>1, <3>2, <3>3 DEF GetsCloser
  <2> QED BY <2>1, <2>2
<1> QED BY <1>1, <1>2 DEF ProcessFindPredReq

LEMMA UserForwardsNothing ==
  ASSUME TypeOK, NEW n \in Node, UserStep(n)
  PROVE  \A x \in Messages' \ Messages : ~ Forwarded(x)
<1>1. CASE CreateRing(n)
  BY <1>1 DEF CreateRing, Messages
<1>2. ASSUME NEW c \in Node, Join(n, c) PROVE \A x \in Messages' \ Messages : ~ Forwarded(x)
  <2> DEFINE m == [type |-> "FIND_PRED_REQ", src |-> n, dst |-> c, origin |-> n,
                   target |-> Hash[n], query |-> "none"]
  <2>1. Messages' = Messages \cup {m}
    BY <1>2, SendAdds DEF Join
  <2> QED BY <2>1 DEF Forwarded
<1>3. ASSUME NEW id \in Keys, NEW query \in Query, Lookup(n, id, query)
      PROVE  \A x \in Messages' \ Messages : ~ Forwarded(x)
  <2> DEFINE next == ClosestPrecedingNode(n, id)
             m == [type |-> "FIND_PRED_REQ", src |-> n, dst |-> next,
                   origin |-> n, target |-> id, query |-> query]
  <2>1. Messages' \subseteq Messages \cup {m}
    BY <1>3, SendAdds DEF Lookup, Messages
  <2> HIDE DEF next
  <2> QED BY <2>1 DEF Forwarded
<1>4. CASE RingState(n)
  <2> DEFINE m == [type |-> "RING_STATE", src |-> n,
                   dst |-> HostAt(n, successorIP[n]), origin |-> n]
  <2>1. Messages' = Messages \cup {m}
    BY <1>4, SendAdds DEF RingState
  <2> QED BY <2>1 DEF Forwarded
<1>5. CASE Leave(n)
  <2> DEFINE m == [type |-> "LEAVE_P", src |-> n,
                   dst |-> HostAt(n, predecessorIP[n]), successor |-> successor[n]]
  <2>1. Messages' = Messages \cup {m}
    BY <1>5, SendAdds DEF Leave
  <2> QED BY <2>1 DEF Forwarded
<1> QED BY <1>1, <1>2, <1>3, <1>4, <1>5 DEF UserStep, LookupAnything

LEMMA ThreadsForwardNothing ==
  ASSUME TypeOK, NEW n \in Node,
         \/ TimerStep(n) \/ LeaveSuccessor(n) \/ Exit(n)
         \/ ReadFinger(n) \/ FindSuccessor(n) \/ Notify(n)
  PROVE  \A x \in Messages' \ Messages : ~ Forwarded(x)
<1>1. CASE Stabilize(n)
  <2> DEFINE m == [type |-> "STABILIZE_REQ", src |-> n,
                   dst |-> HostAt(n, successorIP[n])]
  <2>1. Messages' = Messages \cup {m}
    BY <1>1, SendAdds DEF Stabilize
  <2> QED BY <2>1 DEF Forwarded
<1>2. CASE LeaveSuccessor(n)
  <2> DEFINE m == [type |-> "LEAVE_S", src |-> n,
                   dst |-> HostAt(n, successorIP[n]), predecessor |-> predecessor[n]]
  <2>1. Messages' = Messages \cup {m}
    BY <1>2, SendAdds DEF LeaveSuccessor
  <2> QED BY <2>1 DEF Forwarded
<1>3. CASE FindSuccessor(n)
  <2> DEFINE next == ClosestPrecedingNode(n, fixTarget[n])
             m == [type |-> "FIND_PRED_REQ", src |-> n, dst |-> next,
                   origin |-> n, target |-> fixTarget[n], query |-> "none"]
  <2>1. Messages' \subseteq Messages \cup {m}
    BY <1>3, SendAdds DEF FindSuccessor, Messages
  <2> HIDE DEF next
  <2> QED BY <2>1 DEF Forwarded
<1>4. CASE Notify(n)
  <2> DEFINE m == [type |-> "NOTIFY", src |-> n, dst |-> HostAt(n, successorIP[n])]
  <2>1. Messages' = Messages \cup {m}
    BY <1>4, SendAdds DEF Notify
  <2> QED BY <2>1 DEF Forwarded
<1>5. CASE FixFingers(n) \/ Exit(n) \/ ReadFinger(n)
  BY <1>5 DEF FixFingers, Exit, ReadFinger, Messages
<1> QED BY <1>1, <1>2, <1>3, <1>4, <1>5 DEF TimerStep

LEMMA HandlersForwardNothing ==
  ASSUME TypeOK, NEW n \in Node, NEW m \in Messages,
         \/ ProcessRingState(n, m) \/ ProcessFindPredRsp(n, m)
         \/ ProcessLeaveP(n, m) \/ ProcessLeaveS(n, m) \/ ProcessNotify(n, m)
         \/ ProcessStabilizeReq(n, m) \/ ProcessStabilizeRsp(n, m)
         \/ Unreachable(m)
  PROVE  \A x \in Messages' \ Messages : ~ Forwarded(x)
<1>1. CASE ProcessRingState(n, m)
  <2> DEFINE r == [m EXCEPT !.src = n, !.dst = HostAt(n, successorIP[n])]
  <2>1. m \in [type : {"RING_STATE"}, src : Node, dst : Node, origin : Node]
    BY <1>1 DEF ProcessRingState, Receive, Message, TypeOK, Messages
  <2>2. Messages' \subseteq Messages \cup {r}
    BY <1>1, ConsumeRemoves, ReplyAdds DEF ProcessRingState
  <2>3. ~ Forwarded(r)
    BY <2>1 DEF Forwarded
  <2> QED BY <2>2, <2>3
<1>2. CASE ProcessStabilizeReq(n, m)
  <2> DEFINE r == [type |-> "STABILIZE_RSP", src |-> n, dst |-> m.src,
                   predecessor |-> predecessor[n]]
  <2>1. Messages' \subseteq Messages \cup {r}
    BY <1>2, ReplyAdds DEF ProcessStabilizeReq
  <2>2. ~ Forwarded(r)
    BY DEF Forwarded
  <2> QED BY <2>1, <2>2
<1>3. CASE \/ ProcessFindPredRsp(n, m) \/ ProcessLeaveP(n, m) \/ ProcessLeaveS(n, m)
           \/ ProcessNotify(n, m) \/ ProcessStabilizeRsp(n, m) \/ Unreachable(m)
  BY <1>3, ConsumeRemoves DEF ProcessFindPredRsp, ProcessLeaveP, ProcessLeaveS,
     ProcessNotify, ProcessStabilizeRsp, Unreachable
<1> QED BY <1>1, <1>2, <1>3

LEMMA ForwardsStep == TypeOK /\ ForwardsGetCloser /\ [Next]_vars => ForwardsGetCloser'
<1> SUFFICES ASSUME TypeOK, ForwardsGetCloser, [Next]_vars PROVE ForwardsGetCloser'
  OBVIOUS
<1>1. \A x \in Messages' \ Messages : Forwarded(x) => GetsCloser(x)
  <2>1. ASSUME NEW n \in Node,
               \/ UserStep(n) \/ TimerStep(n) \/ LeaveSuccessor(n) \/ Exit(n)
               \/ ReadFinger(n) \/ FindSuccessor(n) \/ Notify(n)
        PROVE  \A x \in Messages' \ Messages : ~ Forwarded(x)
    BY <2>1, UserForwardsNothing, ThreadsForwardNothing
  <2>2. ASSUME NEW m \in Messages, ProcessMessage(m.dst, m) \/ Unreachable(m)
        PROVE  \A x \in Messages' \ Messages : Forwarded(x) => GetsCloser(x)
    <3>1. m.dst \in Node
      BY DEF TypeOK, Messages, Message
    <3> QED BY <2>2, <3>1, ForwardCloser, HandlersForwardNothing DEF ProcessMessage
  <2>3. CASE UNCHANGED vars
    BY <2>3 DEF vars, Messages
  <2> QED BY <2>1, <2>2, <2>3 DEF Next
<1>2. QED
  BY <1>1 DEF ForwardsGetCloser, Forwarded, GetsCloser

(* ProcessFindPredReq, in every behaviour, leaves and crashes included:    *)
(* a forwarded lookup is strictly closer to its target at each hop, since  *)
(* ClosestPrecedingNode only returns fingers before the target and a node  *)
(* that does not answer has its successor before it.                       *)
THEOREM LookupsGetCloser == Spec => []ForwardsGetCloser
<1>1. Init => ForwardsGetCloser
  BY DEF Init, ForwardsGetCloser, Messages, EmptyBag, SetToBag
<1>2. TypeOK /\ ForwardsGetCloser /\ [Next]_vars => ForwardsGetCloser'
  BY ForwardsStep
<1> QED BY <1>1, <1>2, TypeCorrect, PTL DEF Spec

-----------------------------------------------------------------------------
(* What the handlers put into the network.                                 *)

(* x answers a request that is in flight, from the pointer of a node that  *)
(* claims its target.                                                      *)
Answered(x) ==
  \E m \in Messages :
    /\ m.type = "FIND_PRED_REQ" /\ m.dst \in Node /\ Running(m.dst)
    /\ Answers(m.dst, m.target)
    /\ x.dst = m.origin /\ x.target = m.target /\ x.query = m.query
    /\ x.src = m.dst /\ x.successor = successor[m.dst]

(* x is a JOIN, the query for a finger, a user's, or a request passed on.  *)
Asked(x) ==
  \/ x.query = "none" /\ x.target = Hash[x.origin]
  \/ x.query = "none" /\ fixer[x.origin] = "find"
  \/ UserReady(x.origin) /\ x.target \in Keys
  \/ \E m \in Messages :
       /\ m.type = "FIND_PRED_REQ"
       /\ x.origin = m.origin /\ x.target = m.target /\ x.query = m.query

Expected(x) ==
  /\ x.type = "FIND_PRED_RSP" => Answered(x)
  /\ x.type = "FIND_PRED_REQ" => Asked(x)
  /\ x.type = "NOTIFY" => x.src \in Node /\ Running(x.src)
  /\ x.type = "STABILIZE_RSP" =>
       \E n \in Node : Running(n) /\ x.predecessor = predecessor[n]
  /\ x.type = "LEAVE_P" => \E n \in Node : "LEAVE" \in todo[n]
  /\ x.type = "LEAVE_S" => \E n \in Node : process[n] = "leaving"

LEMMA UserSends ==
  ASSUME TypeOK, NEW n \in Node, UserStep(n)
  PROVE  \A x \in Messages' \ Messages : Expected(x)
<1>1. CASE CreateRing(n)
  BY <1>1 DEF CreateRing, Messages
<1>2. ASSUME NEW c \in Node, Join(n, c)
      PROVE  \A x \in Messages' \ Messages : Expected(x)
  <2>1. PICK r : r = [type |-> "FIND_PRED_REQ", src |-> n, dst |-> c, origin |-> n,
                      target |-> Hash[n], query |-> "none"]
    OBVIOUS
  <2>2. Messages' = Messages \cup {r}
    BY <1>2, <2>1, SendAdds DEF Join
  <2>3. Expected(r)
    BY <2>1 DEF Expected, Asked
  <2> QED BY <2>2, <2>3
<1>3. ASSUME NEW id \in Keys, NEW query \in Query, UserReady(n), Lookup(n, id, query)
      PROVE  \A x \in Messages' \ Messages : Expected(x)
  <2> DEFINE next == ClosestPrecedingNode(n, id)
  <2>2. PICK r : r = [type |-> "FIND_PRED_REQ", src |-> n, dst |-> next,
                      origin |-> n, target |-> id, query |-> query]
    OBVIOUS
  <2>3. CASE next = Nil
    BY <1>3, <2>3 DEF Lookup, Messages
  <2>4. CASE next # Nil
    <3>1. Messages' = Messages \cup {r}
      BY <1>3, <2>2, <2>4, SendAdds DEF Lookup
    <3>2. Expected(r)
      BY <1>3, <2>2 DEF Expected, Asked
    <3> QED BY <3>1, <3>2
  <2> QED BY <2>3, <2>4
<1>4. CASE RingState(n)
  <2>1. PICK r : r = [type |-> "RING_STATE", src |-> n,
                      dst |-> HostAt(n, successorIP[n]), origin |-> n]
    OBVIOUS
  <2>2. Messages' = Messages \cup {r}
    BY <1>4, <2>1, SendAdds DEF RingState
  <2> QED BY <2>1, <2>2 DEF Expected
<1>5. CASE Leave(n)
  <2>1. PICK r : r = [type |-> "LEAVE_P", src |-> n,
                      dst |-> HostAt(n, predecessorIP[n]), successor |-> successor[n]]
    OBVIOUS
  <2>2. Messages' = Messages \cup {r}
    BY <1>5, <2>1, SendAdds DEF Leave
  <2>3. "LEAVE" \in todo[n]
    BY <1>5 DEF Leave, Typed
  <2> QED BY <2>1, <2>2, <2>3 DEF Expected
<1> QED BY <1>1, <1>2, <1>3, <1>4, <1>5 DEF UserStep, LookupAnything

LEMMA ThreadSends ==
  ASSUME TypeOK, NEW n \in Node,
         \/ TimerStep(n) \/ LeaveSuccessor(n) \/ Exit(n)
         \/ ReadFinger(n) \/ FindSuccessor(n) \/ Notify(n)
  PROVE  \A x \in Messages' \ Messages : Expected(x)
<1>1. CASE Stabilize(n)
  <2>1. PICK r : r = [type |-> "STABILIZE_REQ", src |-> n,
                      dst |-> HostAt(n, successorIP[n])]
    OBVIOUS
  <2>2. Messages' = Messages \cup {r}
    BY <1>1, <2>1, SendAdds DEF Stabilize
  <2> QED BY <2>1, <2>2 DEF Expected
<1>2. CASE LeaveSuccessor(n)
  <2>1. PICK r : r = [type |-> "LEAVE_S", src |-> n,
                      dst |-> HostAt(n, successorIP[n]), predecessor |-> predecessor[n]]
    OBVIOUS
  <2>2. Messages' = Messages \cup {r}
    BY <1>2, <2>1, SendAdds DEF LeaveSuccessor
  <2>3. process[n] = "leaving"
    BY <1>2 DEF LeaveSuccessor
  <2> QED BY <2>1, <2>2, <2>3 DEF Expected
<1>3. CASE Notify(n)
  <2>1. PICK r : r = [type |-> "NOTIFY", src |-> n, dst |-> HostAt(n, successorIP[n])]
    OBVIOUS
  <2>2. Messages' = Messages \cup {r}
    BY <1>3, <2>1, SendAdds DEF Notify
  <2>3. Running(n)
    BY <1>3 DEF Notify
  <2> QED BY <2>1, <2>2, <2>3 DEF Expected
<1>4. CASE FindSuccessor(n)
  <2> DEFINE next == ClosestPrecedingNode(n, fixTarget[n])
  <2>1. fixer[n] = "find"
    BY <1>4 DEF FindSuccessor
  <2>2. PICK r : r = [type |-> "FIND_PRED_REQ", src |-> n, dst |-> next,
                      origin |-> n, target |-> fixTarget[n], query |-> "none"]
    OBVIOUS
  <2>3. CASE next = Nil
    BY <1>4, <2>3 DEF FindSuccessor, Messages
  <2>4. CASE next # Nil
    <3>1. Messages' = Messages \cup {r}
      BY <1>4, <2>2, <2>4, SendAdds DEF FindSuccessor
    <3>2. Expected(r)
      BY <2>1, <2>2 DEF Expected, Asked
    <3> QED BY <3>1, <3>2
  <2> QED BY <2>3, <2>4
<1>5. CASE FixFingers(n) \/ ReadFinger(n) \/ Exit(n)
  BY <1>5 DEF FixFingers, ReadFinger, Exit, Messages
<1> QED BY <1>1, <1>2, <1>3, <1>4, <1>5 DEF TimerStep

LEMMA HandlerSends ==
  ASSUME TypeOK, NEW n \in Node, NEW m \in Messages, m.dst = n,
         ProcessMessage(n, m) \/ Unreachable(m)
  PROVE  \A x \in Messages' \ Messages : Expected(x)
<1>0. m \in Message
  BY DEF TypeOK, Messages
<1>1. CASE ProcessFindPredReq(n, m)
  <2>1. m \in [type : {"FIND_PRED_REQ"}, src : Node, dst : Node, origin : Node,
               target : Id, query : Query \cup {"none"}]
    BY <1>0, <1>1 DEF ProcessFindPredReq, Receive, Message
  <2>2. CASE AnswerFindPred(n, m)
    <3>0. Running(n)
      BY <1>1 DEF ProcessFindPredReq, Receive
    <3>1. PICK r : r = [type |-> "FIND_PRED_RSP", src |-> n, dst |-> m.origin,
                        successor |-> successor[n], target |-> m.target,
                        query |-> m.query]
      OBVIOUS
    <3>2. Messages' \subseteq Messages \cup {r}
      BY <2>2, <3>1, ReplyAdds DEF AnswerFindPred
    <3>3. Expected(r)
      BY <2>1, <2>2, <3>0, <3>1 DEF Expected, Answered, AnswerFindPred
    <3> QED BY <3>2, <3>3
  <2>3. CASE ForwardFindPred(n, m)
    <3> DEFINE next == ClosestPrecedingNode(n, m.target)
    <3>1. PICK r : r = [m EXCEPT !.src = n, !.dst = next]
      OBVIOUS
    <3>2. Messages' \subseteq Messages \cup {r}
      BY <2>3, <3>1, ConsumeRemoves, ReplyAdds DEF ForwardFindPred
    <3>3. /\ r.type = "FIND_PRED_REQ" /\ r.origin = m.origin
          /\ r.target = m.target /\ r.query = m.query
      <4> HIDE DEF next
      <4> QED BY <2>1, <3>1
    <3>4. Expected(r)
      BY <2>1, <3>3 DEF Expected, Asked
    <3> QED BY <3>2, <3>4
  <2> QED BY <1>1, <2>2, <2>3 DEF ProcessFindPredReq
<1>2. CASE ProcessRingState(n, m)
  <2>1. m \in [type : {"RING_STATE"}, src : Node, dst : Node, origin : Node]
    BY <1>0, <1>2 DEF ProcessRingState, Receive, Message
  <2>2. PICK r : r = [m EXCEPT !.src = n, !.dst = HostAt(n, successorIP[n])]
    OBVIOUS
  <2>3. Messages' \subseteq Messages \cup {r} /\ r.type = "RING_STATE"
    BY <1>2, <2>1, <2>2, ConsumeRemoves, ReplyAdds DEF ProcessRingState
  <2> QED BY <2>3 DEF Expected
<1>3. CASE ProcessStabilizeReq(n, m)
  <2>1. PICK r : r = [type |-> "STABILIZE_RSP", src |-> n, dst |-> m.src,
                      predecessor |-> predecessor[n]]
    OBVIOUS
  <2>2. Messages' \subseteq Messages \cup {r}
    BY <1>3, <2>1, ReplyAdds DEF ProcessStabilizeReq
  <2>3. Running(n)
    BY <1>3 DEF ProcessStabilizeReq, Receive
  <2> QED BY <2>1, <2>2, <2>3 DEF Expected
<1>4. CASE \/ ProcessStabilizeRsp(n, m) \/ ProcessNotify(n, m)
           \/ ProcessFindPredRsp(n, m) \/ ProcessLeaveP(n, m)
           \/ ProcessLeaveS(n, m) \/ Unreachable(m)
  <2>1. Consume(m)
    BY <1>4 DEF ProcessStabilizeRsp, ProcessNotify, ProcessFindPredRsp,
                ProcessLeaveP, ProcessLeaveS, Unreachable
  <2> QED BY <2>1, ConsumeRemoves
<1> QED BY <1>1, <1>2, <1>3, <1>4 DEF ProcessMessage

LEMMA StepSends ==
  ASSUME TypeOK, [Next]_vars
  PROVE  \A x \in Messages' \ Messages : Expected(x)
<1>1. ASSUME NEW n \in Node,
             \/ UserStep(n) \/ TimerStep(n) \/ LeaveSuccessor(n) \/ Exit(n)
             \/ ReadFinger(n) \/ FindSuccessor(n) \/ Notify(n)
      PROVE  \A x \in Messages' \ Messages : Expected(x)
  BY <1>1, UserSends, ThreadSends
<1>2. ASSUME NEW m \in Messages, ProcessMessage(m.dst, m) \/ Unreachable(m)
      PROVE  \A x \in Messages' \ Messages : Expected(x)
  <2>1. m.dst \in Node
    BY DEF TypeOK, Messages, Message
  <2> QED BY <1>2, <2>1, HandlerSends
<1>3. CASE UNCHANGED vars
  BY <1>3 DEF vars, Messages
<1> QED BY <1>1, <1>2, <1>3 DEF Next

-----------------------------------------------------------------------------
(* A command that was typed is not typed again.                            *)
LEMMA TodoShrinks ==
  ASSUME TypeOK, [Next]_vars, NEW n \in Node
  PROVE  todo'[n] \subseteq todo[n]
<1>0. todo \in [Node -> SUBSET CommandName]
  BY DEF TypeOK
<1>1. todo' = todo \/ \E p \in Node, c \in CommandName : Typed(p, c)
  <2>1. ASSUME NEW p \in Node, UserStep(p)
        PROVE  todo' = todo \/ \E c \in CommandName : Typed(p, c)
    BY <2>1 DEF UserStep, CreateRing, Join, RingState, Leave, LookupAnything, Lookup,
                CommandName
  <2>2. ASSUME NEW p \in Node,
               \/ TimerStep(p) \/ LeaveSuccessor(p) \/ Exit(p)
               \/ ReadFinger(p) \/ FindSuccessor(p) \/ Notify(p)
        PROVE  todo' = todo
    BY <2>2 DEF TimerStep, FixFingers, Stabilize, LeaveSuccessor, Exit, ReadFinger,
                FindSuccessor, Notify, commandLine
  <2>3. ASSUME NEW m, ProcessMessage(m.dst, m) \/ Unreachable(m)
        PROVE  todo' = todo
    BY <2>3 DEF ProcessMessage, ProcessStabilizeReq, ProcessStabilizeRsp, ProcessNotify,
                ProcessFindPredReq, ProcessFindPredRsp, ProcessLeaveP, ProcessLeaveS,
                ProcessRingState, Unreachable, commandLine
  <2>4. CASE UNCHANGED vars
    BY <2>4 DEF vars, commandLine
  <2> QED BY <2>1, <2>2, <2>3, <2>4 DEF Next
<1>2. ASSUME NEW p \in Node, NEW c \in CommandName, Typed(p, c)
      PROVE  todo'[n] \subseteq todo[n]
  BY <1>0, <1>2 DEF Typed
<1> QED BY <1>1, <1>2
=============================================================================

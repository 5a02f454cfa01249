-------------------------- MODULE PennLeaveProofs --------------------------
(***************************************************************************)
(* Numbers and addresses, and what brings a process down, for users who    *)
(* JOIN, LEAVE and do not wait, among leaves, crashes and exits, and for    *)
(* any values of the constants.                                            *)
(***************************************************************************)
EXTENDS PennChordProofs

JoinOnce == \A n \in Node : "REJOIN" \notin Commands[n]

AddressNode(n) ==
  /\ "REJOIN" \notin todo[n]
  /\ process[n] = "fresh" => ~inRing[n] /\ ~tryingToJoin[n]
  /\ tryingToJoin[n] => ~inRing[n]
  /\ inRing[n] => successorIP[n] = successor[n]
  /\ predecessor[n] # Nil => predecessorIP[n] = predecessor[n]

(* Inductive: a JOIN response can only hit a node whose pointers are "-1", *)
(* so the one handler that may crash between the number and the address    *)
(* (:526) leaves no member behind whose fields disagree.                   *)
AddressInv == TypeOK /\ \A n \in Node : AddressNode(n)

-----------------------------------------------------------------------------
(* A step that leaves ring and flags alone and makes no process fresh.     *)
LEMMA AddressFrame ==
  ASSUME AddressInv, NEW n \in Node, Crash(n) \/ UNCHANGED process,
         UNCHANGED <<todo, ring, flags>>
  PROVE  \A k \in Node : AddressNode(k)'
BY DEF AddressInv, AddressNode, TypeOK, Crash, ring, flags

LEMMA AddressUser ==
  ASSUME AddressInv, NEW n \in Node, UserStep(n)
  PROVE  \A k \in Node : AddressNode(k)'
<1>1. CASE CreateRing(n)
  <2>1. process[n] = "fresh" /\ Typed(n, "CREATE")
    BY <1>1 DEF CreateRing, Typed, AddressInv, AddressNode
  <2> QED BY <1>1, <2>1, SentinelsAreNoNodes
          DEF CreateRing, Typed, AddressInv, AddressNode, TypeOK
<1>2. ASSUME NEW c \in Node, Join(n, c) PROVE \A k \in Node : AddressNode(k)'
  <2>1. process[n] = "fresh" /\ Typed(n, "JOIN")
    BY <1>2 DEF Join, Typed, AddressInv, AddressNode
  <2>2. ~inRing[n] /\ ~tryingToJoin[n]
    BY <2>1 DEF AddressInv, AddressNode
  <2> QED BY <1>2, <2>1, <2>2 DEF Join, Typed, AddressInv, AddressNode, TypeOK
<1>3. ASSUME NEW id \in Keys, NEW query \in Query, Lookup(n, id, query)
      PROVE  \A k \in Node : AddressNode(k)'
  <2>1. /\ Crash(n) \/ UNCHANGED process
        /\ UNCHANGED <<todo, ring, flags>>
    BY <1>3 DEF Lookup
  <2> QED BY <2>1, AddressFrame
<1>4. CASE RingState(n)
  BY <1>4 DEF RingState, Typed, AddressInv, AddressNode, TypeOK, ring, flags
<1>5. CASE Leave(n)
  BY <1>5 DEF Leave, Typed, AddressInv, AddressNode, TypeOK, ring
<1> QED BY <1>1, <1>2, <1>3, <1>4, <1>5 DEF UserStep, LookupAnything

LEMMA AddressThreads ==
  ASSUME AddressInv, NEW n \in Node,
         \/ TimerStep(n) \/ LeaveSuccessor(n) \/ Exit(n)
         \/ ReadFinger(n) \/ FindSuccessor(n) \/ Notify(n)
  PROVE  \A k \in Node : AddressNode(k)'
<1>1. CASE Stabilize(n)
  BY <1>1 DEF Stabilize, AddressInv, AddressNode, TypeOK, commandLine, ring
<1>2. CASE LeaveSuccessor(n) \/ Exit(n)
  BY <1>2 DEF LeaveSuccessor, Exit, AddressInv, AddressNode, TypeOK, ring, flags
<1>3. CASE FixFingers(n) \/ ReadFinger(n) \/ FindSuccessor(n)
  <2>1. /\ Crash(n) \/ UNCHANGED process
        /\ UNCHANGED <<todo, ring, flags>>
    BY <1>3 DEF FixFingers, ReadFinger, FindSuccessor, commandLine
  <2> QED BY <2>1, AddressFrame
<1>4. CASE Notify(n)
  BY <1>4 DEF Notify, AddressInv, AddressNode, TypeOK, commandLine, ring
<1> QED BY <1>1, <1>2, <1>3, <1>4 DEF TimerStep

(* The handlers that move a pointer move its address with it.              *)
LEMMA AddressPointers ==
  ASSUME AddressInv, NEW n \in Node, NEW m \in Messages,
         \/ ProcessStabilizeRsp(n, m) \/ ProcessNotify(n, m)
         \/ ProcessLeaveP(n, m) \/ ProcessLeaveS(n, m)
  PROVE  \A k \in Node : AddressNode(k)'
<1>1. CASE ProcessStabilizeRsp(n, m)
  <2>1. \/ /\ successor' = [successor EXCEPT ![n] = m.predecessor]
           /\ successorIP' = [successorIP EXCEPT ![n] = m.predecessor]
        \/ UNCHANGED <<successor, successorIP>>
    BY <1>1 DEF ProcessStabilizeRsp
  <2>2. UNCHANGED <<todo, process, predecessor, predecessorIP, inRing, tryingToJoin>>
    BY <1>1 DEF ProcessStabilizeRsp, commandLine, flags
  <2> QED BY <2>1, <2>2 DEF AddressInv, AddressNode, TypeOK
<1>2. CASE ProcessNotify(n, m)
  <2>1. CASE AcceptsNotify(n, m.src)
    <3>1. \/ /\ successor' = [successor EXCEPT ![n] = m.src]
             /\ successorIP' = [successorIP EXCEPT ![n] = m.src]
          \/ UNCHANGED <<successor, successorIP>>
      BY <1>2, <2>1 DEF ProcessNotify
    <3>2. /\ predecessor' = [predecessor EXCEPT ![n] = m.src]
          /\ predecessorIP' = [predecessorIP EXCEPT ![n] = m.src]
          /\ UNCHANGED <<todo, process, inRing, tryingToJoin>>
      BY <1>2, <2>1 DEF ProcessNotify, commandLine
    <3> QED BY <3>1, <3>2 DEF AddressInv, AddressNode, TypeOK
  <2>2. CASE ~AcceptsNotify(n, m.src)
    BY <1>2, <2>2 DEF ProcessNotify, AddressInv, AddressNode, commandLine, ring
  <2> QED BY <2>1, <2>2
<1>3. CASE ProcessLeaveP(n, m)
  <2>1. Crash(n) \/ UNCHANGED process
    BY <1>3 DEF ProcessLeaveP
  <2>2. \/ /\ successor' = [successor EXCEPT ![n] = m.successor]
           /\ successorIP' = [successorIP EXCEPT ![n] = m.successor]
        \/ UNCHANGED <<successor, successorIP>>
    BY <1>3 DEF ProcessLeaveP
  <2>3. UNCHANGED <<todo, predecessor, predecessorIP, inRing, tryingToJoin>>
    BY <1>3 DEF ProcessLeaveP
  <2>4. \A k \in Node : process'[k] = "fresh" => process[k] = "fresh"
    BY <2>1 DEF AddressInv, TypeOK, Crash
  <2> QED BY <2>2, <2>3, <2>4 DEF AddressInv, AddressNode, TypeOK
<1>4. CASE ProcessLeaveS(n, m)
  <2>1. Crash(n) \/ UNCHANGED process
    BY <1>4 DEF ProcessLeaveS
  <2>2. \/ /\ predecessor' = [predecessor EXCEPT ![n] = m.predecessor]
           /\ predecessorIP' = [predecessorIP EXCEPT ![n] = m.predecessor]
        \/ predecessor' = [predecessor EXCEPT ![n] = Nil]
             /\ \E ip : predecessorIP' = [predecessorIP EXCEPT ![n] = ip]
        \/ UNCHANGED <<predecessor, predecessorIP>>
    BY <1>4 DEF ProcessLeaveS
  <2>3. UNCHANGED <<todo, successor, successorIP, inRing, tryingToJoin>>
    BY <1>4 DEF ProcessLeaveS, flags
  <2> QED BY <2>1, <2>2, <2>3 DEF AddressInv, AddressNode, TypeOK, Crash
<1> QED BY <1>1, <1>2, <1>3, <1>4

LEMMA AddressLookups ==
  ASSUME AddressInv, NEW n \in Node, NEW m \in Messages,
         \/ ProcessFindPredReq(n, m) \/ ProcessFindPredRsp(n, m)
         \/ ProcessStabilizeReq(n, m) \/ ProcessRingState(n, m)
  PROVE  \A k \in Node : AddressNode(k)'
<1>1. CASE ProcessFindPredReq(n, m) \/ ProcessStabilizeReq(n, m) \/ ProcessRingState(n, m)
  <2>1. /\ Crash(n) \/ UNCHANGED process
        /\ UNCHANGED <<todo, ring, flags>>
    BY <1>1 DEF ProcessFindPredReq, AnswerFindPred, ForwardFindPred,
                ProcessStabilizeReq, ProcessRingState, commandLine
  <2> QED BY <2>1, AddressFrame
<1>2. CASE ProcessFindPredRsp(n, m)
  <2>1. CASE SearchCallback(n, m) \/ TakeAsFinger(n, m) \/ IgnoreResponse(n, m)
    <3>1. /\ Crash(n) \/ UNCHANGED process
          /\ UNCHANGED <<todo, ring, flags>>
      BY <1>2, <2>1 DEF ProcessFindPredRsp, SearchCallback, TakeAsFinger, IgnoreResponse
    <3> QED BY <3>1, AddressFrame
  <2>2. CASE TakeAsJoin(n, m)
    <3>1. ~inRing[n] /\ process[n] # "fresh"
      BY <2>2 DEF TakeAsJoin, AddressInv, AddressNode
    <3>2. UNCHANGED <<todo, predecessor, predecessorIP>>
      BY <1>2, <2>2 DEF ProcessFindPredRsp, TakeAsJoin
    <3>3. CASE m.successor = Nil
      BY <2>2, <3>1, <3>2, <3>3 DEF TakeAsJoin, AddressInv, AddressNode, TypeOK, Crash
    <3>4. CASE m.successor # Nil
      BY <2>2, <3>1, <3>2, <3>4 DEF TakeAsJoin, AddressInv, AddressNode, TypeOK
    <3> QED BY <3>3, <3>4
  <2> QED BY <1>2, <2>1, <2>2 DEF ProcessFindPredRsp
<1> QED BY <1>1, <1>2

LEMMA AddressStep == AddressInv /\ [Next]_vars => AddressInv'
<1> SUFFICES ASSUME AddressInv, [Next]_vars PROVE AddressInv'
  OBVIOUS
<1>1. TypeOK'
  BY TypeStep DEF AddressInv
<1>2. ASSUME NEW n \in Node,
             \/ UserStep(n) \/ TimerStep(n) \/ LeaveSuccessor(n) \/ Exit(n)
             \/ ReadFinger(n) \/ FindSuccessor(n) \/ Notify(n)
      PROVE  \A k \in Node : AddressNode(k)'
  BY <1>2, AddressUser, AddressThreads
<1>3. ASSUME NEW m \in Messages, ProcessMessage(m.dst, m)
      PROVE  \A k \in Node : AddressNode(k)'
  <2>1. m.dst \in Node
    BY DEF AddressInv, TypeOK, Messages, Message
  <2> QED BY <1>3, <2>1, AddressPointers, AddressLookups DEF ProcessMessage
<1>4. ASSUME NEW m \in Messages, Unreachable(m)
      PROVE  \A k \in Node : AddressNode(k)'
  <2>1. m.src \in Node
    BY DEF AddressInv, TypeOK, Messages, Message
  <2>2. /\ Crash(m.src) \/ UNCHANGED process
        /\ UNCHANGED <<todo, ring, flags>>
    BY <1>4 DEF Unreachable
  <2> QED BY <2>1, <2>2, AddressFrame
<1>5. ASSUME UNCHANGED vars, NEW k \in Node PROVE AddressNode(k)'
  <2>1. UNCHANGED <<process, todo, ring, flags>>
    BY <1>5 DEF vars, commandLine
  <2> QED BY <2>1, AddressFrame
<1> DEFINE Kept == \A k \in Node : AddressNode(k)'
<1>6. Kept
  <2> HIDE DEF Kept
  <2>1. CASE Next
    BY <1>2, <1>3, <1>4, <2>1 DEF Next, Kept
  <2>2. CASE UNCHANGED vars
    BY <1>5, <2>2 DEF Kept
  <2> QED BY <2>1, <2>2
<1> QED BY <1>1, <1>6 DEF AddressInv

(* Joins, leaves and stabilisations in any order, with any number of nodes *)
(* that crash or exit: a member sends to the address of the node its       *)
(* fields name.  (Not so after a second JOIN, which keeps the addresses of *)
(* the old ring, :307.)                                                    *)
THEOREM NumbersAndAddressesAgree ==
  ASSUME JoinOnce
  PROVE  Spec => []AddressesAgree
<1>1. Init => AddressInv
  BY TypeInit, JoinOnce DEF JoinOnce, Init, AddressInv, AddressNode
<1>2. AddressInv /\ [Next]_vars => AddressInv'
  BY AddressStep
<1>3. AddressInv => AddressesAgree
  BY DEF AddressInv, AddressNode, AddressesAgree, Members
<1> QED BY <1>1, <1>2, <1>3, PTL DEF Spec

-----------------------------------------------------------------------------
(* What names a node, as long as JOIN is typed once.                       *)

(* Untouched by a step, which may have ended the process of p.             *)
Same(p) ==
  /\ todo'[p] = todo[p]
  /\ process'[p] = "fresh" => process[p] = "fresh"
  /\ successor'[p] = successor[p] /\ predecessor'[p] = predecessor[p]
  /\ successorIP'[p] = successorIP[p] /\ predecessorIP'[p] = predecessorIP[p]
  /\ isSingleton'[p] = isSingleton[p] /\ inRing'[p] = inRing[p]
  /\ fingerTable'[p] = fingerTable[p]
  /\ fixer'[p] = fixer[p] /\ receiver'[p] = receiver[p]

(* What a step never does to the node it runs at: undo its successor.      *)
Proceeds(n) == n \in Linked => successor'[n] # Nil

LEMMA LinkedFrame ==
  ASSUME LinkedInv, NEW n \in Node, Proceeds(n), \A p \in Node \ {n} : Same(p)
  PROVE  /\ Linked \subseteq Linked'
         /\ \A p \in Node \ {n} : LinkedNode(p)'
         /\ \A m \in Messages : LinkedMessage(m)'
<1>1. Linked \subseteq Linked'
  BY DEF Linked, Proceeds, Same
<1>2. ASSUME NEW p \in Node \ {n} PROVE LinkedNode(p)'
  <2>1. LinkedNode(p) /\ Same(p)
    BY DEF LinkedInv
  <2>2. p \in Linked' <=> p \in Linked
    BY <2>1 DEF Linked, Same
  <2> QED BY <1>1, <2>1, <2>2 DEF LinkedNode, Same
<1>3. ASSUME NEW m \in Messages PROVE LinkedMessage(m)'
  <2>1. LinkedMessage(m) /\ m.src \in Node /\ m.dst \in Node
    BY DEF LinkedInv, TypeOK, Messages, Message
  <2> QED BY <1>1, <2>1 DEF LinkedMessage
<1> QED BY <1>1, <1>2, <1>3

(* What is left to show of a step at n that sends r.                       *)
LEMMA LinkedStep ==
  ASSUME LinkedInv, TypeOK', NEW n \in Node, Proceeds(n),
         \A p \in Node \ {n} : Same(p),
         Linked \subseteq Linked' => LinkedNode(n)',
         NEW r, Messages' \subseteq Messages \cup {r},
         Linked \subseteq Linked' => LinkedMessage(r)'
  PROVE  LinkedInv'
<1>1. Linked \subseteq Linked' /\ \A m \in Messages : LinkedMessage(m)'
  BY LinkedFrame
<1>2. \A p \in Node \ {n} : LinkedNode(p)'
  BY LinkedFrame
<1>3. (\A p \in Node : LinkedNode(p)') /\ \A m \in Messages' : LinkedMessage(m)'
  BY <1>1, <1>2
<1> QED BY <1>3 DEF LinkedInv

LEMMA LinkedStepSilent ==
  ASSUME LinkedInv, TypeOK', NEW n \in Node, Proceeds(n),
         \A p \in Node \ {n} : Same(p),
         Linked \subseteq Linked' => LinkedNode(n)',
         Messages' \subseteq Messages
  PROVE  LinkedInv'
<1>1. Linked \subseteq Linked' /\ \A m \in Messages : LinkedMessage(m)'
  BY LinkedFrame
<1>2. \A p \in Node \ {n} : LinkedNode(p)'
  BY LinkedFrame
<1>3. (\A p \in Node : LinkedNode(p)') /\ \A m \in Messages' : LinkedMessage(m)'
  BY <1>1, <1>2
<1> QED BY <1>3 DEF LinkedInv

(* A step that only passes a message on or answers it.                     *)
LEMMA LinkedStill ==
  ASSUME LinkedInv, TypeOK', NEW n \in Node, \A p \in Node : Same(p),
         NEW r, Messages' \subseteq Messages \cup {r},
         Linked \subseteq Linked' => LinkedMessage(r)'
  PROVE  LinkedInv'
<1>1. LinkedNode(n) /\ Same(n)
  BY DEF LinkedInv
<1>2. Proceeds(n) /\ (n \in Linked' <=> n \in Linked)
  BY <1>1 DEF Same, Proceeds, Linked
<1>3. Linked \subseteq Linked' => LinkedNode(n)'
  BY <1>1, <1>2 DEF LinkedNode, Same
<1> QED BY <1>2, <1>3, LinkedStep

LEMMA LinkedStillSilent ==
  ASSUME LinkedInv, TypeOK', NEW n \in Node, \A p \in Node : Same(p),
         Messages' \subseteq Messages
  PROVE  LinkedInv'
<1>1. LinkedNode(n) /\ Same(n)
  BY DEF LinkedInv
<1>2. Proceeds(n) /\ (n \in Linked' <=> n \in Linked)
  BY <1>1 DEF Same, Proceeds, Linked
<1>3. Linked \subseteq Linked' => LinkedNode(n)'
  BY <1>1, <1>2 DEF LinkedNode, Same
<1> QED BY <1>2, <1>3, LinkedStepSilent

(* ClosestPrecedingNode of a node that has a successor has one, too; and   *)
(* it is Nil only at a node that has none.                                 *)
LEMMA ClosestIsLinked ==
  ASSUME LinkedInv, NEW n \in Node, NEW id \in Id
  PROVE  /\ ClosestPrecedingNode(n, id) \in Linked \cup {Nil}
         /\ n \in Linked => ClosestPrecedingNode(n, id) \in Linked
<1> DEFINE S == {i \in Finger :
                   /\ fingerTable[n][i] # Nil
                   /\ FingerPrecedes(Hash[n], HashOf(fingerTable[n][i]), id)}
<1>1. LinkedNode(n)
  BY DEF LinkedInv
<1>2. CASE S # {}
  <2>1. Max(S) \in S
    <3>1. S \in SUBSET Finger
      OBVIOUS
    <3> HIDE DEF S
    <3> QED BY <3>1, <1>2, HighestFinger
  <2>2. ClosestPrecedingNode(n, id) = fingerTable[n][Max(S)]
    BY <1>2 DEF ClosestPrecedingNode
  <2> QED BY <2>1, <2>2, <1>1 DEF LinkedNode
<1>3. CASE S = {}
  <2>1. ClosestPrecedingNode(n, id) = IF isSingleton[n] THEN n ELSE successor[n]
    BY <1>3 DEF ClosestPrecedingNode
  <2> QED BY <2>1, <1>1 DEF LinkedNode, Linked
<1> QED BY <1>2, <1>3

LEMMA LinkedIsNode == Nil \notin Linked /\ AnyIP \notin Linked /\ Linked \subseteq Node
BY SentinelsAreNoNodes DEF Linked

(* Where a node that has a successor sends to.                             *)
LEMMA LinkedHosts ==
  ASSUME LinkedInv, NEW n \in Node
  PROVE  /\ n \in Linked =>
              HostAt(n, successorIP[n]) = successor[n] /\ successor[n] \in Linked
         /\ predecessor[n] # Nil =>
              HostAt(n, predecessorIP[n]) = predecessor[n] /\ predecessor[n] \in Linked
<1>1. LinkedNode(n)
  BY DEF LinkedInv
<1> QED BY <1>1, LinkedIsNode DEF LinkedNode, Linked, HostAt

LEMMA LinkedLookup ==
  ASSUME LinkedInv, TypeOK', NEW n \in Node, NEW id \in Id, NEW query \in Query,
         Lookup(n, id, query)
  PROVE  LinkedInv'
<1> DEFINE next == ClosestPrecedingNode(n, id)
<1>1. LinkedNode(n) /\ TypeOK
  BY DEF LinkedInv
<1>2. CASE next = Nil
  <2>1. Crash(n) /\ Messages' = Messages
    BY <1>2 DEF Lookup, Messages
  <2>2. \A p \in Node : Same(p)
    BY <1>1, <2>1 DEF Lookup, Crash, Same, TypeOK, ring, flags, fingers, fixThread
  <2> QED BY <2>1, <2>2, LinkedStillSilent
<1>3. CASE next # Nil
  <2>1. next \in Linked
    BY <1>3, ClosestIsLinked
  <2>2. PICK r : r = [type |-> "FIND_PRED_REQ", src |-> n, dst |-> next,
                      origin |-> n, target |-> id, query |-> query]
    OBVIOUS
  <2>3. Messages' \subseteq Messages \cup {r} /\ UNCHANGED process
    BY <1>3, <2>2, SendAdds DEF Lookup
  <2>4. \A p \in Node : Same(p)
    BY <2>3 DEF Lookup, Same, ring, flags, fingers, fixThread
  <2>5. r.type = "FIND_PRED_REQ" /\ r.dst \in Linked
    <3> HIDE DEF next
    <3> QED BY <2>1, <2>2
  <2>6. Linked \subseteq Linked' => LinkedMessage(r)'
    BY <2>5 DEF LinkedMessage
  <2> QED BY <2>3, <2>4, <2>6, LinkedStill
<1> QED BY <1>2, <1>3


LEMMA LinkedUser ==
  ASSUME LinkedInv, TypeOK', NEW n \in Node, UserStep(n)
  PROVE  LinkedInv' \/ Rejoined'
<1>0. LinkedNode(n) /\ TypeOK
  BY DEF LinkedInv
<1>1. ASSUME Typed(n, "REJOIN") PROVE Rejoined'
  <2>1. "REJOIN" \in Commands[n] \ todo'[n]
    BY <1>0, <1>1 DEF Typed, LinkedNode, TypeOK
  <2> QED BY <2>1 DEF Rejoined
<1>2. ASSUME CreateRing(n), Typed(n, "CREATE"), process[n] = "fresh" PROVE LinkedInv'
  <2>1. /\ process'[n] = "up" /\ successor'[n] = n /\ todo'[n] = todo[n] \ {"CREATE"}
        /\ successorIP'[n] = n /\ predecessorIP'[n] = n /\ predecessor'[n] = Nil
        /\ \A i \in Finger : fingerTable'[n][i] = Nil
    BY <1>0, <1>2 DEF CreateRing, Typed, TypeOK
  <2>2. n \in Linked'
    BY <2>1, LinkedIsNode, SentinelsAreNoNodes DEF Linked
  <2>3. Proceeds(n) /\ \A p \in Node \ {n} : Same(p)
    BY <1>0, <1>2, <2>1, <2>2 DEF CreateRing, Typed, Proceeds, Same, Linked, TypeOK, fixThread
  <2>4. LinkedNode(n)'
    BY <1>0, <2>1, <2>2 DEF LinkedNode, HostAt
  <2>5. Messages' \subseteq Messages
    BY <1>2 DEF CreateRing, Messages
  <2> QED BY <2>3, <2>4, <2>5, LinkedStepSilent
<1>3. ASSUME NEW c \in Node, Join(n, c) PROVE LinkedInv' \/ Rejoined'
  <2>1. CASE Typed(n, "REJOIN")
    BY <1>1, <2>1
  <2>2. CASE process[n] = "fresh" /\ Typed(n, "JOIN")
    <3>1. /\ process'[n] = "up" /\ successor'[n] = Nil /\ predecessor'[n] = Nil
          /\ todo'[n] = todo[n] \ {"JOIN"}
          /\ inRing'[n] = inRing[n] /\ isSingleton'[n] = isSingleton[n]
          /\ predecessorIP'[n] = predecessorIP[n]
          /\ \A i \in Finger : fingerTable'[n][i] = Nil
          /\ fixer'[n] = fixer[n] /\ receiver'[n] = receiver[n]
      BY <1>0, <1>3, <2>2 DEF Join, Typed, TypeOK, fixThread
    <3>2. n \notin Linked /\ n \notin Linked'
      BY <1>0, <2>2, <3>1 DEF LinkedNode, Linked
    <3>3. Proceeds(n) /\ \A p \in Node \ {n} : Same(p)
      BY <1>0, <1>3, <2>2, <3>1, <3>2
      DEF Join, Typed, Proceeds, Same, Linked, TypeOK, fixThread
    <3>4. LinkedNode(n)'
      BY <1>0, <2>2, <3>1, <3>2 DEF LinkedNode, HostAt
    <3>5. PICK r : r = [type |-> "FIND_PRED_REQ", src |-> n, dst |-> c, origin |-> n,
                        target |-> Hash[n], query |-> "none"]
      OBVIOUS
    <3>6. Messages' \subseteq Messages \cup {r}
      BY <1>3, <3>5, SendAdds DEF Join
    <3>7. c \in Linked
      BY <1>3 DEF Join, LinkedInv, LinkedNode
    <3>8. Linked \subseteq Linked' => LinkedMessage(r)'
      BY <3>5, <3>7 DEF LinkedMessage
    <3> QED BY <3>3, <3>4, <3>6, <3>8, LinkedStep
  <2> QED BY <1>3, <2>1, <2>2 DEF Join
<1>4. ASSUME NEW id \in Keys, NEW query \in Query, Lookup(n, id, query)
      PROVE  LinkedInv'
  BY <1>4, UserInput, LinkedLookup
<1>5. CASE RingState(n)
  <2>1. PICK r : r = [type |-> "RING_STATE", src |-> n,
                      dst |-> HostAt(n, successorIP[n]), origin |-> n]
    OBVIOUS
  <2>2. Messages' \subseteq Messages \cup {r} /\ LinkedMessage(r)'
    BY <1>5, <2>1, SendAdds DEF RingState, LinkedMessage
  <2>3. todo'[n] = todo[n] \ {"RINGSTATE"}
    BY <1>0, <1>5 DEF RingState, Typed, TypeOK
  <2>4. Proceeds(n) /\ \A p \in Node \ {n} : Same(p)
    BY <1>0, <1>5, <2>3 DEF RingState, Typed, Proceeds, Same, Linked, TypeOK, ring,
                            flags, fingers, fixThread
  <2>5. Linked \subseteq Linked' => LinkedNode(n)'
    BY <1>0, <1>5, <2>3 DEF RingState, LinkedNode, HostAt, Linked, ring, flags,
                            fingers, fixThread
  <2> QED BY <2>2, <2>4, <2>5, LinkedStep
<1>6. CASE Leave(n)
  <2>1. todo'[n] = todo[n] \ {"LEAVE"} /\ process'[n] = "leaving" /\ ~ inRing'[n]
    BY <1>0, <1>6 DEF Leave, Typed, TypeOK
  <2>2. PICK r : r = [type |-> "LEAVE_P", src |-> n,
                      dst |-> HostAt(n, predecessorIP[n]), successor |-> successor[n]]
    OBVIOUS
  <2>3. Messages' \subseteq Messages \cup {r}
    BY <1>6, <2>2, SendAdds DEF Leave
  <2>4. r.successor \in Linked \/ (r.successor = Nil /\ r.dst \in Impatient)
    <3>1. CASE successor[n] # Nil
      BY <1>0, <2>2, <3>1 DEF LinkedNode
    <3>2. CASE successor[n] = Nil
      <4>1. predecessor[n] = Nil /\ ~ inRing[n]
        BY <1>0, <3>2 DEF LinkedNode, Linked
      <4>2. HostAt(n, predecessorIP[n]) = n /\ n \in Impatient
        BY <1>0, <1>6, <4>1 DEF LinkedNode, Leave, UserReady
      <4> QED BY <2>2, <3>2, <4>2
    <3> QED BY <3>1, <3>2
  <2>5. Linked \subseteq Linked' => LinkedMessage(r)'
    BY <2>2, <2>4 DEF LinkedMessage
  <2>6. Proceeds(n) /\ \A p \in Node \ {n} : Same(p)
    BY <1>0, <1>6, <2>1 DEF Leave, Typed, Proceeds, Same, Linked, TypeOK, ring,
                            fingers, fixThread
  <2>7. Linked \subseteq Linked' => LinkedNode(n)'
    BY <1>0, <1>6, <2>1 DEF Leave, LinkedNode, HostAt, Linked, ring, fingers, fixThread
  <2> QED BY <2>3, <2>5, <2>6, <2>7, LinkedStep
<1>7. CreateRing(n) => LinkedInv' \/ Rejoined'
  BY <1>1, <1>2 DEF CreateRing
<1> QED BY <1>3, <1>4, <1>5, <1>6, <1>7 DEF UserStep, LookupAnything

LEMMA LinkedThreads ==
  ASSUME LinkedInv, TypeOK', NEW n \in Node,
         \/ TimerStep(n) \/ LeaveSuccessor(n) \/ Exit(n)
         \/ ReadFinger(n) \/ FindSuccessor(n) \/ Notify(n)
  PROVE  LinkedInv'
<1>0. LinkedNode(n) /\ TypeOK
  BY DEF LinkedInv
<1>1. CASE FixFingers(n) \/ ReadFinger(n)
  <2>1. Proceeds(n) /\ \A p \in Node \ {n} : Same(p)
    BY <1>0, <1>1 DEF FixFingers, ReadFinger, Proceeds, Same, Linked, commandLine,
                      ring, flags, fingers, TypeOK
  <2>2. n \in Linked
    BY <1>0, <1>1 DEF FixFingers, ReadFinger, LinkedNode
  <2>3. Linked \subseteq Linked' => LinkedNode(n)'
    BY <1>0, <1>1, <2>2 DEF FixFingers, ReadFinger, LinkedNode, Linked,
                            commandLine, ring, flags, fingers
  <2>4. Messages' \subseteq Messages
    BY <1>1 DEF FixFingers, ReadFinger, Messages
  <2> QED BY <2>1, <2>3, <2>4, LinkedStepSilent
<1>2. CASE FindSuccessor(n)
  <2> DEFINE next == ClosestPrecedingNode(n, fixTarget[n])
  <2>1. n \in Linked /\ fixTarget[n] \in Id
    BY <1>0, <1>2 DEF FindSuccessor, LinkedNode, TypeOK
  <2>2. next \in Linked /\ next # Nil
    BY <2>1, ClosestIsLinked, LinkedIsNode
  <2>3. UNCHANGED process
    BY <1>2, <2>2 DEF FindSuccessor
  <2>4. Proceeds(n) /\ \A p \in Node \ {n} : Same(p)
    BY <1>0, <1>2, <2>3 DEF FindSuccessor, Proceeds, Same, Linked, ring, flags, TypeOK
  <2>5. Linked \subseteq Linked' => LinkedNode(n)'
    BY <1>0, <1>2, <2>1, <2>3 DEF FindSuccessor, LinkedNode, Linked, ring, flags
  <2>6. PICK r : r = [type |-> "FIND_PRED_REQ", src |-> n, dst |-> next,
                      origin |-> n, target |-> fixTarget[n], query |-> "none"]
    OBVIOUS
  <2>7. Messages' \subseteq Messages \cup {r}
    BY <1>2, <2>2, <2>6, SendAdds DEF FindSuccessor
  <2>8. r.type = "FIND_PRED_REQ" /\ r.dst \in Linked
    <3> HIDE DEF next
    <3> QED BY <2>2, <2>6
  <2>9. Linked \subseteq Linked' => LinkedMessage(r)'
    BY <2>8 DEF LinkedMessage
  <2> QED BY <2>4, <2>5, <2>7, <2>9, LinkedStep
<1>3. CASE Stabilize(n) \/ Notify(n)
  <2>1. n \in Linked
    BY <1>0, <1>3 DEF Stabilize, Stabilizes, Notify, LinkedNode
  <2>2. PICK r : /\ r \in {[type |-> t, src |-> n, dst |-> HostAt(n, successorIP[n])] :
                           t \in {"STABILIZE_REQ", "NOTIFY"}}
                 /\ Send(r)
    BY <1>3 DEF Stabilize, Notify
  <2>3. Messages' \subseteq Messages \cup {r}
    BY <2>2, SendAdds
  <2>4. Linked \subseteq Linked' => LinkedMessage(r)'
    <3>1. r.type \in {"STABILIZE_REQ", "NOTIFY"} /\ r.src \in Linked /\ r.dst \in Linked
      BY <2>1, <2>2, LinkedHosts
    <3> QED BY <3>1 DEF LinkedMessage
  <2>5. Proceeds(n) /\ \A p \in Node \ {n} : Same(p)
    BY <1>0, <1>3 DEF Stabilize, Notify, Proceeds, Same, Linked, commandLine, ring,
                      fingers, fixThread, TypeOK
  <2>6. Linked \subseteq Linked' => LinkedNode(n)'
    BY <1>0, <1>3, <2>1 DEF Stabilize, Notify, LinkedNode, Linked,
                            commandLine, ring, fingers, fixThread
  <2> QED BY <2>3, <2>4, <2>5, <2>6, LinkedStep
<1>4. CASE LeaveSuccessor(n)
  <2>1. UNCHANGED <<todo, ring, flags, fingers, fixThread, receiver>>
    BY <1>4 DEF LeaveSuccessor
  <2>2. \A p \in Node : Same(p)
    BY <1>0, <1>4, <2>1 DEF LeaveSuccessor, Same, TypeOK, ring, flags, fingers, fixThread
  <2>3. PICK r : r = [type |-> "LEAVE_S", src |-> n,
                      dst |-> HostAt(n, successorIP[n]), predecessor |-> predecessor[n]]
    OBVIOUS
  <2>4. Messages' \subseteq Messages \cup {r}
    BY <1>4, <2>3, SendAdds DEF LeaveSuccessor
  <2>5. predecessor[n] # Nil => n \in Linked
    BY <1>0 DEF LinkedNode
  <2>6. r.predecessor = Nil \/ (r.predecessor \in Linked /\ r.dst \in Linked)
    BY <2>3, <2>5, LinkedHosts
  <2>7. Linked \subseteq Linked' => LinkedMessage(r)'
    BY <2>3, <2>6 DEF LinkedMessage
  <2> QED BY <2>2, <2>4, <2>7, LinkedStill
<1>5. CASE Exit(n)
  <2>1. \A p \in Node : Same(p)
    BY <1>0, <1>5 DEF Exit, Same, TypeOK, ring, flags, fingers, fixThread
  <2>2. Messages' \subseteq Messages
    BY <1>5 DEF Exit, Messages
  <2> QED BY <2>1, <2>2, LinkedStillSilent
<1> QED BY <1>1, <1>2, <1>3, <1>4, <1>5 DEF TimerStep

LEMMA LinkedStabilization ==
  ASSUME LinkedInv, TypeOK', NEW n \in Node, NEW m \in Messages,
         \/ ProcessStabilizeReq(n, m) \/ ProcessStabilizeRsp(n, m)
         \/ ProcessNotify(n, m)
  PROVE  LinkedInv'
<1>0. LinkedNode(n) /\ TypeOK /\ LinkedMessage(m)
  BY DEF LinkedInv
<1>1. CASE ProcessStabilizeReq(n, m)
  <2>1. m.src \in Linked /\ predecessor[n] \in Linked \cup {Nil}
    BY <1>0, <1>1 DEF ProcessStabilizeReq, Receive, LinkedMessage, LinkedNode
  <2>2. \A p \in Node : Same(p)
    BY <1>1 DEF ProcessStabilizeReq, Same, commandLine, ring, flags, fingers, fixThread
  <2>3. PICK r : r = [type |-> "STABILIZE_RSP", src |-> n, dst |-> m.src,
                      predecessor |-> predecessor[n]]
    OBVIOUS
  <2>4. Messages' \subseteq Messages \cup {r}
    BY <1>1, <2>3, ReplyAdds DEF ProcessStabilizeReq
  <2>5. Linked \subseteq Linked' => LinkedMessage(r)'
    BY <2>1, <2>3 DEF LinkedMessage
  <2> QED BY <2>2, <2>4, <2>5, LinkedStill
<1>2. CASE ProcessStabilizeRsp(n, m)
  <2>1. n \in Linked /\ m.predecessor \in Linked \cup {Nil}
    BY <1>0, <1>2 DEF ProcessStabilizeRsp, Receive, LinkedMessage
  <2>2. \/ successor'[n] = successor[n] /\ successorIP'[n] = successorIP[n]
        \/ /\ successor'[n] = m.predecessor /\ successorIP'[n] = m.predecessor
           /\ m.predecessor # Nil
    BY <1>0, <1>2 DEF ProcessStabilizeRsp, Adopts, TypeOK
  <2>3. successor'[n] \in Linked /\ successorIP'[n] = successor'[n]
    BY <1>0, <2>1, <2>2, LinkedIsNode DEF LinkedNode, Linked
  <2>4. UNCHANGED <<commandLine, predecessor, predecessorIP, flags, fingers, fixThread>>
    BY <1>2 DEF ProcessStabilizeRsp
  <2>5. Proceeds(n) /\ \A p \in Node \ {n} : Same(p)
    BY <1>0, <1>2, <2>3, <2>4, LinkedIsNode
    DEF ProcessStabilizeRsp, Proceeds, Same, commandLine, flags, fingers, fixThread, TypeOK
  <2>6. Linked \subseteq Linked' => LinkedNode(n)'
    BY <1>0, <2>1, <2>3, <2>4 DEF LinkedNode, commandLine, flags, fingers, fixThread
  <2>7. Messages' \subseteq Messages
    BY <1>2, ConsumeRemoves DEF ProcessStabilizeRsp
  <2> QED BY <2>5, <2>6, <2>7, LinkedStepSilent
<1>3. CASE ProcessNotify(n, m)
  <2>0. Messages' \subseteq Messages
    BY <1>3, ConsumeRemoves DEF ProcessNotify
  <2>1. n \in Linked /\ m.src \in Linked
    BY <1>0, <1>3 DEF ProcessNotify, Receive, LinkedMessage
  <2>2. CASE AcceptsNotify(n, m.src)
    <3>1. predecessor'[n] = m.src /\ predecessorIP'[n] = m.src
      BY <1>0, <1>3, <2>2 DEF ProcessNotify, TypeOK
    <3>2. \/ successor'[n] = successor[n] /\ successorIP'[n] = successorIP[n]
          \/ successor'[n] = m.src /\ successorIP'[n] = m.src
      BY <1>0, <1>3, <2>2 DEF ProcessNotify, TypeOK
    <3>3. successor'[n] \in Linked /\ successorIP'[n] = successor'[n]
      BY <1>0, <2>1, <3>2, LinkedIsNode DEF LinkedNode, Linked
    <3>4. UNCHANGED <<commandLine, inRing, fingers, fixThread, receiver>>
      BY <1>3 DEF ProcessNotify
    <3>5. Proceeds(n) /\ \A p \in Node \ {n} : Same(p)
      BY <1>0, <1>3, <2>2, <3>3, <3>4, LinkedIsNode
      DEF ProcessNotify, Proceeds, Same, commandLine, fingers, fixThread, TypeOK
    <3>6. Linked \subseteq Linked' => LinkedNode(n)'
      BY <1>0, <2>1, <3>1, <3>3, <3>4, LinkedIsNode
      DEF LinkedNode, commandLine, fingers, fixThread
    <3> QED BY <2>0, <3>5, <3>6, LinkedStepSilent
  <2>3. CASE ~ AcceptsNotify(n, m.src)
    <3>1. \A p \in Node : Same(p)
      BY <1>3, <2>3 DEF ProcessNotify, Same, commandLine, ring, fingers, fixThread
    <3> QED BY <2>0, <3>1, LinkedStillSilent
  <2> QED BY <2>2, <2>3
<1> QED BY <1>1, <1>2, <1>3

LEMMA LinkedLookups ==
  ASSUME LinkedInv, TypeOK', NEW n \in Node, NEW m \in Messages,
         ProcessFindPredReq(n, m) \/ ProcessFindPredRsp(n, m)
  PROVE  LinkedInv'
<1>0. LinkedNode(n) /\ TypeOK /\ LinkedMessage(m) /\ m \in Message
  BY DEF LinkedInv, TypeOK, Messages
<1>1. CASE ProcessFindPredReq(n, m)
  <2>1. /\ n \in Linked
        /\ m \in [type : {"FIND_PRED_REQ"}, src : Node, dst : Node, origin : Node,
                  target : Id, query : Query \cup {"none"}]
    BY <1>0, <1>1 DEF ProcessFindPredReq, Receive, LinkedMessage, Message
  <2>2. CASE AnswerFindPred(n, m)
    <3>1. \A p \in Node : Same(p)
      BY <1>1, <2>2 DEF ProcessFindPredReq, AnswerFindPred, Same, ring, flags, fingers,
                        fixThread
    <3>2. PICK r : r = [type |-> "FIND_PRED_RSP", src |-> n, dst |-> m.origin,
                        successor |-> successor[n], target |-> m.target,
                        query |-> m.query]
      OBVIOUS
    <3>3. Messages' \subseteq Messages \cup {r}
      BY <2>2, <3>2, ReplyAdds DEF AnswerFindPred
    <3>4. Linked \subseteq Linked' => LinkedMessage(r)'
      BY <2>1, <3>2, LinkedHosts DEF LinkedMessage
    <3> QED BY <3>1, <3>3, <3>4, LinkedStill
  <2>3. CASE ForwardFindPred(n, m)
    <3> DEFINE next == ClosestPrecedingNode(n, m.target)
    <3>1. next \in Linked /\ next # Nil
      BY <2>1, ClosestIsLinked, LinkedIsNode
    <3>2. UNCHANGED process
      BY <2>3, <3>1 DEF ForwardFindPred
    <3>3. \A p \in Node : Same(p)
      BY <1>1, <3>2 DEF ProcessFindPredReq, Same, ring, flags, fingers, fixThread
    <3>4. PICK r : r = [m EXCEPT !.src = n, !.dst = next]
      OBVIOUS
    <3>5. Messages' \subseteq Messages \cup {r}
      BY <2>3, <3>1, <3>4, ReplyAdds DEF ForwardFindPred
    <3>6. r.type = "FIND_PRED_REQ" /\ r.dst \in Linked
      <4> HIDE DEF next
      <4> QED BY <2>1, <3>1, <3>4
    <3>7. Linked \subseteq Linked' => LinkedMessage(r)'
      BY <3>6 DEF LinkedMessage
    <3> QED BY <3>3, <3>5, <3>7, LinkedStill
  <2> QED BY <1>1, <2>2, <2>3 DEF ProcessFindPredReq
<1>2. CASE ProcessFindPredRsp(n, m)
  <2>1. m.successor \in Linked /\ m.successor # Nil
    BY <1>0, <1>2, LinkedIsNode DEF ProcessFindPredRsp, Receive, LinkedMessage
  <2>2. Messages' \subseteq Messages /\ UNCHANGED <<todo, fixThread, receiver>>
    BY <1>2, ConsumeRemoves DEF ProcessFindPredRsp
  <2>3. CASE SearchCallback(n, m) \/ IgnoreResponse(n, m)
    <3>1. \A p \in Node : Same(p)
      BY <1>0, <2>2, <2>3 DEF SearchCallback, IgnoreResponse, Crash, Same, TypeOK,
                              ring, flags, fingers, fixThread
    <3> QED BY <2>2, <3>1, LinkedStillSilent
  <2>4. CASE TakeAsJoin(n, m)
    <3>1. successor'[n] = m.successor /\ successorIP'[n] = m.successor
      BY <1>0, <2>1, <2>4 DEF TakeAsJoin, TypeOK
    <3>2. UNCHANGED <<process, predecessor, predecessorIP, isSingleton, fingers>>
      BY <2>1, <2>4 DEF TakeAsJoin
    <3>3. Proceeds(n) /\ \A p \in Node \ {n} : Same(p)
      BY <1>0, <2>1, <2>2, <2>4, <3>1, <3>2
      DEF TakeAsJoin, Proceeds, Same, fingers, fixThread, TypeOK
    <3>4. process[n] # "fresh"
      BY <1>2 DEF ProcessFindPredRsp, Receive, Running
    <3>5. Linked \subseteq Linked' => LinkedNode(n)'
      BY <1>0, <2>1, <2>2, <3>1, <3>2, <3>4
      DEF LinkedNode, Linked, fingers, fixThread
    <3> QED BY <2>2, <3>3, <3>5, LinkedStepSilent
  <2>5. CASE TakeAsFinger(n, m)
    <3>1. UNCHANGED <<process, ring, flags>>
      BY <2>5 DEF TakeAsFinger
    <3>2. fingerTable' = [fingerTable EXCEPT ![n][nextFinger[n]] = m.successor]
      BY <2>5 DEF TakeAsFinger
    <3>3. Proceeds(n) /\ \A p \in Node \ {n} : Same(p)
      BY <1>0, <2>2, <3>1, <3>2 DEF Proceeds, Same, Linked, ring, flags, fixThread, TypeOK
    <3>4. \A i \in Finger : fingerTable'[n][i] \in {fingerTable[n][i], m.successor}
      BY <1>0, <3>2 DEF TypeOK
    <3>5. Linked \subseteq Linked' => LinkedNode(n)'
      BY <1>0, <2>1, <2>2, <3>1, <3>4
      DEF LinkedNode, Linked, ring, flags, fixThread
    <3> QED BY <2>2, <3>3, <3>5, LinkedStepSilent
  <2> QED BY <1>2, <2>3, <2>4, <2>5 DEF ProcessFindPredRsp
<1> QED BY <1>1, <1>2

LEMMA LinkedLeaves ==
  ASSUME LinkedInv, TypeOK', NEW n \in Node, NEW m \in Messages, m.dst = n,
         \/ ProcessLeaveP(n, m) \/ ProcessLeaveS(n, m)
         \/ ProcessRingState(n, m) \/ Unreachable(m)
  PROVE  LinkedInv'
<1>0. LinkedNode(n) /\ TypeOK /\ LinkedMessage(m) /\ m \in Message
  BY DEF LinkedInv, TypeOK, Messages
<1>1. CASE ProcessRingState(n, m)
  <2>1. m \in [type : {"RING_STATE"}, src : Node, dst : Node, origin : Node]
    BY <1>0, <1>1 DEF ProcessRingState, Receive, Message
  <2>2. \A p \in Node : Same(p)
    BY <1>1 DEF ProcessRingState, Same, commandLine, ring, flags, fingers, fixThread
  <2>3. PICK r : r = [m EXCEPT !.src = n, !.dst = HostAt(n, successorIP[n])]
    OBVIOUS
  <2>4. Messages' \subseteq Messages \cup {r} /\ r.type = "RING_STATE"
    BY <1>1, <2>1, <2>3, ConsumeRemoves, ReplyAdds DEF ProcessRingState
  <2> QED BY <2>2, <2>4, LinkedStill DEF LinkedMessage
<1>2. CASE ProcessLeaveP(n, m)
  <2>1. Messages' \subseteq Messages /\ process[n] # "fresh"
    BY <1>2, ConsumeRemoves DEF ProcessLeaveP, Receive, Running
  <2>2. CASE m.successor = Nil
    <3>1. \A p \in Node : Same(p)
      BY <1>0, <1>2, <2>2 DEF ProcessLeaveP, Crash, Same, TypeOK, fingers, fixThread
    <3> QED BY <2>1, <3>1, LinkedStillSilent
  <2>3. CASE m.successor # Nil
    <3>1. m.successor \in Linked
      BY <1>0, <1>2, <2>3 DEF ProcessLeaveP, Receive, LinkedMessage
    <3>2. successor'[n] = m.successor /\ successorIP'[n] = m.successor
      BY <1>0, <1>2, <2>3 DEF ProcessLeaveP, TypeOK
    <3>3. UNCHANGED <<todo, process, predecessor, predecessorIP, inRing, fingers,
                      fixThread, receiver>>
      BY <1>2, <2>3 DEF ProcessLeaveP
    <3>4. Proceeds(n) /\ \A p \in Node \ {n} : Same(p)
      BY <1>0, <1>2, <2>3, <3>2, <3>3
      DEF ProcessLeaveP, Proceeds, Same, fingers, fixThread, TypeOK
    <3>5. Linked \subseteq Linked' => LinkedNode(n)'
      BY <1>0, <2>1, <2>3, <3>1, <3>2, <3>3
      DEF LinkedNode, HostAt, Linked, fingers, fixThread
    <3> QED BY <2>1, <3>4, <3>5, LinkedStepSilent
  <2> QED BY <2>2, <2>3
<1>3. CASE ProcessLeaveS(n, m)
  <2>1. /\ Messages' \subseteq Messages
        /\ UNCHANGED <<todo, successor, successorIP, flags, fingers, fixThread, receiver>>
    BY <1>3, ConsumeRemoves DEF ProcessLeaveS
  <2>2. CASE m.predecessor = Nil
    <3>1. \A p \in Node : Same(p)
      BY <1>0, <1>3, <2>1, <2>2 DEF ProcessLeaveS, Crash, Same, TypeOK, flags, fingers,
                                    fixThread
    <3> QED BY <2>1, <3>1, LinkedStillSilent
  <2>3. CASE m.predecessor # Nil
    <3>1. n \in Linked /\ m.predecessor \in Linked
      BY <1>0, <1>3, <2>3 DEF ProcessLeaveS, Receive, LinkedMessage
    <3>2. \/ predecessor'[n] = Nil /\ predecessorIP'[n] = AnyIP
          \/ predecessor'[n] = m.predecessor /\ predecessorIP'[n] = m.predecessor
      BY <1>0, <1>3, <2>3 DEF ProcessLeaveS, TypeOK
    <3>3. UNCHANGED process
      BY <1>3, <2>3 DEF ProcessLeaveS
    <3>4. Proceeds(n) /\ \A p \in Node \ {n} : Same(p)
      BY <1>0, <1>3, <2>1, <2>3, <3>3
      DEF ProcessLeaveS, Proceeds, Same, Linked, flags, fingers, fixThread, TypeOK
    <3>5. Linked \subseteq Linked' => LinkedNode(n)'
      BY <1>0, <2>1, <3>1, <3>2, <3>3, LinkedIsNode
      DEF LinkedNode, HostAt, Linked, flags, fingers, fixThread
    <3> QED BY <2>1, <3>4, <3>5, LinkedStepSilent
  <2> QED BY <2>2, <2>3
<1>4. CASE Unreachable(m)
  <2>1. m.src \in Node /\ (Crash(m.src) \/ UNCHANGED process)
    BY <1>0, <1>4 DEF Unreachable, Message
  <2>2. \A p \in Node : Same(p)
    BY <1>0, <1>4, <2>1 DEF Unreachable, Crash, Same, TypeOK, ring, flags, fingers, fixThread
  <2>3. Messages' \subseteq Messages
    BY <1>4, ConsumeRemoves DEF Unreachable
  <2> QED BY <2>2, <2>3, LinkedStillSilent
<1> QED BY <1>1, <1>2, <1>3, <1>4

LEMMA LinkedInit == Init => LinkedInv
<1> SUFFICES ASSUME Init PROVE LinkedInv
  OBVIOUS
<1>1. Messages = {}
  BY DEF Init, Messages, EmptyBag, SetToBag
<1>2. ASSUME NEW n \in Node PROVE LinkedNode(n)
  BY DEF Init, LinkedNode, Linked, HostAt
<1> QED BY <1>1, <1>2, TypeInit DEF LinkedInv

LEMMA LinkedNext ==
  ASSUME LinkedInv, [Next]_vars
  PROVE  LinkedInv' \/ Rejoined'
<1>0. TypeOK'
  BY TypeStep DEF LinkedInv
<1>1. ASSUME NEW n \in Node,
             \/ UserStep(n) \/ TimerStep(n) \/ LeaveSuccessor(n) \/ Exit(n)
             \/ ReadFinger(n) \/ FindSuccessor(n) \/ Notify(n)
      PROVE  LinkedInv' \/ Rejoined'
  BY <1>0, <1>1, LinkedUser, LinkedThreads
<1>2. ASSUME NEW m \in Messages, ProcessMessage(m.dst, m) \/ Unreachable(m)
      PROVE  LinkedInv'
  <2>1. m.dst \in Node
    BY DEF LinkedInv, TypeOK, Messages, Message
  <2> QED BY <1>0, <1>2, <2>1, LinkedStabilization, LinkedLookups, LinkedLeaves
          DEF ProcessMessage
<1>3. CASE UNCHANGED vars
  <2>1. Messages' = Messages /\ Linked' = Linked
    BY <1>3 DEF vars, Messages, Linked, ring
  <2>2. UNCHANGED <<todo, process, ring, flags, fingers, fixer, receiver>>
    BY <1>3 DEF vars, commandLine, fixThread
  <2>3. ASSUME NEW n \in Node PROVE LinkedNode(n)'
    BY <2>1, <2>2 DEF LinkedInv, LinkedNode, HostAt, ring, flags, fingers
  <2>4. ASSUME NEW m \in Messages PROVE LinkedMessage(m)'
    BY <2>1 DEF LinkedInv, LinkedMessage
  <2> QED BY <1>0, <2>1, <2>3, <2>4 DEF LinkedInv
<1> QED BY <1>1, <1>2, <1>3 DEF Next

-----------------------------------------------------------------------------
(* Every step that brings a process down has a cause.                      *)

Caused(n) ==
  \/ \E m \in Messages : Consume(m) /\ (Refused(n, m) \/ ToldNothing(n, m))
  \/ n \in Impatient /\ successor[n] = Nil

Falls(n) == process[n] # "crashed" /\ process'[n] = "crashed"

LEMMA FallsAtItself ==
  ASSUME TypeOK, NEW k \in Node, Crash(k), NEW n \in Node, Falls(n)
  PROVE  n = k
BY DEF Falls, Crash, TypeOK

LEMMA UserFalls ==
  ASSUME LinkedInv, NEW k \in Node, UserStep(k), NEW n \in Node, Falls(n)
  PROVE  Caused(n)
<1>0. LinkedNode(n) /\ TypeOK
  BY DEF LinkedInv
<1>1. CASE CreateRing(k) \/ \E c \in Node : Join(k, c)
  <2>1. process' = [process EXCEPT ![k] = "up"]
    BY <1>1 DEF CreateRing, Join
  <2> QED BY <1>0, <2>1 DEF Falls, TypeOK
<1>2. CASE RingState(k) \/ Leave(k)
  BY <1>0, <1>2 DEF RingState, Leave, Falls, TypeOK
<1>3. ASSUME NEW id \in Keys, NEW query \in Query, UserReady(k), Lookup(k, id, query)
      PROVE  Caused(n)
  <2>1. ClosestPrecedingNode(k, id) = Nil /\ Crash(k)
    BY <1>3 DEF Lookup, Falls
  <2>2. n = k /\ n \notin Linked
    BY <1>0, <2>1, FallsAtItself, UserInput, ClosestIsLinked, LinkedIsNode
  <2>3. n \in Impatient /\ successor[n] = Nil
    BY <1>0, <1>3, <2>2 DEF UserReady, LinkedNode, Linked
  <2> QED BY <2>3 DEF Caused
<1> QED BY <1>1, <1>2, <1>3 DEF UserStep, LookupAnything

(* The threads of a node that has a successor always find a node to ask.   *)
LEMMA ThreadFalls ==
  ASSUME LinkedInv, NEW k \in Node,
         \/ TimerStep(k) \/ LeaveSuccessor(k) \/ Exit(k)
         \/ ReadFinger(k) \/ FindSuccessor(k) \/ Notify(k)
  PROVE  \A n \in Node : ~ Falls(n)
<1>0. LinkedNode(k) /\ TypeOK
  BY DEF LinkedInv
<1>1. CASE TimerStep(k) \/ ReadFinger(k) \/ Notify(k)
  BY <1>1 DEF TimerStep, Stabilize, FixFingers, ReadFinger, Notify, commandLine, Falls
<1>2. CASE LeaveSuccessor(k) \/ Exit(k)
  BY <1>0, <1>2 DEF LeaveSuccessor, Exit, Falls, TypeOK
<1>3. CASE FindSuccessor(k)
  <2>1. k \in Linked /\ fixTarget[k] \in Id
    BY <1>0, <1>3 DEF FindSuccessor, LinkedNode, TypeOK
  <2>2. ClosestPrecedingNode(k, fixTarget[k]) # Nil
    BY <2>1, ClosestIsLinked, LinkedIsNode
  <2> QED BY <1>3, <2>2 DEF FindSuccessor, Falls
<1> QED BY <1>1, <1>2, <1>3

LEMMA HandlerFalls ==
  ASSUME LinkedInv, NEW m \in Messages, ProcessMessage(m.dst, m) \/ Unreachable(m),
         NEW n \in Node, Falls(n)
  PROVE  Caused(n)
<1>0. TypeOK /\ LinkedMessage(m) /\ m \in Message /\ m.src \in Node /\ m.dst \in Node
  BY DEF LinkedInv, TypeOK, Messages, Message
<1>1. CASE ProcessFindPredReq(m.dst, m)
  <2>1. /\ m.dst \in Linked
        /\ m.target \in Id
    BY <1>0, <1>1 DEF ProcessFindPredReq, Receive, LinkedMessage, Message
  <2>2. ClosestPrecedingNode(m.dst, m.target) # Nil
    BY <2>1, <1>0, ClosestIsLinked, LinkedIsNode
  <2> QED BY <1>1, <2>2 DEF ProcessFindPredReq, AnswerFindPred, ForwardFindPred, Falls
<1>2. CASE ProcessFindPredRsp(m.dst, m)
  <2>1. m.type = "FIND_PRED_RSP" /\ m.successor \in Linked /\ m.successor # Nil /\ Consume(m)
    BY <1>0, <1>2, LinkedIsNode DEF ProcessFindPredRsp, Receive, LinkedMessage
  <2>2. ~ UNCHANGED process
    BY DEF Falls
  <2>3. SearchCallback(m.dst, m)
    BY <1>2, <2>1, <2>2 DEF ProcessFindPredRsp, TakeAsJoin, TakeAsFinger, IgnoreResponse
  <2>4. m.query \in Query /\ Crash(m.dst) /\ m.successor \in Node /\ Ended(m.successor)
    BY <2>1, <2>2, <2>3 DEF SearchCallback
  <2>5. n = m.dst
    BY <1>0, <2>4, FallsAtItself
  <2> QED BY <2>1, <2>4, <2>5 DEF Caused, Refused
<1>3. CASE ProcessLeaveP(m.dst, m) \/ ProcessLeaveS(m.dst, m)
  <2>1. /\ Consume(m) /\ Crash(m.dst)
        /\ \/ m.type = "LEAVE_P" /\ m.successor = Nil
           \/ m.type = "LEAVE_S" /\ m.predecessor = Nil
    BY <1>3 DEF ProcessLeaveP, ProcessLeaveS, Receive, Falls
  <2>2. n = m.dst
    BY <1>0, <2>1, FallsAtItself
  <2>3. m.type = "LEAVE_P" => n \in Impatient
    BY <1>0, <2>1, <2>2, LinkedIsNode DEF LinkedMessage
  <2> QED BY <2>1, <2>2, <2>3 DEF Caused, ToldNothing
<1>4. CASE Unreachable(m)
  <2>1. Consume(m) /\ Ended(m.dst) /\ Crash(m.src)
    BY <1>4 DEF Unreachable, Falls
  <2>2. n = m.src
    BY <1>0, <2>1, FallsAtItself
  <2> QED BY <2>1, <2>2 DEF Caused, Refused
<1>5. CASE UNCHANGED commandLine
  BY <1>5 DEF commandLine, Falls
<1> QED BY <1>1, <1>2, <1>3, <1>4, <1>5
        DEF ProcessMessage, ProcessRingState, ProcessNotify, ProcessStabilizeReq,
            ProcessStabilizeRsp

LEMMA FallsHaveCauses ==
  ASSUME LinkedInv, [Next]_vars, NEW n \in Node, Falls(n)
  PROVE  Caused(n)
<1>1. CASE UNCHANGED vars
  BY <1>1 DEF vars, commandLine, Falls
<1>2. CASE Next
  BY <1>2, UserFalls, ThreadFalls, HandlerFalls DEF Next
<1> QED BY <1>1, <1>2

(* Any number of nodes that join, leave, exit and crash in any order, with *)
(* any number of stabilisations, lookups and finger queries outstanding,   *)
(* and users who do not wait for their JOIN among them: as long as no JOIN *)
(* is typed twice, no handler or thread throws or exits but for the causes *)
(* CrashNeedsCause names.                                                  *)
THEOREM CrashesHaveCauses == Spec => CrashNeedsCause
<1> DEFINE Inv == TypeOK /\ (LinkedInv \/ Rejoined)
<1>1. Init => Inv
  BY TypeInit, LinkedInit
<1>2. Inv /\ [Next]_vars => Inv'
  <2> SUFFICES ASSUME Inv, [Next]_vars PROVE Inv'
    OBVIOUS
  <2>1. Rejoined => Rejoined'
    BY TodoShrinks DEF Rejoined
  <2> QED BY <2>1, TypeStep, LinkedNext
<1>3. Inv /\ [Next]_vars =>
        [\A n \in Node : process[n] # "crashed" /\ process'[n] = "crashed" =>
           \/ \E m \in Messages : Consume(m) /\ (Refused(n, m) \/ ToldNothing(n, m))
           \/ n \in Impatient /\ successor[n] = Nil
           \/ Rejoined]_vars
  BY FallsHaveCauses DEF LinkedInv, Falls, Caused
<1> HIDE DEF Inv
<1> QED BY <1>1, <1>2, <1>3, PTL DEF Spec, CrashNeedsCause
=============================================================================

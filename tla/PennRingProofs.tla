---------------------------- MODULE PennRingProofs ----------------------------
(***************************************************************************)
(* The shape of a ring that only grows: theorems for users who CREATE,     *)
(* JOIN, look up and walk the ring, one of whom types CREATE.              *)
(*                                                                         *)
(* Seen from the founder, positions on the circle are counted by the       *)
(* distance that is left to the founder.  No successor skips the founder   *)
(* (RingInv), so that distance shrinks from successor to successor until   *)
(* the founder is reached.                                                 *)
(***************************************************************************)
EXTENDS PennJoinProofs

-----------------------------------------------------------------------------
(* Positions on the circle, seen from f.                                   *)

(* From x to s without passing f: f is reached or is nearer than before.   *)
LEMMA OnwardTo ==
  ASSUME NEW x \in Id, NEW s \in Id, NEW f \in Id,
         Distance(x, s) <= Distance(x, f)
  PROVE  s = f \/ Distance(s, f) < Distance(x, f)
BY RingSizeType DEF Distance, Id

(* The identifiers skipped on that way lie between its ends, as f sees it. *)
LEMMA SkippedOnTheWay ==
  ASSUME NEW x \in Id, NEW p \in Id, NEW s \in Id, NEW f \in Id,
         Distance(x, s) <= Distance(x, f)
  PROVE  InOpenArc(x, p, s) <=>
           /\ Distance(p, f) < Distance(x, f)
           /\ s = f \/ Distance(s, f) < Distance(p, f)
BY RingSizeType DEF InOpenArc, Distance, Id

(* What is no farther than f from x is no farther from a point between.    *)
LEMMA NearerFromBetween ==
  ASSUME NEW x \in Id, NEW h \in Id, NEW s \in Id, NEW f \in Id,
         InHalfOpenArc(x, h, s), h # s, Distance(x, s) <= Distance(x, f)
  PROVE  Distance(h, s) <= Distance(h, f)
BY RingSizeType DEF InHalfOpenArc, Distance, Id

(* One position, one distance.                                             *)
LEMMA DistanceTells ==
  ASSUME NEW x \in Id, NEW a \in Id, NEW b \in Id
  PROVE  /\ Distance(x, a) = Distance(x, b) => a = b
         /\ Distance(a, x) = Distance(b, x) => a = b
BY RingSizeType DEF Distance, Id

-----------------------------------------------------------------------------
(* The invariant.                                                          *)

(* Members stay, and become members by CREATE or by the answer to a JOIN.  *)
LEMMA MembersGrow ==
  ASSUME JoinInv, [Next]_vars, NEW n \in Node
  PROVE  \/ inRing[n] /\ inRing'[n]
         \/ ~ inRing[n] /\ ~ inRing'[n]
         \/ ~ inRing[n] /\ CreateRing(n)
         \/ /\ ~ inRing[n]
            /\ \E m \in Messages : /\ m.type = "FIND_PRED_RSP" /\ m.dst = n
                                   /\ m.successor \in Node
                                   /\ successor'[n] = m.successor
<1>0. TypeOK /\ \A p \in Node : JoinNode(p)
  BY DEF JoinInv
<1>1. ASSUME NEW p \in Node, UserStep(p)
      PROVE  inRing' = inRing \/ (CreateRing(p) /\ inRing' = [inRing EXCEPT ![p] = TRUE])
  <2>1. ~ Leave(p)
    BY <1>0 DEF Leave, Typed, JoinNode
  <2> QED BY <1>1, <2>1 DEF UserStep, CreateRing, Join, RingState, LookupAnything,
                            Lookup, flags
<1>2. ASSUME NEW p \in Node,
             \/ TimerStep(p) \/ LeaveSuccessor(p) \/ Exit(p)
             \/ ReadFinger(p) \/ FindSuccessor(p) \/ Notify(p)
      PROVE  inRing' = inRing
  BY <1>2 DEF TimerStep, FixFingers, Stabilize, LeaveSuccessor, Exit, ReadFinger,
              FindSuccessor, Notify, flags
<1>3. ASSUME NEW m \in Messages, ProcessMessage(m.dst, m) \/ Unreachable(m)
      PROVE  \/ inRing' = inRing
             \/ ProcessFindPredRsp(m.dst, m) /\ TakeAsJoin(m.dst, m)
  BY <1>3 DEF ProcessMessage, ProcessStabilizeReq, ProcessStabilizeRsp, ProcessNotify,
              ProcessFindPredReq, ProcessFindPredRsp, ProcessLeaveP, ProcessLeaveS,
              ProcessRingState, Unreachable, SearchCallback, TakeAsFinger,
              IgnoreResponse, flags
<1>4. ASSUME NEW m \in Messages, ProcessFindPredRsp(m.dst, m), TakeAsJoin(m.dst, m)
      PROVE  /\ m.type = "FIND_PRED_RSP" /\ m.dst \in Node /\ m.successor \in Node
             /\ ~ inRing[m.dst]
             /\ inRing' = [inRing EXCEPT ![m.dst] = TRUE]
             /\ successor'[m.dst] = m.successor
  <2>1. m.dst \in Node
    BY <1>0 DEF TypeOK, Messages, Message
  <2>2. m.type = "FIND_PRED_RSP" /\ m.successor \in Members
    BY <1>4 DEF ProcessFindPredRsp, Receive, JoinInv, JoinMessage
  <2> QED BY <1>0, <1>4, <2>1, <2>2, NilIsNoNode DEF TakeAsJoin, JoinNode, Members, TypeOK
<1>5. CASE inRing' = inRing
  BY <1>5
<1>6. CASE \E p \in Node : CreateRing(p) /\ inRing' = [inRing EXCEPT ![p] = TRUE]
  <2>1. PICK p \in Node : CreateRing(p) /\ inRing' = [inRing EXCEPT ![p] = TRUE]
    BY <1>6
  <2>2. ~ inRing[p]
    BY <1>0, <2>1 DEF CreateRing, Typed, JoinNode
  <2> QED BY <1>0, <2>1, <2>2 DEF TypeOK
<1>7. CASE \E m \in Messages : ProcessFindPredRsp(m.dst, m) /\ TakeAsJoin(m.dst, m)
  <2>1. PICK m \in Messages : ProcessFindPredRsp(m.dst, m) /\ TakeAsJoin(m.dst, m)
    BY <1>7
  <2>2. /\ m.type = "FIND_PRED_RSP" /\ m.dst \in Node /\ m.successor \in Node
        /\ ~ inRing[m.dst]
        /\ inRing' = [inRing EXCEPT ![m.dst] = TRUE]
        /\ successor'[m.dst] = m.successor
    BY <1>4, <2>1
  <2>3. CASE n = m.dst
    BY <2>2, <2>3
  <2>4. CASE n # m.dst
    BY <1>0, <2>2, <2>4 DEF TypeOK
  <2> QED BY <2>3, <2>4
<1>8. CASE UNCHANGED vars
  BY <1>8 DEF vars, flags
<1> QED BY <1>1, <1>2, <1>3, <1>5, <1>6, <1>7, <1>8 DEF Next

LEMMA FounderIsMember ==
  ASSUME RingInv, Members # {}
  PROVE  Founder \in Members /\ Founder \in Node /\ Hash[Founder] \in Id
BY HashType DEF RingInv, Members

(* A node that answers a JOIN does not name a successor past the founder.  *)
LEMMA AnswerUpToFounder ==
  ASSUME RingInv, NEW n \in Members, NEW p \in Node, ~ inRing[p],
         Answers(n, Hash[p])
  PROVE  UpToFounder(p, successor[n])
<1>1. /\ n \in Node /\ JoinNode(n) /\ p # n
      /\ UpToFounder(n, successor[n])
      /\ successor[n] \in Node /\ successor[n] # p /\ successor[n] # Nil
  <2>1. n \in Node /\ inRing[n] /\ p # n /\ JoinNode(n) /\ UpToFounder(n, successor[n])
    BY DEF RingInv, JoinInv, Members
  <2>2. successor[n] \in Members
    BY <2>1 DEF JoinNode
  <2> QED BY <2>1, <2>2, NilIsNoNode DEF Members
<1>2. Founder \in Node
  BY FounderIsMember
<1>3. Hash[n] \in Id /\ Hash[p] \in Id /\ Hash[successor[n]] \in Id /\ Hash[Founder] \in Id
  BY <1>1, <1>2, HashType
<1>4. CASE isSingleton[n]
  <2>1. successor[n] = n
    BY <1>1, <1>4 DEF JoinNode
  <2>2. Hash[n] = Hash[Founder]
    BY <1>1, <1>3, <2>1, RingSizeType, DistanceType DEF UpToFounder
  <2> QED BY <1>3, <2>1, <2>2, DistanceType DEF UpToFounder
<1>5. CASE OwnsTarget(Hash[n], HashOf(successor[n]), Hash[p])
  <2>1. InHalfOpenArc(Hash[n], Hash[p], Hash[successor[n]])
    BY <1>1, <1>3, <1>5, OwnsTargetArc DEF HashOf
  <2>2. Hash[p] # Hash[successor[n]]
    BY <1>1, DistinctHashes
  <2> QED BY <1>1, <1>3, <2>1, <2>2, NearerFromBetween DEF UpToFounder
<1> QED BY <1>4, <1>5 DEF Answers

LEMMA RingInit == OnlyJoins /\ Init => RingInv
<1> SUFFICES ASSUME OnlyJoins, Init PROVE RingInv
  OBVIOUS
<1>1. Messages = {} /\ Members = {}
  BY DEF Init, Messages, EmptyBag, SetToBag, Members
<1> QED BY <1>1, JoinInit DEF RingInv, Init

LEMMA RingNext == OnlyJoins /\ OneFounder /\ RingInv /\ [Next]_vars => RingInv'
<1> SUFFICES ASSUME OnlyJoins, OneFounder, RingInv, [Next]_vars PROVE RingInv'
  OBVIOUS
<1>0. JoinInv /\ JoinInv' /\ TypeOK
  BY JoinNext DEF RingInv, JoinInv
<1>1. \A n \in Node : todo'[n] \subseteq Commands[n]
  BY <1>0, TodoShrinks DEF RingInv
<1>2. \A n \in Node : inRing[n] => inRing'[n]
  BY <1>0, MembersGrow
<1>3. ASSUME NEW n \in Node, CreateRing(n)
      PROVE  n = Founder /\ successor'[n] = n
  <2>1. "CREATE" \in Commands[n]
    BY <1>0, <1>3 DEF CreateRing, Typed, RingInv, JoinInv, JoinNode
  <2>2. "CREATE" \in Commands[Founder] /\ Founder \in Node
    BY <2>1 DEF Founder
  <2>3. n = Founder
    BY <2>1, <2>2 DEF OneFounder
  <2> QED BY <1>0, <1>3, <2>3 DEF CreateRing, TypeOK
<1>4. Members' # {} => Founder \in Members'
  <2> SUFFICES ASSUME NEW n \in Node, inRing'[n] PROVE Founder \in Node /\ inRing'[Founder]
    BY DEF Members
  <2>1. CASE Members # {}
    BY <1>2, <2>1, FounderIsMember DEF Members
  <2>2. CASE CreateRing(n)
    BY <1>3, <2>2
  <2>3. ASSUME NEW m \in Messages, m.type = "FIND_PRED_RSP" PROVE Members # {}
    BY <1>0, <2>3 DEF JoinInv, JoinMessage
  <2> QED BY <1>0, <2>1, <2>2, <2>3, MembersGrow DEF Members
<1>5. ASSUME NEW n \in Node, inRing'[n]
      PROVE  UpToFounder(n, successor'[n])
  <2>1. CASE inRing[n]
    <3>1. UpToFounder(n, successor[n]) /\ successor[n] \in Node /\ Founder \in Node
      BY <1>0, <2>1, FounderIsMember DEF RingInv, JoinInv, JoinNode, Members
    <3>2. CASE successor'[n] = successor[n]
      BY <3>1, <3>2
    <3>3. CASE successor'[n] # successor[n]
      <4>1. /\ successor'[n] \in Node
            /\ Distance(Hash[n], Hash[successor'[n]])
                 < Distance(Hash[n], Hash[successor[n]])
        BY <1>0, <3>1, <3>3, PointersStep DEF CloserSuccessor
      <4>2. /\ Distance(Hash[n], Hash[successor'[n]]) \in Int
            /\ Distance(Hash[n], Hash[successor[n]]) \in Int
            /\ Distance(Hash[n], Hash[Founder]) \in Int
        BY <3>1, <4>1, HashType, RingSizeType, DistanceType
      <4> QED BY <3>1, <4>1, <4>2 DEF UpToFounder
    <3> QED BY <3>2, <3>3
  <2>2. CASE CreateRing(n)
    <3>1. n = Founder /\ successor'[n] = n
      BY <1>3, <2>2
    <3> QED BY <3>1, HashType, DistanceType, RingSizeType DEF UpToFounder
  <2>3. ASSUME ~ inRing[n],
               NEW m \in Messages, m.type = "FIND_PRED_RSP", m.dst = n,
               successor'[n] = m.successor
        PROVE  UpToFounder(n, successor'[n])
    BY <2>3 DEF RingInv
  <2> QED BY <1>0, <1>5, <2>1, <2>2, <2>3, MembersGrow
<1>6. ASSUME NEW x \in Messages', x.type = "FIND_PRED_REQ"
      PROVE  inRing'[x.origin] \/ x.target = Hash[x.origin]
  <2>1. x.origin \in Node
    BY <1>0, <1>6 DEF JoinInv, TypeOK, Messages, Message
  <2>2. CASE x \in Messages
    BY <1>2, <1>6, <2>1, <2>2 DEF RingInv
  <2>3. CASE Asked(x)
    <3>1. fixer[x.origin] = "find" => inRing[x.origin]
      BY <1>0, <2>1 DEF JoinInv, JoinNode
    <3>2. UserReady(x.origin) => inRing[x.origin]
      BY DEF UserReady, OnlyJoins
    <3> QED BY <1>2, <2>1, <2>3, <3>1, <3>2 DEF Asked, RingInv
  <2> QED BY <1>0, <1>6, <2>2, <2>3, StepSends DEF Expected
<1>7. ASSUME NEW x \in Messages', x.type = "FIND_PRED_RSP"
      PROVE  inRing'[x.dst] \/ UpToFounder(x.dst, x.successor)
  <2>1. x.dst \in Node
    BY <1>0, <1>7 DEF JoinInv, TypeOK, Messages, Message
  <2>2. CASE x \in Messages
    BY <1>2, <1>7, <2>1, <2>2 DEF RingInv
  <2>3. CASE Answered(x) /\ ~ inRing[x.dst]
    <3>1. PICK m \in Messages :
            /\ m.type = "FIND_PRED_REQ" /\ m.dst \in Node
            /\ Answers(m.dst, m.target)
            /\ x.dst = m.origin /\ x.target = m.target
            /\ x.successor = successor[m.dst]
      BY <2>3 DEF Answered
    <3>2. m.dst \in Members
      BY <1>0, <3>1 DEF JoinInv, JoinMessage
    <3>3. m.target = Hash[x.dst]
      BY <2>3, <3>1 DEF RingInv
    <3> QED BY <2>1, <2>3, <3>1, <3>2, <3>3, AnswerUpToFounder
  <2> QED BY <1>0, <1>2, <1>7, <2>1, <2>2, <2>3, StepSends DEF Expected
<1> QED BY <1>0, <1>1, <1>4, <1>5, <1>6, <1>7 DEF RingInv, Members, UpToFounder

(* No successor of a growing ring ever skips the node that created it.     *)
THEOREM FounderIsNotSkipped ==
  ASSUME OnlyJoins, OneFounder
  PROVE  Spec => []RingInv
<1>1. Init => RingInv
  BY RingInit
<1>2. RingInv /\ [Next]_vars => RingInv'
  BY RingNext
<1> QED BY <1>1, <1>2, PTL DEF Spec

-----------------------------------------------------------------------------
(* Paths over successors.                                                  *)

(* How far the node p is from the founder.                                 *)
Left(p) == Distance(Hash[p], Hash[Founder])

LEMMA LeftType ==
  ASSUME RingInv, NEW p \in Members
  PROVE  /\ Left(p) \in 1 .. RingSize
         /\ p # Founder => Left(p) < RingSize
         /\ Left(Founder) = RingSize
         /\ \A q \in Members : Left(q) = Left(p) => q = p
<1>1. Founder \in Node /\ Hash[Founder] \in Id /\ p \in Node /\ Hash[p] \in Id
  BY FounderIsMember, HashType DEF Members
<1>2. Left(p) \in 1 .. RingSize /\ Left(Founder) = RingSize
  BY <1>1, DistanceType DEF Left
<1>3. p # Founder => Left(p) < RingSize
  BY <1>1, <1>2, DistanceType, DistinctHashes, RingSizeType DEF Left
<1>4. ASSUME NEW q \in Members, Left(q) = Left(p) PROVE q = p
  <2>1. q \in Node /\ Hash[q] \in Id
    BY HashType DEF Members
  <2> QED BY <1>1, <1>4, <2>1, DistanceTells, DistinctHashes DEF Left
<1> QED BY <1>2, <1>3, <1>4

(* A step to the successor reaches the founder or gets nearer to it.       *)
LEMMA SuccessorNearer ==
  ASSUME RingInv, NEW p \in Members
  PROVE  /\ successor[p] \in Members
         /\ successor[p] = Founder \/ Left(successor[p]) < Left(p)
<1>1. p \in Node /\ inRing[p] /\ JoinNode(p) /\ UpToFounder(p, successor[p])
  BY DEF RingInv, JoinInv, Members
<1>2. successor[p] \in Members /\ Founder \in Node /\ successor[p] \in Node
  BY <1>1, FounderIsMember DEF JoinNode, Members
<1>3. Hash[successor[p]] = Hash[Founder] \/ Left(successor[p]) < Left(p)
  BY <1>1, <1>2, HashType, OnwardTo DEF UpToFounder, Left
<1> QED BY <1>2, <1>3, DistinctHashes

(* The members skipped by a successor are those between, for the founder.  *)
LEMMA SkippedIsBetween ==
  ASSUME RingInv, NEW n \in Members, NEW p \in Members
  PROVE  InOpenArc(Hash[n], Hash[p], Hash[successor[n]]) <=>
           /\ Left(p) < Left(n)
           /\ successor[n] = Founder \/ Left(successor[n]) < Left(p)
<1>1. n \in Node /\ UpToFounder(n, successor[n]) /\ p \in Node
  BY DEF RingInv, Members
<1>2. successor[n] \in Node /\ Founder \in Node
  BY SuccessorNearer, FounderIsMember DEF Members
<1>3. Hash[successor[n]] = Hash[Founder] <=> successor[n] = Founder
  BY <1>2, DistinctHashes
<1> QED BY <1>1, <1>2, <1>3, HashType, SkippedOnTheWay DEF UpToFounder, Left

(* A closed set that holds a member holds the founder.                     *)
LEMMA ClosedHoldsFounder ==
  ASSUME RingInv, NEW S, Closed(S), NEW n \in S, n \in Members
  PROVE  Founder \in S
<1> DEFINE T == {Left(p) : p \in S \cap Members}
<1>1. T \subseteq Nat /\ T # {}
  BY LeftType, RingSizeType
<1>2. PICK t \in T : \A u \in T : ~ (u < t)
  BY <1>1, LeastNatural
<1>3. PICK p \in S \cap Members : t = Left(p)
  BY <1>2
<1>4. successor[p] \in S \cap Members
  BY SuccessorNearer DEF Closed
<1>5. Left(successor[p]) \in T
  BY <1>4
<1>6. successor[p] = Founder
  BY <1>2, <1>3, <1>5, SuccessorNearer
<1> QED BY <1>4, <1>6

LEMMA FounderIsReached ==
  ASSUME RingInv, NEW n \in Members
  PROVE  Founder \in ReachedFrom(n)
BY FounderIsMember, ClosedHoldsFounder DEF ReachedFrom

LEMMA FounderOnCycle ==
  ASSUME RingInv, Members # {}
  PROVE  Founder \in OnCycle
BY FounderIsMember, SuccessorNearer, FounderIsReached DEF OnCycle

(* What comes back to itself is on the way from the founder.               *)
LEMMA CycleFromFounder ==
  ASSUME RingInv, NEW p \in OnCycle
  PROVE  p \in ReachedFrom(Founder)
<1>1. p \in Members /\ p \in ReachedFrom(successor[p])
  BY DEF OnCycle
<1>2. SUFFICES ASSUME NEW S \in SUBSET NodeOrNil, Founder \in S, Closed(S), p # Founder
               PROVE  p \in S
  BY <1>1 DEF ReachedFrom
<1> DEFINE nearer == {q \in Members : Left(q) < Left(p)}
<1>3. \A q \in Members : Left(q) \in Int
  BY LeftType
<1>4. Closed(S \cup nearer)
  <2> SUFFICES ASSUME NEW q \in Members, q \in S \cup nearer
               PROVE  successor[q] \in S \cup nearer
    BY DEF Closed
  <2>1. CASE q \in S
    BY <2>1, <1>2 DEF Closed
  <2>2. CASE q \in nearer
    BY <1>1, <1>2, <1>3, <2>2, SuccessorNearer
  <2> QED BY <2>1, <2>2
<1>5. successor[p] \in S \cup nearer
  BY <1>1, <1>2, SuccessorNearer
<1>6. S \cup nearer \in SUBSET NodeOrNil
  BY DEF NodeOrNil, Members
<1>7. p \in S \cup nearer
  <2> HIDE DEF nearer
  <2> QED BY <1>1, <1>4, <1>5, <1>6 DEF ReachedFrom
<1>8. p \notin nearer
  BY <1>1, <1>3
<1> QED BY <1>7, <1>8

(* p is passed over by the successor of a member that is on the way.       *)
Skipped(p) ==
  \E n \in ReachedFrom(Founder) : InOpenArc(Hash[n], Hash[p], Hash[successor[n]])

(* Nothing on the way from the founder is passed over: of all members that *)
(* are, the one farthest from the founder would not be reached.            *)
LEMMA NothingIsSkipped ==
  ASSUME RingInv, NEW p0 \in ReachedFrom(Founder)
  PROVE  ~ Skipped(p0)
<1> DEFINE R == ReachedFrom(Founder)
           B == {p \in R : Skipped(p)}
           T == {RingSize - Left(p) : p \in B}
<1> SUFFICES ASSUME B # {} PROVE FALSE
  OBVIOUS
<1>1. R \subseteq Members /\ \A q \in Members : Left(q) \in 1 .. RingSize
  BY LeftType DEF ReachedFrom
<1>2. T \subseteq Nat /\ T # {}
  BY <1>1, RingSizeType
<1>3. PICK t \in T : \A u \in T : ~ (u < t)
  BY <1>2, LeastNatural
<1>4. PICK p \in B : t = RingSize - Left(p)
  BY <1>3
<1>5. ASSUME NEW q \in B PROVE Left(q) <= Left(p)
  <2>1. RingSize - Left(q) \in T
    OBVIOUS
  <2>2. ~ (RingSize - Left(q) < RingSize - Left(p))
    BY <1>3, <1>4, <2>1
  <2>3. Left(q) \in Int /\ Left(p) \in Int
    BY <1>1
  <2> HIDE DEF T, B, R
  <2> QED BY <2>2, <2>3, RingSizeType
<1>6. PICK n \in R : InOpenArc(Hash[n], Hash[p], Hash[successor[n]])
  BY DEF Skipped
<1>7. /\ Left(p) < Left(n)
      /\ successor[n] = Founder \/ Left(successor[n]) < Left(p)
  BY <1>1, <1>6, SkippedIsBetween
<1>8. p # Founder
  BY <1>1, <1>7, LeftType, RingSizeType
(* The edge into p would pass over n, or start at a node that n skips.     *)
<1>9. ASSUME NEW q \in R, q # p PROVE successor[q] # p
  <2> SUFFICES ASSUME successor[q] = p PROVE FALSE
    OBVIOUS
  <2>1. Left(p) < Left(q)
    BY <1>1, <1>8, SuccessorNearer
  <2>2. CASE Left(n) < Left(q)
    <3>1. InOpenArc(Hash[q], Hash[n], Hash[successor[q]])
      BY <1>1, <1>7, <2>2, SkippedIsBetween
    <3>2. n \in B
      BY <3>1 DEF Skipped
    <3> QED BY <1>1, <1>5, <1>7, <3>2
  <2>3. CASE Left(q) < Left(n)
    <3>1. InOpenArc(Hash[n], Hash[q], Hash[successor[n]])
      <4>1. successor[n] = Founder \/ Left(successor[n]) < Left(q)
        BY <1>1, <1>7, <2>1, SuccessorNearer
      <4> QED BY <1>1, <2>3, <4>1, SkippedIsBetween
    <3>2. q \in B
      BY <3>1 DEF Skipped
    <3> QED BY <1>1, <1>5, <2>1, <3>2
  <2>4. CASE Left(q) = Left(n)
    <3>1. q = n
      BY <1>1, <2>4, LeftType
    <3> QED BY <1>1, <1>7, <1>8, <3>1
  <2> QED BY <1>1, <2>2, <2>3, <2>4
<1>10. Closed(R \ {p})
  <2> SUFFICES ASSUME NEW q \in R, q # p PROVE successor[q] \in R
    BY <1>9 DEF Closed
  <2> QED BY <1>1, SuccessorNearer DEF ReachedFrom, Closed
<1>11. R \ {p} \in SUBSET NodeOrNil
  BY <1>1 DEF Members, NodeOrNil
<1>12. Founder \in R \ {p}
  <2>1. Members # {}
    BY <1>1
  <2> QED BY <1>8, <2>1, FounderIsMember, FounderIsReached
<1>13. p \notin R
  <2> HIDE DEF R
  <2> QED BY <1>10, <1>11, <1>12 DEF ReachedFrom, R
<1> QED BY <1>13

LEMMA RingIsOrdered == RingInv => OneOrderedRing
<1> SUFFICES ASSUME RingInv, Members # {} PROVE OneOrderedRing
  BY DEF OneOrderedRing
<1>1. Founder \in OnCycle
  BY FounderOnCycle
<1>2. ASSUME NEW n \in OnCycle, NEW p \in OnCycle
      PROVE  ~ InOpenArc(Hash[n], Hash[p], Hash[successor[n]])
  BY CycleFromFounder, NothingIsSkipped DEF Skipped
<1>3. ASSUME NEW n \in Members PROVE ReachedFrom(n) \cap OnCycle # {}
  BY <1>1, FounderIsReached
<1> QED BY <1>1, <1>2, <1>3 DEF OneOrderedRing

(* Concurrent joins and stabilisations neither split the ring nor make it  *)
(* skip back, whatever the order of their messages: the successors of the  *)
(* members form one ring in the order of their hashes, and whoever is not  *)
(* on it yet has a path into it.                                           *)
THEOREM JoinsKeepOneRing ==
  ASSUME OnlyJoins, OneFounder
  PROVE  Spec => []OneOrderedRing
BY FounderIsNotSkipped, RingIsOrdered, PTL

-----------------------------------------------------------------------------
(* Lookups in a settled ring.                                              *)

(* FirstAfter is the member that no other is before.                       *)
LEMMA FirstAfterIs ==
  ASSUME NEW x \in Id, NEW s \in Members,
         \A q \in Members : Distance(x, Hash[s]) <= Distance(x, Hash[q])
  PROVE  FirstAfter(x) = s
<1> DEFINE P(p) == \A q \in Members : Distance(x, Hash[p]) <= Distance(x, Hash[q])
<1>1. \A p \in Members : p \in Node /\ Hash[p] \in Id
  BY HashType DEF Members
<1>2. ASSUME NEW p \in Members, P(p) PROVE p = s
  <2>1. Distance(x, Hash[p]) = Distance(x, Hash[s])
    BY <1>1, <1>2, DistanceType
  <2> QED BY <1>1, <2>1, DistanceTells, DistinctHashes
<1>3. P(s)
  OBVIOUS
<1>4. (CHOOSE p \in Members : P(p)) = s
  <2> HIDE DEF P
  <2> QED BY <1>2, <1>3
<1> QED BY <1>4 DEF FirstAfter

LEMMA FirstAfterType ==
  ASSUME NEW x \in Id, Members # {}
  PROVE  /\ FirstAfter(x) \in Members
         /\ \A q \in Members : Distance(x, Hash[FirstAfter(x)]) <= Distance(x, Hash[q])
<1> DEFINE T == {Distance(x, Hash[p]) : p \in Members}
<1>1. \A p \in Members : Distance(x, Hash[p]) \in Nat
  BY HashType, DistanceType, RingSizeType DEF Members
<1>2. PICK t \in T : \A u \in T : ~ (u < t)
  <2>1. T \subseteq Nat /\ T # {}
    BY <1>1
  <2> QED BY <2>1, LeastNatural
<1>3. PICK s \in Members : t = Distance(x, Hash[s])
  BY <1>2
<1>4. \A q \in Members : Distance(x, Hash[s]) <= Distance(x, Hash[q])
  BY <1>1, <1>2, <1>3
<1>5. FirstAfter(x) = s
  BY <1>4, FirstAfterIs
<1> QED BY <1>4, <1>5

(* Where every successor is right, a member answers with the owner.        *)
LEMMA AnswerIsOwner ==
  ASSUME NEW n \in Members, NEW h \in Id,
         successor[n] = FirstAfter(Hash[n]),
         isSingleton[n] => successor[n] = n,
         Answers(n, h)
  PROVE  successor[n] = Owner(h)
<1> DEFINE s == successor[n]
<1>1. /\ s \in Members
      /\ \A q \in Members : Distance(Hash[n], Hash[s]) <= Distance(Hash[n], Hash[q])
  BY HashType, FirstAfterType DEF Members
<1>2. n \in Node /\ s \in Node /\ Hash[n] \in Id /\ Hash[s] \in Id
  BY <1>1, HashType DEF Members
<1> HIDE DEF s
<1>3. CASE isSingleton[n]
  <2>1. ASSUME NEW q \in Members PROVE q = s
    <3>1. q \in Node /\ Hash[q] \in Id /\ s = n
      BY <1>3, HashType DEF Members, s
    <3>2. Distance(Hash[n], Hash[q]) = RingSize
      BY <1>1, <1>2, <3>1, DistanceType, RingSizeType
    <3> QED BY <1>2, <3>1, <3>2, DistanceType, DistinctHashes
  <2>2. FirstAfter(h) = s
    <3>1. \A q \in Members : q = s
      BY <2>1
    <3>2. Distance(h, Hash[s]) <= Distance(h, Hash[s])
      BY <1>2, DistanceType, RingSizeType
    <3> QED BY <1>1, <3>1, <3>2, FirstAfterIs
  <2>3. \A q \in Members : q = s
    BY <2>1
  <2> QED BY <1>1, <2>2, <2>3 DEF Owner, s
<1>4. CASE OwnsTarget(Hash[n], HashOf(successor[n]), h)
  <2>1. InHalfOpenArc(Hash[n], h, Hash[s])
    BY <1>2, <1>4, OwnsTargetArc, NilIsNoNode DEF HashOf, s
  <2>2. CASE h = Hash[s]
    <3>1. \A q \in Members : Hash[q] = h => q = s
      BY <1>2, <2>2, DistinctHashes DEF Members
    <3> QED BY <1>1, <2>2, <3>1 DEF Owner, s
  <2>3. CASE h # Hash[s]
    <3>1. ASSUME NEW q \in Members
          PROVE  Distance(h, Hash[s]) <= Distance(h, Hash[q]) /\ Hash[q] # h
      <4>1. Hash[q] \in Id /\ Distance(Hash[n], Hash[s]) <= Distance(Hash[n], Hash[q])
        BY <1>1, HashType DEF Members
      <4>2. Hash[q] # h
        <5>1. Distance(Hash[n], h) <= Distance(Hash[n], Hash[s])
          BY <2>1 DEF InHalfOpenArc
        <5>2. Distance(Hash[n], h) # Distance(Hash[n], Hash[s])
          BY <1>2, <2>3, DistanceTells
        <5> QED BY <1>2, <4>1, <5>1, <5>2, DistanceType
      <4> QED BY <1>2, <2>1, <2>3, <4>1, <4>2, NearerFromBetween
    <3>2. FirstAfter(h) = s
      BY <1>1, <3>1, FirstAfterIs
    <3> QED BY <3>1, <3>2 DEF Owner, s
  <2> QED BY <2>2, <2>3
<1> QED BY <1>3, <1>4 DEF Answers

(* In a settled ring a FIND_PRED_REQ is answered with the owner of its     *)
(* target, by whichever node answers and however stale its fingers are.    *)
THEOREM SettledLookupsFindOwner ==
  ASSUME OnlyJoins
  PROVE  Spec => LookupsFindOwner
<1>1. ASSUME JoinInv, [Next]_vars, IdealRing,
             NEW x \in Messages' \ Messages, x.type = "FIND_PRED_RSP"
      PROVE  x.successor = Owner(x.target)
  <2>1. PICK m \in Messages :
          /\ m.type = "FIND_PRED_REQ" /\ m.dst \in Node
          /\ Answers(m.dst, m.target)
          /\ x.target = m.target /\ x.successor = successor[m.dst]
    BY <1>1, StepSends DEF Expected, Answered, JoinInv
  <2>2. m.dst \in Members /\ m.target \in Id
    BY <1>1, <2>1 DEF JoinInv, JoinMessage, TypeOK, Messages, Message
  <2>3. successor[m.dst] = FirstAfter(Hash[m.dst])
    BY <1>1, <2>2 DEF IdealRing
  <2>4. isSingleton[m.dst] => successor[m.dst] = m.dst
    BY <1>1, <2>1 DEF JoinInv, JoinNode
  <2> QED BY <2>1, <2>2, <2>3, <2>4, AnswerIsOwner
<1>2. JoinInv /\ [Next]_vars =>
        [IdealRing =>
           \A m \in Messages' \ Messages :
             m.type = "FIND_PRED_RSP" => m.successor = Owner(m.target)]_vars
  BY <1>1
<1> QED BY <1>2, JoinsKeepInvariant, PTL DEF Spec, LookupsFindOwner
=============================================================================

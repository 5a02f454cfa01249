-------------------------- MODULE ChordKeysProofs --------------------------
(***************************************************************************)
(* Each comparison the handlers write out with < and > decides whether an  *)
(* identifier lies on an arc of the circle, for every width of the keys.   *)
(***************************************************************************)
EXTENDS ChordKeys, TLAPS, WellFoundedInduction

LEMMA RingSizeType == RingSize \in Nat /\ RingSize > 1
BY PowersOfTwo

LEMMA NilHashType == NilHash \in Id
BY RingSizeType DEF NilHash, Id

(* Distances are whole numbers of steps, at most one turn; only a itself   *)
(* is a whole turn from a.                                                 *)
LEMMA DistanceType ==
  ASSUME NEW a \in Id, NEW b \in Id
  PROVE  /\ Distance(a, b) \in 1 .. RingSize
         /\ Distance(a, b) = RingSize <=> a = b
BY RingSizeType DEF Distance, Id

(* ProcessFindPredReq (penn-chord.cpp:582): a node answers for the         *)
(* identifiers after it up to its successor, for all of them if it is its  *)
(* own successor.                                                          *)
THEOREM OwnsTargetArc ==
  ASSUME NEW curr \in Id, NEW succ \in Id, NEW h \in Id
  PROVE  OwnsTarget(curr, succ, h) <=> InHalfOpenArc(curr, h, succ)
BY RingSizeType DEF OwnsTarget, InHalfOpenArc, Distance, Id

(* ProcessStabilizeRsp (:409): strictly between the node and its           *)
(* successor.                                                              *)
THEOREM BetterSuccessorArc ==
  ASSUME NEW curr \in Id, NEW succ \in Id, NEW x \in Id
  PROVE  BetterSuccessor(curr, succ, x) <=> curr # succ /\ InOpenArc(curr, x, succ)
BY RingSizeType DEF BetterSuccessor, InOpenArc, Distance, Id

(* ProcessNotify (:441): strictly between the predecessor and the node.    *)
THEOREM NotifierInRangeArc ==
  ASSUME NEW pred \in Id, NEW curr \in Id, NEW x \in Id
  PROVE  NotifierInRange(pred, curr, x) <=> pred # curr /\ InOpenArc(pred, x, curr)
BY RingSizeType DEF NotifierInRange, InOpenArc, Distance, Id

(* ClosestPrecedingNode (:818): strictly between the node and the target.  *)
THEOREM FingerPrecedesArc ==
  ASSUME NEW n \in Id, NEW f \in Id, NEW id \in Id
  PROVE  FingerPrecedes(n, f, id) <=> n # id /\ InOpenArc(n, f, id)
BY RingSizeType DEF FingerPrecedes, InOpenArc, Distance, Id

(* HandleRehashKeys (penn-search.cpp:565): a node keeps the keys after its *)
(* predecessor up to itself, the arc its predecessor answers for.          *)
THEOREM KeepsKeyArc ==
  ASSUME NEW pred \in Id, NEW curr \in Id, NEW h \in Id
  PROVE  /\ KeepsKey(pred, curr, h) <=> InHalfOpenArc(pred, h, curr)
         /\ KeepsKey(pred, curr, h) <=> OwnsTarget(pred, curr, h)
BY RingSizeType DEF KeepsKey, OwnsTarget, InHalfOpenArc, Distance, Id

(* FixFingers (:339): whatever the conversion of the sum yields is an      *)
(* identifier, and one of its outcomes is the one 2^i steps ahead.         *)
THEOREM FingerStartsAhead ==
  ASSUME NEW h \in Id, NEW i \in Finger
  PROVE  /\ FingerStarts(h, i) \subseteq Id
         /\ \E s \in FingerStarts(h, i) : Distance(h, s) = 2 ^ i
<1>1. 2 ^ i \in 1 .. RingSize - 1
  BY PowersOfTwo
<1>2. FingerStarts(h, i) \subseteq Id
  BY <1>1, RingSizeType DEF FingerStarts, Id
<1>3. h + 2 ^ i < RingSize => h + 2 ^ i \in FingerStarts(h, i)
  BY <1>1, RingSizeType DEF FingerStarts, Id
<1>4. ~ (h + 2 ^ i < RingSize) => h + 2 ^ i - RingSize \in FingerStarts(h, i)
  BY <1>1, RingSizeType DEF FingerStarts, Id
<1>5. h + 2 ^ i < RingSize => Distance(h, h + 2 ^ i) = 2 ^ i
  BY <1>1, RingSizeType DEF Distance, Id
<1>6. ~ (h + 2 ^ i < RingSize) => Distance(h, h + 2 ^ i - RingSize) = 2 ^ i
  BY <1>1, RingSizeType DEF Distance, Id
<1> QED BY <1>2, <1>3, <1>4, <1>5, <1>6

(* Whatever lies strictly between a and b is closer to b than a is, and    *)
(* closer to a than b is.                                                  *)
LEMMA ArcShortens ==
  ASSUME NEW a \in Id, NEW x \in Id, NEW b \in Id,
         InOpenArc(a, x, b)
  PROVE  /\ Distance(x, b) < Distance(a, b)
         /\ Distance(a, x) < Distance(a, b)
BY RingSizeType DEF InOpenArc, Distance, Id

(* A node that does not answer for h has its successor strictly before h.  *)
LEMMA SuccessorPrecedes ==
  ASSUME NEW n \in Id, NEW s \in Id, NEW h \in Id,
         ~ OwnsTarget(n, s, h)
  PROVE  InOpenArc(n, s, h)
BY RingSizeType DEF OwnsTarget, InOpenArc, Distance, Id

(* Every set of natural numbers but the empty one has a least element.    *)
LEMMA NatRelation == {p \in Nat \X Nat : p[1] < p[2]} = OpToRel(<, Nat)
BY Zenon DEF OpToRel

LEMMA LeastPair ==
  ASSUME NEW R, R = OpToRel(<, Nat), NEW T, T \subseteq Nat, T # {}
  PROVE  \E t \in T : \A u \in T : ~ (<<u, t>> \in R)
<1>1. IsWellFoundedOn(R, Nat)
  BY NatLessThanWellFounded
<1>2. QED
  BY <1>1, WFMin

LEMMA LeastNatural ==
  ASSUME NEW T, T \subseteq Nat, T # {}
  PROVE  \E t \in T : \A u \in T : ~ (u < t)
<1> DEFINE R == {p \in Nat \X Nat : p[1] < p[2]}
<1>1. \E t \in T : \A u \in T : ~ (<<u, t>> \in R)
  <2>1. R = OpToRel(<, Nat)
    BY NatRelation
  <2> HIDE DEF R
  <2> QED BY <2>1, LeastPair
<1>2. \A u, v \in Nat : u < v => <<u, v>> \in R
  OBVIOUS
<1> HIDE DEF R
<1> QED BY <1>1, <1>2
=============================================================================

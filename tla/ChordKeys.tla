------------------------------ MODULE ChordKeys ------------------------------
(***************************************************************************)
(* The identifier circle of the Chord ring and the five places where the   *)
(* code compares positions on it.  PennKeyHelper::CreateShaKey maps node   *)
(* numbers and search terms to uint32_t; the operators below work on a     *)
(* circle of 2^Bits identifiers (Bits = 32 in the code).                   *)
(*                                                                         *)
(* Each comparison is written out with < and > in the source, once per     *)
(* handler, because the circle wraps around.  They are translated as they  *)
(* stand; the reference definitions at the end of the module say what each *)
(* of them is meant to compute, in terms of clockwise distance.            *)
(***************************************************************************)
EXTENDS Integers

CONSTANT Bits           \* width of a key: 32 in the code

Finger   == 0 .. Bits - 1        \* indices of m_fingerTable
RingSize == 2 ^ Bits
Id       == 0 .. RingSize - 1    \* uint32_t

ASSUME KeyWidth == Bits \in Nat \ {0}

(***************************************************************************)
(* Two facts about powers of two, stated because exponentiation is opaque  *)
(* to the provers.  TLC evaluates them for the Bits of each run.           *)
(***************************************************************************)
ASSUME PowersOfTwo ==
  /\ RingSize \in Nat \ {0, 1}
  /\ \A i \in Finger : 2 ^ i \in 1 .. RingSize - 1

(* "-1" stored in a uint32_t: the hash of a nil successor or predecessor.  *)
NilHash == RingSize - 1

-----------------------------------------------------------------------------
(* The comparisons of the code.                                            *)

(* Mutant: not for its successor.                                          *)
OwnsTargetStrict(curr, succ, h) ==
  \/ succ > curr  /\ h > curr /\ h < succ
  \/ succ <= curr /\ (h > curr \/ h < succ)

(* Mutant: its own identifier is its successor's.                          *)
OwnsTargetOwn(curr, succ, h) ==
  \/ succ > curr  /\ h >= curr /\ h <= succ
  \/ succ <= curr /\ (h >= curr \/ h <= succ)

(* ProcessFindPredReq: a node at curr whose successor is at succ answers   *)
(* for the identifier h.                                                   *)
OwnsTarget(curr, succ, h) ==
  \/ succ > curr  /\ h > curr /\ h <= succ
  \/ succ <= curr /\ (h > curr \/ h <= succ)

(* Mutant: the node itself is better than its successor.                   *)
BetterSuccessorSelf(curr, succ, x) ==
  \/ succ > curr /\ x >= curr /\ x < succ
  \/ succ < curr /\ (x >= curr \/ x < succ)

(* ProcessStabilizeRsp: the successor's predecessor x is a better one.     *)
BetterSuccessor(curr, succ, x) ==
  \/ succ > curr /\ x > curr /\ x < succ
  \/ succ < curr /\ (x > curr \/ x < succ)

(* ProcessNotify: the notifier x is a better predecessor than pred.        *)
NotifierInRange(pred, curr, x) ==
  \/ curr > pred /\ x > pred /\ x < curr
  \/ curr < pred /\ (x > pred \/ x < curr)

(* ClosestPrecedingNode: the finger f precedes id as seen from n.          *)
FingerPrecedes(n, f, id) ==
  \/ id > n /\ f > n /\ f < id
  \/ id < n /\ (f > n \/ f < id)

(* HandleRehashKeys: a node at curr with predecessor pred keeps key h.     *)
KeepsKey(pred, curr, h) ==
  \/ curr > pred  /\ h > pred /\ h <= curr
  \/ curr <= pred /\ (h > pred \/ h <= curr)

(***************************************************************************)
(* FixFingers: currHash + pow(2, nextFinger) is a double passed as a       *)
(* uint32_t.  When the sum does not fit, the conversion is undefined: the  *)
(* x86-64 build keeps the low bits, the AArch64 build saturates.  Both     *)
(* outcomes are in the set.                                                *)
(***************************************************************************)
FingerStarts(h, i) ==
  LET sum == h + 2 ^ i IN
  IF sum < RingSize THEN {sum} ELSE {sum - RingSize, RingSize - 1}

-----------------------------------------------------------------------------
(* What the comparisons are meant to compute.                              *)

(* Steps clockwise from a to b; a whole turn from a to itself.             *)
Distance(a, b) == IF a < b THEN b - a ELSE b - a + RingSize

(* x lies on the open arc from a to b; on all but a when a = b.            *)
InOpenArc(a, x, b) == Distance(a, x) < Distance(a, b)

(* x lies on the arc from a, excluded, to b, included.                     *)
InHalfOpenArc(a, x, b) == Distance(a, x) <= Distance(a, b)
=============================================================================

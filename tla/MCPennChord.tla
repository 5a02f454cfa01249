---------------------------- MODULE MCPennChord ----------------------------
(***************************************************************************)
(* Instances of PennChord for TLC: up to four nodes on a circle of 4 or 8  *)
(* identifiers, and what their users type.                                 *)
(***************************************************************************)
EXTENDS PennChordProperties, TLC

CONSTANTS a, b, c, d, Settled

At(f) == [n \in Node |-> f[n]]

(* d and b lie on either side of the founder a; c has the hash of "-1".    *)
MCHash == At((a :> 3) @@ (b :> 5) @@ (c :> 7) @@ (d :> 1))

(* On the circle of four identifiers, with one free.                       *)
MCSmallHash == At((a :> 1) @@ (b :> 2) @@ (c :> 3))

Founded(others) == [n \in Node |-> IF n = a THEN {"CREATE"} ELSE others]

MCJoins     == Founded({"JOIN"})
MCWalk      == [n \in Node |-> Founded({"JOIN"})[n]
                                 \cup (IF n = b THEN {"RINGSTATE"} ELSE {})]
MCLeave     == [n \in Node |-> Founded({"JOIN"})[n]
                                 \cup (IF n = b THEN {"LEAVE"} ELSE {})]
MCLeaves    == [n \in Node |-> IF n = c THEN {"JOIN"} ELSE {"LEAVE"}]
MCAnything  == [n \in Node |-> IF n = a THEN {"CREATE", "LEAVE"}
                               ELSE {"JOIN", "REJOIN"}]
NoLookups   == [n \in Node |-> 0]
OneFromB    == [n \in Node |-> IF n = b THEN 1 ELSE 0]

(* The nodes Settled form the ring before anyone types.                    *)
SettledRingSpec == SettledRing(Settled) /\ [][Next]_vars /\ Fairness
=============================================================================

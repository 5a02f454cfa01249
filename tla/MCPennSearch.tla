---------------------------- MODULE MCPennSearch ----------------------------
(***************************************************************************)
(* Instances of PennSearch for TLC.  They start from a ring that has       *)
(* settled and an index that has been published, so that the states are    *)
(* those of searches, publications, joins and leaves.                      *)
(***************************************************************************)
EXTENDS PennSearchProperties, MCPennChord

CONSTANTS tea, oat, fig, menu, bill

(* On the ring d(1) a(3) b(5) c(7): oat is b's; tea is c's, or that of the *)
(* next member without c; fig is d's, or a's without d.                    *)
MCTermHash == [k \in Term |-> CASE k = tea -> 6 [] k = oat -> 4 [] OTHER -> 0]

Lists(f) == [k \in Term |-> IF k \in DOMAIN f THEN f[k] ELSE {}]

(* The index before anyone types, and the files: tea is the list that a    *)
(* node joining between b and a takes over.                                *)
MCIndex == Lists((tea :> {menu, bill}) @@ (oat :> {bill}) @@ (fig :> {menu}))
MCLunch == Lists(oat :> {menu})
MCTip   == Lists(fig :> {bill})
MCNew   == Lists(tea :> {bill})

NoFiles    == [n \in Node |-> {}]
NoSearches == [n \in Node |-> {}]
OneFile    == [n \in Node |-> IF n = a THEN {MCNew} ELSE {}]
TwoFiles   == [n \in Node |-> IF n = a THEN {MCLunch, MCTip} ELSE {}]

(* What c finds depends on how much of the files of a is published yet;    *)
(* without them nothing is left to look for under tea.                     *)
MCSearches ==
  [n \in Node |-> CASE n = b -> {[via |-> a, terms |-> <<tea>>]}
                    [] n = c -> {[via |-> c, terms |-> <<fig, oat, tea>>]}
                    [] OTHER -> {}]

(* b and c search for the same keyword, both from a.                       *)
MCSameSearch ==
  [n \in Node |-> IF n \in {b, c} THEN {[via |-> a, terms |-> <<oat>>]} ELSE {}]

NobodyTypes   == [n \in Node |-> {}]
AllLeave      == [n \in Node |-> IF n = a THEN {} ELSE {"LEAVE"}]
(* c may ask for the ring before any member points at it.                  *)
OneJoins      == [n \in Node |-> IF n = c THEN {"JOIN", "RINGSTATE"} ELSE {}]

(* The nodes Settled form the ring, MCIndex is the index.  With            *)
(* MaxExchanges = 0 what follows happens between two stabilisations.       *)
SettledSpec ==
  RestInit(Settled, MCIndex) /\ [][SearchNext]_allVars /\ SearchFairness
=============================================================================

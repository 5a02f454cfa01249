------------------------ MODULE PennSearchProperties ------------------------
(***************************************************************************)
(* What the index of PennSearch promises to those who publish and search.  *)
(***************************************************************************)
EXTENDS PennSearch, PennChordProperties

-----------------------------------------------------------------------------
(* A later start: the nodes of S form a ring at rest, and each list of the *)
(* index is at the owner of its term.                                      *)
PublishedIndex(index) ==
  /\ filesLeft = Files /\ searchesLeft = Searches
  /\ reading = [n \in Node |-> None]
  /\ hashInvertedLists = [n \in Node |-> NoLists]
  /\ toLookUp = [n \in Node |-> {}]
  /\ stored = [n \in Node |-> [t \in Term |->
                 IF n = Owner(TermHash[t]) THEN index[t] ELSE {}]]
  /\ queryMap = [n \in Node |-> [t \in Term |-> None]]
  /\ makingSearchQuery = [n \in Node |-> FALSE]
  /\ searcher = [n \in Node |-> None]
  /\ searchNetwork = EmptyBag

RestInit(S, index) == SettledRing(S) /\ PublishedIndex(index)

-----------------------------------------------------------------------------
(* The documents listed for t at a node that stays, or on their way to one. *)
Held(t) ==
  {d \in Doc :
     \/ \E n \in Node : process[n] = "up" /\ d \in stored[n][t]
     \/ \E m \in SearchMessages : /\ m.type = "PUBLISH" /\ m.term = t
                                 /\ process[m.dst] = "up" /\ d \in m.docs}

(* Two neighbours that have typed LEAVE and not ended yet.                 *)
AdjacentLeavers ==
  \E n, p \in Node :
    /\ n # p /\ {process[n], process[p]} \subseteq {"leaving", "left"}
    /\ p \in {successor[n], predecessor[n]}

(* A node is about to be without a successor that stays.                   *)
Undermined ==
  AdjacentLeavers \/ \E n \in Node :
    Running(n) /\ successor[n] \in Node /\ Ended(successor[n])

(* No step loses a document: HandleRehashKeys and TransferFiles send every *)
(* document they erase, to a node that stays, and no process ends with     *)
(* any.  The exception is a neighbour of the leaver that leaves as well    *)
(* (penn-search.cpp:229): the two may send their lists to each other, and  *)
(* leave their other neighbours with an exited node for a successor.       *)
(* (What a user publishes meanwhile is another matter: a PUBLISH on its    *)
(* way to a node that types LEAVE is lost with that node.)                 *)
NoDocumentIsLost ==
  [][~ Undermined' => \A t \in Term : Held(t) \subseteq Held(t)']_allVars

(* The LEAVE messages of any number of nodes, however they interleave,     *)
(* restore the ring without a stabilisation, with the same exception.      *)
LeavesConverge == <>AdjacentLeavers \/ <>[]IdealRing

(* All that is listed for a term ends up at the owner of the term, where   *)
(* searches go.                                                            *)
ListsReachOwner ==
  <>AdjacentLeavers \/
  <>[](\A n \in Node, t \in Term :
         process[n] = "up" /\ stored[n][t] # {} => n = Owner(TermHash[t]))

(* What n may have been asked to list for t by the users' files.           *)
Published(t) == UNION {f[t] : f \in UNION {Files[n] \ filesLeft[n] : n \in Node}}

(* While a node joins, what is listed for the terms it takes over moves to *)
(* it.  Only documents published meanwhile may stay where they were sent   *)
(* (:673), and then at the next node, the owner before the JOIN.           *)
OnlyLatePublishesStray ==
  <>[](\A n \in Node, t \in Term :
         process[n] = "up" /\ stored[n][t] # {} =>
           \/ n = Owner(TermHash[t])
           \/ predecessor[n] = Owner(TermHash[t]) /\ stored[n][t] \subseteq Published(t))

-----------------------------------------------------------------------------
(* The process of n has read a second file, or has both published one and  *)
(* looked up a term for a search: the first clears what HandlePublish goes *)
(* by (:246), the second changes the kind of its lookups (:409).           *)
Overlapped(n) ==
  \/ \E f, g \in Files[n] \ filesLeft[n] : f # g
  \/ Files[n] # filesLeft[n] /\ \E t \in Term : queryMap[n][t] # None

Overlap == \E n \in Node : Overlapped(n)

(* The callbacks of PennSearch, run on PennChord's thread, bring a process *)
(* down (hashInvertedLists.at and queryMap.at throw) only at such a node,  *)
(* and no other process ends before that one.                              *)
CrashNeedsOverlap ==
  (\E n \in Node : process[n] = "crashed") =>
    \E n \in Node : process[n] = "crashed" /\ Overlapped(n)

(* A PUBLISH is complete some day: every document of the file is listed    *)
(* for its term, unless the publisher overlapped it with something else.   *)
PublishIsComplete ==
  \A n \in Node : \A f \in Files[n] :
    f \notin filesLeft[n] ~> Overlap \/ \A t \in Term : f[t] \subseteq Held(t)

(* A search finds every document that the index listed for all its terms   *)
(* when it was typed, and none that is not listed for all of them, however *)
(* many nodes it passes and whatever is published meanwhile.               *)
SearchesAreExact ==
  \A m \in SearchMessages :
    m.type = "SEARCH_RSP" =>
      m.query.known \subseteq m.query.docs /\ m.query.docs \subseteq Known(m.query.asked)

(* Whatever joins, leaves or ends: an answer lists only documents that some *)
(* user's file lists for each term asked for, and only of files that have  *)
(* been published (of an index that nobody published before, SearchSpec).  *)
AnswersWerePublished ==
  \A m \in SearchMessages :
    m.type = "SEARCH_RSP" => \A t \in m.query.asked : m.query.docs \subseteq Published(t)

(* Every search is answered (README: users "simply type in a search        *)
(* keyword, and then receive a list of all available documents in the      *)
(* network which match that keyword").                                     *)
SearchesAreAnswered ==
  \A n \in Node : \A s \in Searches[n] :
    <>(s \notin searchesLeft[n]) =>
      <>(\E m \in SearchMessages :
           m.type = "SEARCH_RSP" /\ m.dst = n /\ m.query.asked = ToSet(s.terms))

(* Short of that, every search that is alone at its nodes is answered.     *)
LoneSearchesAreAnswered == <>Overlap \/ SearchesAreAnswered
=============================================================================

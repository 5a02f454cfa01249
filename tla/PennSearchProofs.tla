--------------------------- MODULE PennSearchProofs ---------------------------
(***************************************************************************)
(* The keyword index: what its state and its messages are made of, and     *)
(* what a search returns, for any number of nodes, files and searches.     *)
(***************************************************************************)
EXTENDS PennSearchProperties, PennRingProofs, PennLeaveProofs

-----------------------------------------------------------------------------
(* What the search threads and the callbacks do to the ring.               *)

(* A message is consumed, and a process may end.                           *)
OnlyConsumes ==
  /\ UNCHANGED <<todo, ring, flags, fingers, fixThread, receiver>>
  /\ Messages' \subseteq Messages
  /\ UNCHANGED process \/ \E n \in Node : Running(n) /\ Crash(n)

LEMMA SearchRing ==
  ASSUME TypeOK, SearchTypeOK, [SearchNext]_allVars
  PROVE  \/ [Next]_vars
         \/ \E n \in Node, t \in Term, query \in Query :
              /\ Running(n) /\ Lookup(n, TermHash[t], query)
              /\ t \in toLookUp[n] \/ t = searcher[n]
              /\ query = IF makingSearchQuery[n] THEN "search" ELSE "publish"
         \/ /\ OnlyConsumes
            /\ \/ UNCHANGED process
               \/ \E m \in Messages : ProcessTermRsp(m.dst, m)
               \/ \E m \in SearchMessages : SearchUnreachable(m)
<1>0. /\ \A m \in Messages : m.dst \in Node
      /\ \A m \in SearchMessages : m.src \in Node /\ m.dst \in Node
  BY DEF TypeOK, Messages, Message, SearchTypeOK, SearchMessages, SearchMessage
<1>1. CASE RingStep
  BY <1>1 DEF RingStep, Next, UserStep
<1>2. ASSUME NEW n \in Node, PublishLookup(n) \/ SearchLookup(n)
      PROVE  \E t \in Term, query \in Query :
               /\ Running(n) /\ Lookup(n, TermHash[t], query)
               /\ t \in toLookUp[n] \/ t = searcher[n]
               /\ query = IF makingSearchQuery[n] THEN "search" ELSE "publish"
  BY <1>2 DEF PublishLookup, SearchLookup, LookupTerm, Query, SearchTypeOK
<1>3. ASSUME NEW n \in Node,
             ParsePublish(n) \/ FillInvertedLists(n) \/ ParseSearch(n)
      PROVE  UNCHANGED vars
  BY <1>3 DEF ParsePublish, FillInvertedLists, ParseSearch
<1>4. ASSUME NEW n \in Node, LeaveWithFiles(n) \/ ExitSearch(n)
      PROVE  Next
  BY <1>4 DEF LeaveWithFiles, ExitSearch, Next, UserStep
<1>5. ASSUME NEW m \in Messages, NotifyRehashes(m.dst, m) PROVE Next
  BY <1>5 DEF NotifyRehashes, Next, ProcessMessage
<1>6. ASSUME NEW m \in Messages, ProcessTermRsp(m.dst, m) PROVE OnlyConsumes
  BY <1>0, <1>6, ConsumeRemoves
  DEF ProcessTermRsp, HandleSearch, HandlePublish, Receive, OnlyConsumes
<1>7. ASSUME NEW m \in SearchMessages,
             \/ ProcessPublish(m.dst, m) \/ ProcessInitialReq(m.dst, m)
             \/ ProcessNextReq(m.dst, m) \/ ProcessSearchRsp(m.dst, m)
      PROVE  UNCHANGED vars
  BY <1>7 DEF ProcessPublish, ProcessInitialReq, ProcessNextReq, ProcessSearchRsp
<1>8. ASSUME NEW m \in SearchMessages, SearchUnreachable(m) PROVE OnlyConsumes
  BY <1>0, <1>8 DEF SearchUnreachable, OnlyConsumes, Messages
<1>9. CASE UNCHANGED allVars
  BY <1>9 DEF allVars
<1> QED BY <1>1, <1>2, <1>3, <1>4, <1>5, <1>6, <1>7, <1>8, <1>9
        DEF SearchNext, SearchStep

LEMMA TermHashType == \A t \in Term : TermHash[t] \in Id
BY DistinctTerms

(* What the messages of PennChord's part of the state are made of.         *)
LEMMA TypeConsumes ==
  ASSUME TypeOK, OnlyConsumes
  PROVE  TypeOK'
<1>1. process' \in [Node -> Life]
  BY TypeCrash DEF OnlyConsumes, TypeOK
<1> QED BY <1>1 DEF OnlyConsumes, TypeOK, ring, flags, fingers, fixThread, Messages

LEMMA TypeSearchRing ==
  ASSUME TypeOK, SearchTypeOK, [SearchNext]_allVars
  PROVE  TypeOK'
BY SearchRing, TypeStep, TypeLookup, TypeConsumes, TermHashType

(* A member has a successor, and its fields name it.                       *)
RingOK == AddressInv /\ \A n \in Node : inRing[n] => successor[n] # Nil

LEMMA SuccessorKept ==
  ASSUME RingOK, [Next]_vars, NEW n \in Node, inRing'[n]
  PROVE  successor'[n] # Nil
<1>0. TypeOK /\ \A p \in Node : AddressNode(p)
  BY DEF RingOK, AddressInv
<1>1. ASSUME NEW p \in Node, UserStep(p) PROVE successor'[n] # Nil
  <2>1. CASE CreateRing(p)
    BY <1>0, <2>1, NilIsNoNode DEF CreateRing, RingOK, TypeOK
  <2>2. ASSUME NEW c \in Node, Join(p, c) PROVE successor'[n] # Nil
    <3>1. ~ inRing[p] /\ inRing' = inRing /\ successor' = [successor EXCEPT ![p] = Nil]
      BY <1>0, <2>2 DEF Join, Typed, AddressNode
    <3> QED BY <1>0, <3>1 DEF RingOK, TypeOK
  <2>3. CASE Leave(p) \/ RingState(p) \/ LookupAnything(p)
    <3>1. successor' = successor /\ (inRing'[n] => inRing[n])
      BY <1>0, <2>3 DEF Leave, RingState, LookupAnything, Lookup, ring, flags, TypeOK
    <3> QED BY <3>1 DEF RingOK
  <2> QED BY <1>1, <2>1, <2>2, <2>3 DEF UserStep
<1>2. ASSUME NEW p \in Node,
             \/ TimerStep(p) \/ LeaveSuccessor(p) \/ Exit(p)
             \/ ReadFinger(p) \/ FindSuccessor(p) \/ Notify(p)
      PROVE  successor'[n] # Nil
  <2>1. successor' = successor /\ inRing' = inRing
    BY <1>2 DEF TimerStep, FixFingers, Stabilize, LeaveSuccessor, Exit, ReadFinger,
                FindSuccessor, Notify, ring, flags
  <2> QED BY <2>1 DEF RingOK
<1>3. ASSUME NEW m \in Messages, ProcessMessage(m.dst, m) \/ Unreachable(m)
      PROVE  successor'[n] # Nil
  <2>0. m.dst \in Node /\ m \in Message
    BY <1>0 DEF TypeOK, Messages, Message
  <2>1. CASE \/ ProcessStabilizeReq(m.dst, m) \/ ProcessRingState(m.dst, m)
             \/ ProcessFindPredReq(m.dst, m) \/ ProcessLeaveS(m.dst, m)
             \/ Unreachable(m)
    <3>1. successor' = successor /\ inRing' = inRing
      BY <2>1 DEF ProcessStabilizeReq, ProcessRingState, ProcessFindPredReq,
                  ProcessLeaveS, Unreachable, ring, flags
    <3> QED BY <3>1 DEF RingOK
  <2>2. CASE ProcessStabilizeRsp(m.dst, m) \/ ProcessLeaveP(m.dst, m)
    <3>1. /\ inRing' = inRing
          /\ \/ successor' = successor
             \/ \E s : s # Nil /\ successor' = [successor EXCEPT ![m.dst] = s]
      BY <2>2 DEF ProcessStabilizeRsp, Adopts, ProcessLeaveP, flags
    <3> QED BY <1>0, <2>0, <3>1 DEF RingOK, TypeOK
  <2>3. CASE ProcessNotify(m.dst, m)
    <3>1. m.src # Nil
      BY <2>0, <2>3, NilIsNoNode DEF ProcessNotify, Receive, Message
    <3>2. /\ inRing' = inRing
          /\ successor' = successor \/ successor' = [successor EXCEPT ![m.dst] = m.src]
      BY <2>3 DEF ProcessNotify, ring
    <3> QED BY <1>0, <2>0, <3>1, <3>2 DEF RingOK, TypeOK
  <2>4. CASE ProcessFindPredRsp(m.dst, m)
    <3>1. CASE ~ TakeAsJoin(m.dst, m)
      <4>1. successor' = successor /\ inRing' = inRing
        BY <2>4, <3>1 DEF ProcessFindPredRsp, SearchCallback, TakeAsFinger,
                          IgnoreResponse, ring, flags
      <4> QED BY <4>1 DEF RingOK
    <3>2. CASE TakeAsJoin(m.dst, m)
      <4>1. ~ inRing[m.dst] /\ successor' = [successor EXCEPT ![m.dst] = m.successor]
        BY <1>0, <2>0, <3>2 DEF TakeAsJoin, AddressNode
      <4>2. \/ m.successor # Nil /\ inRing' = [inRing EXCEPT ![m.dst] = TRUE]
            \/ inRing' = inRing
        BY <3>2 DEF TakeAsJoin
      <4> QED BY <1>0, <2>0, <4>1, <4>2 DEF RingOK, TypeOK
    <3> QED BY <3>1, <3>2
  <2> QED BY <1>3, <2>1, <2>2, <2>3, <2>4 DEF ProcessMessage
<1>4. CASE UNCHANGED vars
  BY <1>4 DEF vars, ring, flags, RingOK
<1> QED BY <1>1, <1>2, <1>3, <1>4 DEF Next

LEMMA RingKeptOK ==
  ASSUME RingOK, SearchTypeOK, [SearchNext]_allVars
  PROVE  RingOK'
<1>0. TypeOK /\ TypeOK'
  BY TypeSearchRing DEF RingOK, AddressInv
<1>1. CASE [Next]_vars
  BY <1>1, AddressStep, SuccessorKept DEF RingOK
<1>2. ASSUME NEW n \in Node, Crash(n) \/ UNCHANGED process,
             UNCHANGED <<todo, ring, flags>>
      PROVE  RingOK'
  <2>1. \A k \in Node : AddressNode(k)'
    BY <1>2, AddressFrame DEF RingOK
  <2> QED BY <1>0, <1>2, <2>1 DEF RingOK, AddressInv, ring, flags
<1>3. ASSUME NEW n \in Node, NEW id, NEW query, Lookup(n, id, query) PROVE RingOK'
  BY <1>2, <1>3 DEF Lookup
<1>4. CASE OnlyConsumes /\ ~ UNCHANGED process
  BY <1>2, <1>4 DEF OnlyConsumes
<1>5. CASE OnlyConsumes /\ UNCHANGED process
  <2>1. UNCHANGED <<todo, process, ring, flags>>
    BY <1>5 DEF OnlyConsumes
  <2> QED BY <1>0, <2>1 DEF RingOK, AddressInv, AddressNode, ring, flags
<1> QED BY <1>0, <1>1, <1>3, <1>4, <1>5, SearchRing

-----------------------------------------------------------------------------
(* The messages of PennSearch.                                             *)

LEMMA ShipAllAdds ==
  ASSUME NEW M, ShipAll(M)
  PROVE  SearchMessages' = SearchMessages \cup M
BY DEF ShipAll, SearchMessages, (+), SetToBag

LEMMA ShipAdds ==
  ASSUME NEW m, Ship(m)
  PROVE  SearchMessages' = SearchMessages \cup {m}
BY BagAddDomain DEF Ship, SearchMessages

LEMMA TakeRemoves ==
  ASSUME NEW m, Take(m)
  PROVE  SearchMessages' \subseteq SearchMessages
BY BagRemoveDomain DEF Take, SearchMessages

(* What the lists of terms are made of.                                    *)
LEMMA HeadAndTail ==
  ASSUME NEW s \in Seq(Term), s # << >>
  PROVE  /\ Head(s) \in Term /\ Tail(s) \in Seq(Term)
         /\ ToSet(s) = {Head(s)} \cup ToSet(Tail(s))
<1>1. Len(s) \in Nat /\ Len(s) > 0 /\ DOMAIN s = 1 .. Len(s)
  OBVIOUS
<1>2. Head(s) = s[1] /\ Head(s) \in Term /\ Tail(s) \in Seq(Term)
  OBVIOUS
<1>3. /\ Len(Tail(s)) = Len(s) - 1 /\ DOMAIN Tail(s) = 1 .. Len(s) - 1
      /\ \A i \in 1 .. Len(s) - 1 : Tail(s)[i] = s[i + 1]
  OBVIOUS
<1>4. \A i \in 1 .. Len(s) : i # 1 => i - 1 \in 1 .. Len(s) - 1 /\ s[i] = Tail(s)[i - 1]
  BY <1>1, <1>3
<1>5. \A x \in ToSet(s) : x = Head(s) \/ x \in ToSet(Tail(s))
  <2> SUFFICES ASSUME NEW i \in 1 .. Len(s)
               PROVE  s[i] = Head(s) \/ s[i] \in ToSet(Tail(s))
    BY <1>1 DEF ToSet
  <2>1. CASE i = 1
    BY <1>2, <2>1
  <2>2. CASE i # 1
    BY <1>3, <1>4, <2>2 DEF ToSet
  <2> QED BY <2>1, <2>2
<1>6. Head(s) \in ToSet(s)
  BY <1>1, <1>2 DEF ToSet
<1>7. \A x \in ToSet(Tail(s)) : x \in ToSet(s)
  <2>1. \A i \in 1 .. Len(s) - 1 : i + 1 \in 1 .. Len(s)
    BY <1>1
  <2> QED BY <1>1, <1>3, <2>1 DEF ToSet
<1> QED BY <1>2, <1>5, <1>6, <1>7

LEMMA TermsType ==
  ASSUME NEW s \in Seq(Term)
  PROVE  ToSet(s) \subseteq Term
BY DEF ToSet

-----------------------------------------------------------------------------
(* Types.                                                                  *)

IsLookup(m) == m.type \in {"FIND_PRED_REQ", "FIND_PRED_RSP"} /\ m.query \in Query

(* A search on its way still has a term to look up, and nothing else is    *)
(* looked up for PennSearch.                                               *)
SearchInv ==
  /\ RingOK /\ SearchTypeOK
  /\ \A m \in Messages : IsLookup(m) => \E t \in Term : m.target = TermHash[t]
  /\ DOMAIN searchesLeft = Node
  /\ \A n \in Node, t \in Term :
       queryMap[n][t] # None => queryMap[n][t].terms # << >>
  /\ \A m \in SearchMessages :
       m.type = "SEARCH_REQ" => m.query.terms # << >>

LEMMA LookupSends ==
  ASSUME NEW n, NEW id, NEW query, Lookup(n, id, query),
         NEW x \in Messages' \ Messages
  PROVE  x = [type |-> "FIND_PRED_REQ", src |-> n, dst |-> ClosestPrecedingNode(n, id),
              origin |-> n, target |-> id, query |-> query]
<1> DEFINE next == ClosestPrecedingNode(n, id)
<1>1. CASE next = Nil
  BY <1>1 DEF Lookup, Messages
<1>2. CASE next # Nil
  BY <1>2, SendAdds DEF Lookup
<1> QED BY <1>1, <1>2

LEMMA LookupsOfTerms ==
  ASSUME SearchInv, [SearchNext]_allVars, NEW x \in Messages', IsLookup(x)
  PROVE  \E t \in Term : x.target = TermHash[t]
<1>0. TypeOK /\ SearchTypeOK
  BY DEF SearchInv, RingOK, AddressInv
<1>1. CASE x \in Messages
  BY <1>1 DEF SearchInv
<1>2. CASE x \notin Messages /\ [Next]_vars
  <2>1. Expected(x)
    BY <1>0, <1>2, StepSends
  <2>2. \A m \in Messages :
          m.type = "FIND_PRED_REQ" /\ m.target = x.target /\ m.query = x.query =>
            \E t \in Term : x.target = TermHash[t]
    BY DEF SearchInv, IsLookup
  <2>3. Answered(x) \/ Asked(x)
    BY <2>1 DEF Expected, IsLookup
  <2>4. x.query # "none"
    BY DEF IsLookup, Query
  <2> QED BY <2>2, <2>3, <2>4, PatientUsers DEF Answered, Asked
<1>3. ASSUME x \notin Messages,
             NEW n \in Node, NEW t \in Term, NEW query \in Query,
             Lookup(n, TermHash[t], query)
      PROVE  x.target = TermHash[t]
  BY <1>3, LookupSends
<1>4. CASE x \notin Messages /\ OnlyConsumes
  BY <1>4 DEF OnlyConsumes
<1> QED BY <1>0, <1>1, <1>2, <1>3, <1>4, SearchRing

(* The term of a lookup is the one its target was computed from.           *)
LEMMA TermOfIs ==
  ASSUME NEW t \in Term, NEW id, id = TermHash[t]
  PROVE  TermOf(id) = t
BY DistinctTerms DEF TermOf

(* What a step has to show of the messages it sends and of queryMap.       *)
LEMMA SearchInvKept ==
  ASSUME SearchInv, [SearchNext]_allVars, SearchTypeOK', DOMAIN searchesLeft' = Node,
         \A n \in Node, t \in Term :
           \/ queryMap'[n][t] = queryMap[n][t]
           \/ queryMap'[n][t].terms # << >>,
         \A m \in SearchMessages' \ SearchMessages :
           m.type = "SEARCH_REQ" => m.query.terms # << >>
  PROVE  SearchInv'
<1>1. RingOK' /\ \A m \in Messages' :
                   IsLookup(m) => \E t \in Term : m.target = TermHash[t]
  BY RingKeptOK, LookupsOfTerms DEF SearchInv
<1> QED BY <1>1 DEF SearchInv, IsLookup

LEMMA PublishType ==
  ASSUME NEW p \in Node, NEW n \in Node, NEW t \in Term, NEW docs \in SUBSET Doc
  PROVE  Publish(p, n, t, docs) \in SearchMessage
BY DEF Publish, SearchMessage

LEMMA UserTypesType ==
  ASSUME SearchInv, NEW n \in Node,
         ParsePublish(n) \/ FillInvertedLists(n) \/ ParseSearch(n)
  PROVE  /\ SearchTypeOK' /\ DOMAIN searchesLeft' = Node /\ queryMap' = queryMap
         /\ \A m \in SearchMessages' \ SearchMessages :
              m.type = "SEARCH_REQ" => m.query.terms # << >>
<1>0. SearchTypeOK /\ DOMAIN searchesLeft = Node
  BY DEF SearchInv
<1>1. CASE ParsePublish(n)
  <2>1. NoLists \in File
    BY DEF NoLists, File
  <2>2. PICK f \in filesLeft[n] :
          /\ filesLeft' = [filesLeft EXCEPT ![n] = @ \ {f}]
          /\ reading' = [reading EXCEPT ![n] = f]
    BY <1>1 DEF ParsePublish
  <2>3. f \in File
    BY <1>0, <2>2 DEF SearchTypeOK
  <2>4. UNCHANGED <<searchesLeft, toLookUp, stored, queryMap, makingSearchQuery,
                    searcher, searchNetwork>>
    BY <1>1 DEF ParsePublish, searching
  <2>5. hashInvertedLists' \in [Node -> File]
    BY <1>0, <1>1, <2>1 DEF ParsePublish, SearchTypeOK
  <2> QED BY <1>0, <2>2, <2>3, <2>4, <2>5 DEF SearchTypeOK, SearchMessages
<1>2. CASE FillInvertedLists(n)
  BY <1>0, <1>2 DEF FillInvertedLists, SearchTypeOK, SearchMessages, typing, searching
<1>3. CASE ParseSearch(n)
  <2>1. PICK s \in searchesLeft[n] :
          /\ searchesLeft' = [searchesLeft EXCEPT ![n] = @ \ {s}]
          /\ Ship([type |-> "SEARCH_REQ", src |-> n, dst |-> s.via,
                   initialReq |-> TRUE,
                   query |-> [docs |-> {}, terms |-> s.terms, origin |-> n,
                              asked |-> ToSet(s.terms),
                              known |-> Known(ToSet(s.terms))]])
    BY <1>3 DEF ParseSearch
  <2>2. s.via \in Node /\ s.terms \in Seq(Term) /\ s.terms # << >>
    BY <1>0, <2>1, SearchInput DEF SearchTypeOK
  <2> DEFINE q == [docs |-> {}, terms |-> s.terms, origin |-> n,
                   asked |-> ToSet(s.terms), known |-> Known(ToSet(s.terms))]
             m == [type |-> "SEARCH_REQ", src |-> n, dst |-> s.via,
                   initialReq |-> TRUE, query |-> q]
  <2>3. q \in SearchQuery
    BY <2>2, TermsType DEF SearchQuery, Known
  <2>4. m \in SearchMessage
    <3> HIDE DEF q
    <3> QED BY <2>2, <2>3 DEF SearchMessage
  <2>5. SearchMessages' = SearchMessages \cup {m}
    BY <2>1, ShipAdds
  <2>6. UNCHANGED <<filesLeft, reading, hashInvertedLists, toLookUp, stored,
                    queryMap, makingSearchQuery, searcher>>
    BY <1>3 DEF ParseSearch, publishing, searching
  <2>7. m.query.terms = s.terms
    OBVIOUS
  <2>8. SearchTypeOK'
    <3> HIDE DEF m
    <3> QED BY <1>0, <2>1, <2>4, <2>5, <2>6 DEF SearchTypeOK, SearchMessages
  <2> HIDE DEF m
  <2> QED BY <1>0, <2>1, <2>2, <2>5, <2>6, <2>7, <2>8
<1> QED BY <1>1, <1>2, <1>3

(* The lookups.                                                            *)
LEMMA LookupStepType ==
  ASSUME SearchInv, NEW n \in Node, PublishLookup(n) \/ SearchLookup(n)
  PROVE  /\ SearchTypeOK' /\ DOMAIN searchesLeft' = Node /\ queryMap' = queryMap
         /\ SearchMessages' = SearchMessages
<1>0. SearchTypeOK /\ DOMAIN searchesLeft = Node
  BY DEF SearchInv
<1>1. CASE PublishLookup(n)
  BY <1>0, <1>1 DEF PublishLookup, SearchTypeOK, SearchMessages, typing, searching
<1>2. CASE SearchLookup(n)
  BY <1>0, <1>2 DEF SearchLookup, SearchTypeOK, SearchMessages, typing, publishing
<1> QED BY <1>1, <1>2

(* The callbacks, on the threads of PennChord.                             *)
LEMMA CallbackType ==
  ASSUME SearchInv,
         \/ \E n \in Node : LeaveWithFiles(n)
         \/ \E m \in Messages : NotifyRehashes(m.dst, m) \/ ProcessTermRsp(m.dst, m)
  PROVE  /\ SearchTypeOK' /\ DOMAIN searchesLeft' = Node /\ queryMap' = queryMap
         /\ \A m \in SearchMessages' \ SearchMessages :
              m.type = "SEARCH_REQ" => m.query.terms # << >>
<1>0. TypeOK /\ SearchTypeOK /\ DOMAIN searchesLeft = Node
  BY DEF SearchInv, RingOK, AddressInv
<1>1. ASSUME NEW n \in Node, LeaveWithFiles(n)
      PROVE  /\ SearchTypeOK' /\ DOMAIN searchesLeft' = Node /\ queryMap' = queryMap
             /\ \A m \in SearchMessages' \ SearchMessages : m.type = "PUBLISH"
  <2> DEFINE M == {Publish(n, Heir(n), t, stored[n][t]) :
                     t \in {u \in Term : stored[n][u] # {}}}
  <2>1. inRing[n]
    BY <1>1, PatientUsers DEF LeaveWithFiles, Leave, UserReady
  <2>2. Heir(n) \in Node
    BY <1>0, <2>1 DEF SearchInv, RingOK, Heir, TypeOK, NodeOrNil
  <2>3. \A m \in M : m \in SearchMessage /\ m.type = "PUBLISH"
    BY <1>0, <2>2, PublishType DEF Publish, SearchTypeOK, File
  <2>4. SearchMessages' = SearchMessages \cup M
    BY <1>1, ShipAllAdds DEF LeaveWithFiles, TransferFiles
  <2>5. stored' \in [Node -> File]
    BY <1>0, <1>1 DEF LeaveWithFiles, TransferFiles, SearchTypeOK, NoLists, File
  <2>6. UNCHANGED <<filesLeft, searchesLeft, reading, hashInvertedLists, toLookUp,
                    queryMap, makingSearchQuery, searcher>>
    BY <1>1 DEF LeaveWithFiles, TransferFiles, typing, publishing, searching
  <2> HIDE DEF M
  <2> QED BY <1>0, <2>3, <2>4, <2>5, <2>6 DEF SearchTypeOK, SearchMessages
<1>2. ASSUME NEW m \in Messages, NotifyRehashes(m.dst, m)
      PROVE  /\ SearchTypeOK' /\ DOMAIN searchesLeft' = Node /\ queryMap' = queryMap
             /\ \A x \in SearchMessages' \ SearchMessages : x.type = "PUBLISH"
  <2>1. m.src \in Node /\ m.dst \in Node
    BY <1>0, <1>2 DEF NotifyRehashes, ProcessNotify, Receive, TypeOK, Messages, Message
  <2>2. CASE ~ AcceptsNotify(m.dst, m.src)
    BY <1>0, <1>2, <2>2 DEF NotifyRehashes, SearchTypeOK, searchVars, typing, publishing,
                            searching, SearchMessages
  <2>3. CASE AcceptsNotify(m.dst, m.src)
    <3> DEFINE n == m.dst
               p == m.src
               keeps(t) == KeepsKey(Hash[p], Hash[n], TermHash[t])
               M == UNION {{Publish(n, p, t, {d}) : d \in stored[n][t]} :
                             t \in {u \in Term : ~ keeps(u)}}
    <3>1. HandleRehashKeys(n, p)
      BY <1>2, <2>3 DEF NotifyRehashes
    <3>2. \A x \in M : x \in SearchMessage /\ x.type = "PUBLISH"
      <4> SUFFICES ASSUME NEW x \in M
                   PROVE  x \in SearchMessage /\ x.type = "PUBLISH"
        OBVIOUS
      <4>1. PICK t \in Term : x \in {Publish(n, p, t, {d}) : d \in stored[n][t]}
        OBVIOUS
      <4>2. PICK d \in stored[n][t] : x = Publish(n, p, t, {d})
        BY <4>1
      <4>3. {d} \in SUBSET Doc
        BY <1>0, <2>1 DEF SearchTypeOK, File
      <4> HIDE DEF M
      <4> QED BY <2>1, <4>2, <4>3, PublishType DEF Publish
    <3>3. SearchMessages' = SearchMessages \cup M
      BY <3>1, ShipAllAdds DEF HandleRehashKeys
    <3>4. stored' \in [Node -> File]
      <4>1. stored' = [stored EXCEPT ![n] =
                         [t \in Term |-> IF keeps(t) THEN stored[n][t] ELSE {}]]
        BY <1>0, <2>1, <3>1 DEF HandleRehashKeys, SearchTypeOK
      <4>2. [t \in Term |-> IF keeps(t) THEN stored[n][t] ELSE {}] \in File
        <5> HIDE DEF keeps
        <5> QED BY <1>0, <2>1 DEF SearchTypeOK, File
      <4> HIDE DEF keeps
      <4> QED BY <1>0, <4>1, <4>2 DEF SearchTypeOK
    <3>5. UNCHANGED <<filesLeft, searchesLeft, reading, hashInvertedLists, toLookUp,
                      queryMap, makingSearchQuery, searcher>>
      BY <3>1 DEF HandleRehashKeys, typing, publishing, searching
    <3> HIDE DEF M
    <3> QED BY <1>0, <3>2, <3>3, <3>4, <3>5 DEF SearchTypeOK, SearchMessages
  <2> QED BY <2>2, <2>3
<1>3. ASSUME NEW m \in Messages, ProcessTermRsp(m.dst, m)
      PROVE  /\ SearchTypeOK' /\ DOMAIN searchesLeft' = Node /\ queryMap' = queryMap
             /\ \A x \in SearchMessages' \ SearchMessages :
                  x.type = "SEARCH_REQ" => x.query.terms # << >>
  <2> DEFINE n == m.dst
             t == TermOf(m.target)
  <2>0. n \in Node /\ m.successor \in NodeOrNil /\ m.type = "FIND_PRED_RSP"
    BY <1>0, <1>3 DEF ProcessTermRsp, Receive, TypeOK, Messages, Message
  <2>1. UNCHANGED <<filesLeft, searchesLeft, reading, hashInvertedLists, toLookUp,
                    stored, queryMap, makingSearchQuery, searcher>>
    BY <1>3 DEF ProcessTermRsp, typing, publishing, searching
  <2>2. t \in Term
    <3>1. m.query \in Query
      BY <1>3 DEF ProcessTermRsp, HandleSearch, HandlePublish, Query
    <3> QED BY <2>0, <3>1, TermOfIs DEF SearchInv, IsLookup
  <2>3. CASE searchNetwork' = searchNetwork
    BY <1>0, <2>1, <2>3 DEF SearchTypeOK, SearchMessages
  <2>4. CASE HandleSearch(n, m) /\ searchNetwork' # searchNetwork
    <3> DEFINE q == queryMap[n][t]
               r == [type |-> "SEARCH_REQ", src |-> n, query |-> q,
                     dst |-> IF m.successor = Nil THEN n ELSE m.successor,
                     initialReq |-> FALSE]
    <3>1. q # None /\ SearchMessages' = SearchMessages \cup {r}
      BY <2>4, ShipAdds DEF HandleSearch
    <3>2. q \in SearchQuery /\ q.terms # << >>
      BY <1>0, <2>0, <2>2, <3>1 DEF SearchInv, SearchTypeOK
    <3>3. r \in SearchMessage /\ r.query = q
      <4> HIDE DEF q
      <4> QED BY <2>0, <3>2 DEF SearchMessage, NodeOrNil
    <3> HIDE DEF r
    <3> QED BY <1>0, <2>1, <3>1, <3>2, <3>3 DEF SearchTypeOK, SearchMessages
  <2>5. CASE HandlePublish(n, m) /\ searchNetwork' # searchNetwork
    <3> DEFINE r == Publish(n, Target(m), t, hashInvertedLists[n][t])
    <3>1. Target(m) # Nil /\ SearchMessages' = SearchMessages \cup {r}
      BY <2>5, ShipAdds DEF HandlePublish
    <3>2. r \in SearchMessage /\ r.type = "PUBLISH"
      <4>1. hashInvertedLists[n][t] \in SUBSET Doc /\ Target(m) \in Node
        BY <1>0, <2>0, <2>2, <3>1 DEF SearchTypeOK, File, NodeOrNil, Target
      <4> HIDE DEF t
      <4> QED BY <2>0, <2>2, <4>1, PublishType DEF Publish
    <3> HIDE DEF r
    <3> QED BY <1>0, <2>1, <3>1, <3>2 DEF SearchTypeOK, SearchMessages
  <2> QED BY <1>3, <2>3, <2>4, <2>5 DEF ProcessTermRsp
<1> QED BY <1>1, <1>2, <1>3

(* The thread of PennSearch.                                               *)
LEMMA SearchThreadType ==
  ASSUME SearchInv, NEW m \in SearchMessages,
         \/ ProcessPublish(m.dst, m) \/ ProcessInitialReq(m.dst, m)
         \/ ProcessNextReq(m.dst, m) \/ ProcessSearchRsp(m.dst, m)
         \/ SearchUnreachable(m)
  PROVE  /\ SearchTypeOK' /\ DOMAIN searchesLeft' = Node
         /\ \A n \in Node, t \in Term :
              \/ queryMap'[n][t] = queryMap[n][t]
              \/ queryMap'[n][t].terms # << >>
         /\ \A x \in SearchMessages' \ SearchMessages : x.type = "SEARCH_RSP"
<1>0. /\ SearchTypeOK /\ DOMAIN searchesLeft = Node
      /\ m \in SearchMessage /\ m.dst \in Node /\ m.src \in Node
  BY DEF SearchInv, SearchTypeOK, SearchMessages, SearchMessage
<1>1. CASE ProcessPublish(m.dst, m)
  <2>1. m.term \in Term /\ m.docs \in SUBSET Doc
    BY <1>0, <1>1 DEF ProcessPublish, ReceiveSearch, SearchMessage
  <2>2. stored' = [stored EXCEPT ![m.dst][m.term] = Merged(stored[m.dst][m.term], m.docs)]
    BY <1>1 DEF ProcessPublish, Merged
  <2>3. stored' \in [Node -> File]
    BY <1>0, <2>1, <2>2 DEF SearchTypeOK, File, Merged
  <2>4. SearchMessages' \subseteq SearchMessages
    BY <1>1, TakeRemoves DEF ProcessPublish
  <2> QED BY <1>0, <1>1, <2>3, <2>4
          DEF ProcessPublish, SearchTypeOK, SearchMessages, typing, publishing, searching
<1>2. ASSUME NEW q, q \in SearchQuery, q.terms # << >>, StartLookup(m.dst, q), Take(m),
             UNCHANGED <<typing, publishing, stored>>
      PROVE  /\ SearchTypeOK' /\ DOMAIN searchesLeft' = Node
             /\ \A n \in Node, t \in Term :
                  \/ queryMap'[n][t] = queryMap[n][t]
                  \/ queryMap'[n][t].terms # << >>
             /\ SearchMessages' \subseteq SearchMessages
  <2>1. q.terms \in Seq(Term)
    BY <1>2 DEF SearchQuery
  <2>2. Head(q.terms) \in Term
    BY <1>2, <2>1, HeadAndTail
  <2>3. queryMap' \in [Node -> [Term -> SearchQuery \cup {None}]]
    BY <1>0, <1>2, <2>2 DEF StartLookup, SearchTypeOK
  <2>4. \A n \in Node, t \in Term :
          queryMap'[n][t] = queryMap[n][t] \/ queryMap'[n][t] = q
    BY <1>0, <1>2, <2>2 DEF StartLookup, SearchTypeOK
  <2>5. SearchMessages' \subseteq SearchMessages
    BY <1>2, TakeRemoves
  <2>6. SearchTypeOK'
    BY <1>0, <1>2, <2>2, <2>3, <2>5
    DEF StartLookup, SearchTypeOK, SearchMessages, typing, publishing
  <2> QED BY <1>0, <1>2, <2>4, <2>5, <2>6 DEF typing
<1>3. CASE ProcessInitialReq(m.dst, m)
  <2>1. m.query \in SearchQuery /\ m.query.terms # << >>
    BY <1>0, <1>3 DEF ProcessInitialReq, ReceiveSearch, SearchMessage, SearchInv
  <2> QED BY <1>2, <1>3, <2>1 DEF ProcessInitialReq
<1>4. CASE ProcessNextReq(m.dst, m)
  <2> DEFINE q    == m.query
             docs == Narrowed(q.docs, stored[m.dst][Head(q.terms)])
             now  == [q EXCEPT !.docs = docs, !.terms = Tail(@)]
             r    == Answer(m.dst, now)
  <2>1. q \in SearchQuery /\ q.terms # << >> /\ q.terms \in Seq(Term)
    BY <1>0, <1>4 DEF ProcessNextReq, ReceiveSearch, SearchMessage, SearchInv, SearchQuery
  <2>2. Head(q.terms) \in Term /\ Tail(q.terms) \in Seq(Term)
    BY <2>1, HeadAndTail
  <2>3. docs \in SUBSET Doc
    BY <1>0, <2>1, <2>2 DEF SearchTypeOK, File, SearchQuery, Narrowed
  <2>4. now \in SearchQuery
    <3> HIDE DEF docs
    <3> QED BY <2>1, <2>2, <2>3 DEF SearchQuery
  <2>5. r \in SearchMessage /\ r.type = "SEARCH_RSP"
    <3>1. now.origin \in Node
      BY <2>4 DEF SearchQuery
    <3> HIDE DEF now
    <3> QED BY <1>0, <2>4, <3>1 DEF Answer, SearchMessage
  <2>6. CASE docs = {} \/ now.terms = << >>
    <3>1. /\ searchNetwork' = BagOps!BagAdd(BagOps!BagRemove(searchNetwork, m), r)
          /\ UNCHANGED <<typing, publishing, stored, searching>>
      BY <1>4, <2>6 DEF ProcessNextReq
    <3>2. SearchMessages' \subseteq SearchMessages \cup {r}
      <4>1. SearchMessages' = DOMAIN BagOps!BagRemove(searchNetwork, m) \cup {r}
        BY <3>1, BagAddDomain DEF SearchMessages
      <4> HIDE DEF r
      <4> QED BY <4>1, BagRemoveDomain DEF SearchMessages
    <3> HIDE DEF r
    <3> QED BY <1>0, <2>5, <3>1, <3>2
            DEF SearchTypeOK, SearchMessages, typing, publishing, searching
  <2>7. CASE ~ (docs = {} \/ now.terms = << >>)
    <3>1. StartLookup(m.dst, now) /\ Take(m) /\ UNCHANGED <<typing, publishing, stored>>
      BY <1>4, <2>7 DEF ProcessNextReq
    <3> HIDE DEF now
    <3> QED BY <1>2, <2>4, <2>7, <3>1
  <2> QED BY <2>6, <2>7
<1>5. CASE ProcessSearchRsp(m.dst, m) \/ SearchUnreachable(m)
  <2>1. UNCHANGED <<typing, publishing, stored, searching>> /\ Take(m)
    BY <1>5 DEF ProcessSearchRsp, SearchUnreachable
  <2> QED BY <1>0, <2>1, TakeRemoves
          DEF SearchTypeOK, SearchMessages, typing, publishing, searching
<1> QED BY <1>1, <1>3, <1>4, <1>5

LEMMA SearchInvNext == SearchInv /\ [SearchNext]_allVars => SearchInv'
<1> SUFFICES ASSUME SearchInv, [SearchNext]_allVars PROVE SearchInv'
  OBVIOUS
<1>1. CASE UNCHANGED searchVars
  BY <1>1, SearchInvKept
  DEF SearchInv, SearchTypeOK, searchVars, typing, publishing, searching, SearchMessages
<1>2. CASE \E n \in Node : ParsePublish(n) \/ FillInvertedLists(n) \/ ParseSearch(n)
  BY <1>2, UserTypesType, SearchInvKept
<1>3. CASE \E n \in Node : PublishLookup(n) \/ SearchLookup(n)
  BY <1>3, LookupStepType, SearchInvKept
<1>4. CASE \/ \E n \in Node : LeaveWithFiles(n)
           \/ \E m \in Messages : NotifyRehashes(m.dst, m) \/ ProcessTermRsp(m.dst, m)
  BY <1>4, CallbackType, SearchInvKept
<1>5. CASE \E m \in SearchMessages :
             \/ ProcessPublish(m.dst, m) \/ ProcessInitialReq(m.dst, m)
             \/ ProcessNextReq(m.dst, m) \/ ProcessSearchRsp(m.dst, m)
             \/ SearchUnreachable(m)
  BY <1>5, SearchThreadType, SearchInvKept
<1> QED BY <1>1, <1>2, <1>3, <1>4, <1>5
        DEF SearchNext, SearchStep, RingStep, ExitSearch, allVars

LEMMA SearchInvInit == Init /\ SearchInit => SearchInv
<1> SUFFICES ASSUME Init, SearchInit PROVE SearchInv
  OBVIOUS
<1>1. Messages = {} /\ SearchMessages = {}
  BY DEF Init, SearchInit, Messages, SearchMessages, EmptyBag, SetToBag
<1>2. RingOK
  BY TypeInit, PatientUsers DEF Init, RingOK, AddressInv, AddressNode
<1>3. SearchTypeOK
  BY <1>1, SearchInput
  DEF SearchInit, SearchTypeOK, SearchMessages, NoLists, File
<1>4. DOMAIN searchesLeft = Node
  BY SearchInput DEF SearchInit
<1> QED BY <1>1, <1>2, <1>3, <1>4 DEF SearchInv, SearchInit

(* Whatever users publish, search, join and leave, and whichever processes *)
(* end: the lists, the searches and the messages keep their types, and a   *)
(* search on its way always has a term left for the next node to look at   *)
(* (terms.front(), penn-search.cpp:424).                                   *)
THEOREM SearchTypeCorrect == SearchSpec => []SearchTypeOK
<1>1. Init /\ SearchInit => SearchInv
  BY SearchInvInit
<1>2. SearchInv /\ [SearchNext]_allVars => SearchInv'
  BY SearchInvNext
<1>3. SearchInv => SearchTypeOK
  BY DEF SearchInv
<1> QED BY <1>1, <1>2, <1>3, PTL DEF SearchSpec

-----------------------------------------------------------------------------
(* What the handlers of PennSearch send, note and list.                    *)

Sift(q, listed) ==
  [q EXCEPT !.docs = Narrowed(q.docs, listed), !.terms = Tail(@)]

ListedFor(m) == stored[m.dst][Head(m.query.terms)]

(* Lists change hands.                                                     *)
Moves ==
  \/ \E n \in Node : LeaveWithFiles(n)
  \/ \E m \in Messages : NotifyRehashes(m.dst, m) /\ AcceptsNotify(m.dst, m.src)

SentPublish(x) ==
  \/ \E n \in Node : LeaveWithFiles(n) /\ x.docs \subseteq stored[n][x.term]
  \/ \E m \in Messages :
       /\ NotifyRehashes(m.dst, m) /\ AcceptsNotify(m.dst, m.src)
       /\ x.dst = m.src /\ m.dst \in Node /\ x.docs \subseteq stored[m.dst][x.term]
  \/ \E m \in Messages :
       /\ m.type = "FIND_PRED_RSP" /\ m.query = "publish" /\ m.dst \in Node
       /\ m.target = TermHash[x.term] /\ m.successor = x.dst
       /\ x.docs = hashInvertedLists[m.dst][x.term]

SentInitial(x) ==
  /\ \E n \in Node : UserReady(n) /\ \E s \in searchesLeft[n] : x.dst = s.via
  /\ x.query.docs = {} /\ x.query.asked = ToSet(x.query.terms)
  /\ x.query.known = Known(x.query.asked)

SentNext(x) ==
  \E m \in Messages, t \in Term :
    /\ m.type = "FIND_PRED_RSP" /\ m.query = "search" /\ m.dst \in Node
    /\ m.target = TermHash[t]
    /\ x.query = queryMap[m.dst][t] /\ queryMap[m.dst][t] # None
    /\ x.dst = IF m.successor = Nil THEN m.dst ELSE m.successor

SentAnswer(x) ==
  \E m \in SearchMessages :
    /\ m.type = "SEARCH_REQ" /\ ~ m.initialReq /\ m.dst \in Node
    /\ x.query = Sift(m.query, ListedFor(m))
    /\ x.query.docs = {} \/ x.query.terms = << >>

Sent(x) ==
  /\ x.type = "PUBLISH" => SentPublish(x)
  /\ x.type = "SEARCH_REQ" => IF x.initialReq THEN SentInitial(x) ELSE SentNext(x)
  /\ x.type = "SEARCH_RSP" => SentAnswer(x)

(* n remembers the search q under its next term t.                         *)
Noted(n, t, q) ==
  /\ t = Head(q.terms)
  /\ \E m \in SearchMessages :
       /\ m.type = "SEARCH_REQ" /\ m.dst = n
       /\ IF m.initialReq THEN q = m.query
          ELSE /\ q = Sift(m.query, ListedFor(m))
               /\ q.docs # {} /\ q.terms # << >>

Lists(n, t) ==
  /\ \A d \in stored'[n][t] :
       \/ d \in stored[n][t]
       \/ \E m \in SearchMessages :
            m.type = "PUBLISH" /\ m.dst = n /\ m.term = t /\ d \in m.docs
  /\ Moves \/ stored[n][t] \subseteq stored'[n][t]

IndexStep ==
  /\ \A x \in SearchMessages' \ SearchMessages : Sent(x)
  /\ \A n \in Node, t \in Term :
       /\ queryMap'[n][t] = queryMap[n][t] \/ Noted(n, t, queryMap'[n][t])
       /\ Lists(n, t)

LEMMA QuietIndexStep ==
  ASSUME UNCHANGED <<stored, queryMap>>,
         \A x \in SearchMessages' \ SearchMessages : Sent(x)
  PROVE  IndexStep
BY DEF IndexStep, Lists

LEMMA UserIndexStep ==
  ASSUME SearchInv, NEW n \in Node,
         \/ ParsePublish(n) \/ FillInvertedLists(n) \/ ParseSearch(n)
         \/ PublishLookup(n) \/ SearchLookup(n)
  PROVE  IndexStep
<1>1. CASE ParseSearch(n)
  <2>1. PICK s \in searchesLeft[n] :
          Ship([type |-> "SEARCH_REQ", src |-> n, dst |-> s.via,
                initialReq |-> TRUE,
                query |-> [docs |-> {}, terms |-> s.terms, origin |-> n,
                           asked |-> ToSet(s.terms),
                           known |-> Known(ToSet(s.terms))]])
    BY <1>1 DEF ParseSearch
  <2>2. PICK q : q = [docs |-> {}, terms |-> s.terms, origin |-> n,
                      asked |-> ToSet(s.terms), known |-> Known(ToSet(s.terms))]
    OBVIOUS
  <2>3. PICK m : m = [type |-> "SEARCH_REQ", src |-> n, dst |-> s.via,
                      initialReq |-> TRUE, query |-> q]
    OBVIOUS
  <2>4. SearchMessages' = SearchMessages \cup {m}
    BY <2>1, <2>2, <2>3, ShipAdds
  <2>5. Sent(m)
    BY <1>1, <2>2, <2>3 DEF Sent, SentInitial, ParseSearch, UserTypes
  <2> QED BY <1>1, <2>4, <2>5, QuietIndexStep DEF ParseSearch, searching
<1>2. CASE \/ ParsePublish(n) \/ FillInvertedLists(n)
           \/ PublishLookup(n) \/ SearchLookup(n)
  BY <1>2, QuietIndexStep
  DEF ParsePublish, FillInvertedLists, PublishLookup, SearchLookup, searching,
      SearchMessages
<1> QED BY <1>1, <1>2

LEMMA MovesIndexStep ==
  ASSUME SearchInv,
         \/ \E n \in Node : LeaveWithFiles(n)
         \/ \E m \in Messages : NotifyRehashes(m.dst, m)
  PROVE  IndexStep
<1>0. TypeOK /\ SearchTypeOK
  BY DEF SearchInv, RingOK, AddressInv
<1>1. ASSUME NEW n \in Node, LeaveWithFiles(n) PROVE IndexStep
  <2> DEFINE M == {Publish(n, Heir(n), t, stored[n][t]) :
                     t \in {u \in Term : stored[n][u] # {}}}
  <2>1. Moves
    BY <1>1 DEF Moves
  <2>2. \A x \in M : Sent(x)
    BY <1>1 DEF Publish, Sent, SentPublish
  <2>3. SearchMessages' = SearchMessages \cup M
    BY <1>1, ShipAllAdds DEF LeaveWithFiles, TransferFiles
  <2>4. /\ stored' = [stored EXCEPT ![n] = NoLists]
        /\ queryMap' = queryMap
    BY <1>1 DEF LeaveWithFiles, TransferFiles, searching
  <2>5. \A k \in Node, t \in Term : stored'[k][t] \subseteq stored[k][t]
    BY <1>0, <2>4 DEF SearchTypeOK, NoLists
  <2> HIDE DEF M
  <2> QED BY <2>1, <2>2, <2>3, <2>4, <2>5 DEF IndexStep, Lists
<1>2. ASSUME NEW m \in Messages, NotifyRehashes(m.dst, m), ~ AcceptsNotify(m.dst, m.src)
      PROVE  IndexStep
  BY <1>2, QuietIndexStep DEF NotifyRehashes, searchVars, searching, SearchMessages
<1>3. ASSUME NEW m \in Messages, NotifyRehashes(m.dst, m), AcceptsNotify(m.dst, m.src)
      PROVE  IndexStep
  <2> DEFINE n == m.dst
             p == m.src
             keeps(t) == KeepsKey(Hash[p], Hash[n], TermHash[t])
             M == UNION {{Publish(n, p, t, {d}) : d \in stored[n][t]} :
                           t \in {u \in Term : ~ keeps(u)}}
  <2>0. n \in Node
    BY <1>0 DEF TypeOK, Messages, Message
  <2>1. Moves /\ HandleRehashKeys(n, p)
    BY <1>3 DEF Moves, NotifyRehashes
  <2>2. ASSUME NEW x \in M PROVE Sent(x)
    <3>1. PICK t \in Term : x \in {Publish(n, p, t, {d}) : d \in stored[n][t]}
      OBVIOUS
    <3>2. PICK d \in stored[n][t] : x = Publish(n, p, t, {d})
      BY <3>1
    <3>3. /\ x.type = "PUBLISH" /\ x.dst = m.src
          /\ x.docs \subseteq stored[m.dst][x.term]
      BY <3>2 DEF Publish
    <3> HIDE DEF M
    <3> QED BY <1>3, <2>0, <3>3 DEF Sent, SentPublish
  <2>3. SearchMessages' = SearchMessages \cup M
    BY <2>1, ShipAllAdds DEF HandleRehashKeys
  <2>4. queryMap' = queryMap
    BY <2>1 DEF HandleRehashKeys, searching
  <2>5. \A k \in Node, t \in Term : stored'[k][t] \subseteq stored[k][t]
    BY <1>0, <2>0, <2>1 DEF HandleRehashKeys, SearchTypeOK, File
  <2> HIDE DEF M
  <2> QED BY <2>1, <2>2, <2>3, <2>4, <2>5 DEF IndexStep, Lists
<1> QED BY <1>1, <1>2, <1>3

LEMMA TermRspIndexStep ==
  ASSUME SearchInv, NEW m \in Messages, ProcessTermRsp(m.dst, m)
  PROVE  IndexStep
<1> DEFINE n == m.dst
           t == TermOf(m.target)
<1>1. m.dst \in Node /\ m.type = "FIND_PRED_RSP"
  BY DEF SearchInv, RingOK, AddressInv, TypeOK, Messages, Message, ProcessTermRsp, Receive
<1>2. t \in Term /\ m.target = TermHash[t]
  <2>1. m.query \in Query
    BY DEF ProcessTermRsp, HandleSearch, HandlePublish, Query
  <2> QED BY <1>1, <2>1, TermOfIs DEF SearchInv, IsLookup
<1>3. UNCHANGED <<stored, queryMap>>
  BY DEF ProcessTermRsp, searching
<1>4. CASE searchNetwork' = searchNetwork
  BY <1>3, <1>4, QuietIndexStep DEF SearchMessages
<1>5. CASE HandleSearch(n, m) /\ searchNetwork' # searchNetwork
  <2>1. PICK r : r = [type |-> "SEARCH_REQ", src |-> n, query |-> queryMap[n][t],
                      dst |-> IF m.successor = Nil THEN n ELSE m.successor,
                      initialReq |-> FALSE]
    OBVIOUS
  <2>2. /\ queryMap[n][t] # None /\ m.query = "search"
        /\ SearchMessages' = SearchMessages \cup {r}
    BY <1>5, <2>1, ShipAdds DEF HandleSearch
  <2>3. Sent(r)
    <3>1. /\ r.type = "SEARCH_REQ" /\ r.initialReq = FALSE /\ r.query = queryMap[n][t]
          /\ r.dst = IF m.successor = Nil THEN n ELSE m.successor
      BY <2>1
    <3>2. SentNext(r)
      <4> HIDE DEF t
      <4> QED BY <1>1, <1>2, <2>2, <3>1 DEF SentNext
    <3> QED BY <3>1, <3>2 DEF Sent
  <2> QED BY <1>3, <2>2, <2>3, QuietIndexStep
<1>6. CASE HandlePublish(n, m) /\ searchNetwork' # searchNetwork
  <2>1. PICK r : r = Publish(n, Target(m), t, hashInvertedLists[n][t])
    OBVIOUS
  <2>2. m.query = "publish" /\ SearchMessages' = SearchMessages \cup {r}
    BY <1>6, <2>1, ShipAdds DEF HandlePublish
  <2>3. Sent(r)
    <3>1. /\ r.type = "PUBLISH" /\ r.term = t /\ r.dst = m.successor
          /\ r.docs = hashInvertedLists[n][t]
      BY <2>1 DEF Publish, Target
    <3>2. SentPublish(r)
      <4> HIDE DEF t
      <4> QED BY <1>1, <1>2, <2>2, <3>1 DEF SentPublish
    <3> QED BY <3>1, <3>2 DEF Sent
  <2> QED BY <1>3, <2>2, <2>3, QuietIndexStep
<1> QED BY <1>4, <1>5, <1>6 DEF ProcessTermRsp

LEMMA ThreadIndexStep ==
  ASSUME SearchInv, NEW m \in SearchMessages,
         \/ ProcessPublish(m.dst, m) \/ ProcessInitialReq(m.dst, m)
         \/ ProcessNextReq(m.dst, m) \/ ProcessSearchRsp(m.dst, m)
         \/ SearchUnreachable(m)
  PROVE  IndexStep
<1>0. SearchTypeOK /\ m \in SearchMessage /\ m.dst \in Node
  BY DEF SearchInv, SearchTypeOK, SearchMessages, SearchMessage
<1>1. CASE ProcessPublish(m.dst, m)
  <2>1. m.term \in Term /\ m.type = "PUBLISH"
    BY <1>0, <1>1 DEF ProcessPublish, ReceiveSearch, SearchMessage
  <2>2. /\ stored' = [stored EXCEPT ![m.dst][m.term] = stored[m.dst][m.term] \cup m.docs]
        /\ queryMap' = queryMap
    BY <1>1 DEF ProcessPublish, Merged, searching
  <2>3. \A n \in Node, t \in Term :
          stored'[n][t] = IF n = m.dst /\ t = m.term THEN stored[n][t] \cup m.docs
                                                     ELSE stored[n][t]
    BY <1>0, <2>1, <2>2 DEF SearchTypeOK, File
  <2>4. SearchMessages' \subseteq SearchMessages
    BY <1>1, TakeRemoves DEF ProcessPublish
  <2>5. \A n \in Node, t \in Term : Lists(n, t)
    BY <2>1, <2>3 DEF Lists
  <2> QED BY <2>2, <2>4, <2>5 DEF IndexStep
<1>2. ASSUME NEW q, q \in SearchQuery, q.terms # << >>, StartLookup(m.dst, q), Take(m),
             UNCHANGED stored, Noted(m.dst, Head(q.terms), q)
      PROVE  IndexStep
  <2>1. Head(q.terms) \in Term
    BY <1>2, HeadAndTail DEF SearchQuery
  <2>2. \A n \in Node, t \in Term :
          queryMap'[n][t] = IF n = m.dst /\ t = Head(q.terms) THEN q ELSE queryMap[n][t]
    BY <1>0, <1>2, <2>1 DEF StartLookup, SearchTypeOK
  <2>3. SearchMessages' \subseteq SearchMessages
    BY <1>2, TakeRemoves
  <2>4. \A n \in Node, t \in Term : Lists(n, t)
    BY <1>2 DEF Lists
  <2> QED BY <1>2, <2>2, <2>3, <2>4 DEF IndexStep
<1>3. CASE ProcessInitialReq(m.dst, m)
  <2>1. /\ m.query \in SearchQuery /\ m.query.terms # << >>
        /\ m.type = "SEARCH_REQ" /\ m.initialReq
    BY <1>0, <1>3 DEF ProcessInitialReq, ReceiveSearch, SearchMessage, SearchInv
  <2>2. Noted(m.dst, Head(m.query.terms), m.query)
    BY <2>1 DEF Noted
  <2> QED BY <1>2, <1>3, <2>1, <2>2 DEF ProcessInitialReq
<1>4. CASE ProcessNextReq(m.dst, m)
  <2> DEFINE now == Sift(m.query, ListedFor(m))
             r   == Answer(m.dst, now)
  <2>1. /\ m.type = "SEARCH_REQ" /\ ~ m.initialReq
        /\ m.query \in SearchQuery /\ m.query.terms # << >>
    BY <1>0, <1>4 DEF ProcessNextReq, ReceiveSearch, SearchMessage, SearchInv
  <2>2. /\ Head(m.query.terms) \in Term /\ Tail(m.query.terms) \in Seq(Term)
        /\ m.query.terms \in Seq(Term)
    BY <2>1, HeadAndTail DEF SearchQuery
  <2>3. now \in SearchQuery
    <3>1. Narrowed(m.query.docs, ListedFor(m)) \in SUBSET Doc
      BY <1>0, <2>1, <2>2 DEF SearchTypeOK, File, SearchQuery, Narrowed, ListedFor
    <3> QED BY <2>1, <2>2, <3>1 DEF SearchQuery, Sift
  <2>4. now.docs = Narrowed(m.query.docs, ListedFor(m))
    BY <2>1 DEF Sift, SearchQuery
  <2>5. CASE now.docs = {} \/ now.terms = << >>
    <3>1. /\ searchNetwork' = BagOps!BagAdd(BagOps!BagRemove(searchNetwork, m), r)
          /\ UNCHANGED <<stored, queryMap>>
      BY <1>4, <2>4, <2>5 DEF ProcessNextReq, Sift, ListedFor, searching
    <3>2. SearchMessages' = DOMAIN BagOps!BagRemove(searchNetwork, m) \cup {r}
      BY <3>1, BagAddDomain DEF SearchMessages
    <3>3. r.type = "SEARCH_RSP" /\ r.query = now
      BY DEF Answer
    <3> HIDE DEF r, now
    <3>4. SearchMessages' \subseteq SearchMessages \cup {r}
      BY <3>2, BagRemoveDomain DEF SearchMessages
    <3>5. Sent(r)
      BY <1>0, <2>1, <2>5, <3>3 DEF Sent, SentAnswer, now
    <3> QED BY <3>1, <3>4, <3>5, QuietIndexStep
  <2>6. CASE ~ (now.docs = {} \/ now.terms = << >>)
    <3>1. StartLookup(m.dst, now) /\ Take(m) /\ UNCHANGED stored
      BY <1>4, <2>4, <2>6 DEF ProcessNextReq, Sift, ListedFor
    <3>2. Noted(m.dst, Head(now.terms), now)
      BY <2>1, <2>6 DEF Noted
    <3> HIDE DEF now
    <3> QED BY <1>2, <2>3, <2>6, <3>1, <3>2
  <2> QED BY <2>5, <2>6
<1>5. CASE ProcessSearchRsp(m.dst, m) \/ SearchUnreachable(m)
  <2>1. UNCHANGED <<stored, queryMap>> /\ SearchMessages' \subseteq SearchMessages
    BY <1>5, TakeRemoves DEF ProcessSearchRsp, SearchUnreachable, searching
  <2> QED BY <2>1, QuietIndexStep
<1> QED BY <1>1, <1>3, <1>4, <1>5

LEMMA IndexSteps ==
  ASSUME SearchInv, [SearchNext]_allVars
  PROVE  IndexStep
<1>1. CASE UNCHANGED searchVars
  BY <1>1, QuietIndexStep DEF searchVars, searching, SearchMessages
<1> QED BY <1>1, UserIndexStep, MovesIndexStep, TermRspIndexStep, ThreadIndexStep
        DEF SearchNext, SearchStep, RingStep, ExitSearch, allVars

(* What becomes of the files of the user of n.                             *)
FilesStep(n) ==
  /\ filesLeft'[n] \subseteq filesLeft[n]
  /\ \/ /\ filesLeft'[n] = filesLeft[n] /\ reading'[n] = reading[n]
        /\ hashInvertedLists'[n] = hashInvertedLists[n]
        /\ toLookUp'[n] \subseteq toLookUp[n]
     \/ /\ UserReady(n)
        /\ reading[n] = None /\ toLookUp'[n] = {} /\ hashInvertedLists'[n] = NoLists
        /\ reading'[n] \in filesLeft[n] \ filesLeft'[n]
     \/ /\ filesLeft'[n] = filesLeft[n]
        /\ reading[n] # None /\ reading'[n] = None
        /\ hashInvertedLists'[n] = reading[n]
        /\ toLookUp'[n] = {t \in Term : reading[n][t] # {}}

LEMMA FilesStepOf ==
  ASSUME SearchTypeOK, [SearchNext]_allVars, NEW n \in Node
  PROVE  FilesStep(n)
<1>1. CASE UNCHANGED <<filesLeft, publishing>>
  BY <1>1 DEF FilesStep, publishing
<1>2. ASSUME NEW p \in Node, ParsePublish(p) PROVE FilesStep(n)
  <2>1. PICK f \in filesLeft[p] :
          /\ filesLeft' = [filesLeft EXCEPT ![p] = @ \ {f}]
          /\ reading' = [reading EXCEPT ![p] = f]
    BY <1>2 DEF ParsePublish
  <2>2. /\ UserReady(p)
        /\ reading[p] = None /\ toLookUp[p] = {} /\ toLookUp' = toLookUp
        /\ hashInvertedLists' = [hashInvertedLists EXCEPT ![p] = NoLists]
    BY <1>2 DEF ParsePublish, UserTypes, AtPrompt
  <2>3. CASE n = p
    BY <2>1, <2>2, <2>3 DEF FilesStep, SearchTypeOK
  <2>4. CASE n # p
    BY <2>1, <2>2, <2>4 DEF FilesStep, SearchTypeOK
  <2> QED BY <2>3, <2>4
<1>3. ASSUME NEW p \in Node, FillInvertedLists(p) PROVE FilesStep(n)
  BY <1>3 DEF FillInvertedLists, FilesStep, SearchTypeOK, typing
<1>4. ASSUME NEW p \in Node, PublishLookup(p) PROVE FilesStep(n)
  BY <1>4 DEF PublishLookup, FilesStep, SearchTypeOK, typing
<1> QED BY <1>1, <1>2, <1>3, <1>4
        DEF SearchNext, SearchStep, RingStep, ParseSearch, SearchLookup, LeaveWithFiles,
            TransferFiles, ExitSearch, NotifyRehashes, HandleRehashKeys, ProcessTermRsp,
            ProcessPublish, ProcessInitialReq, ProcessNextReq, ProcessSearchRsp,
            SearchUnreachable, allVars, searchVars, typing

-----------------------------------------------------------------------------
(* What a search has found is listed for every term it has passed.         *)

SiftedBy(q, L) ==
  /\ q.docs = {} => q.asked \subseteq ToSet(q.terms)
  /\ \A t \in q.asked : t \in ToSet(q.terms) \/ q.docs \subseteq L[t]

LEMMA SiftStep ==
  ASSUME NEW q \in SearchQuery, q.terms # << >>, NEW L, SiftedBy(q, L),
         NEW listed, listed \subseteq L[Head(q.terms)]
  PROVE  LET s == Sift(q, listed) IN
         /\ s.asked = q.asked /\ s.known = q.known /\ s.terms = Tail(q.terms)
         /\ s.docs # {} => SiftedBy(s, L)
         /\ s.docs = {} \/ s.terms = << >> => \A t \in q.asked : s.docs \subseteq L[t]
<1>1. PICK s : s = Sift(q, listed)
  OBVIOUS
<1>2. /\ s.asked = q.asked /\ s.known = q.known /\ s.terms = Tail(q.terms)
      /\ s.docs = Narrowed(q.docs, listed)
  BY <1>1 DEF Sift, SearchQuery
<1>3. ToSet(q.terms) = {Head(q.terms)} \cup ToSet(Tail(q.terms))
  BY HeadAndTail DEF SearchQuery
<1>4. \A t \in q.asked : t \in ToSet(s.terms) \/ s.docs \subseteq L[t]
  BY <1>2, <1>3 DEF SiftedBy, Narrowed
<1>5. s.terms = << >> => ToSet(s.terms) = {}
  BY DEF ToSet
<1> QED BY <1>1, <1>2, <1>4, <1>5 DEF SiftedBy

LEMMA SiftGrows ==
  ASSUME NEW q \in SearchQuery, NEW L, NEW M, SiftedBy(q, L),
         \A t \in Term : L[t] \subseteq M[t]
  PROVE  SiftedBy(q, M)
BY DEF SiftedBy, SearchQuery

PublishedLists == [t \in Term |-> Published(t)]

PublishedInv ==
  /\ SearchInv
  /\ \A n \in Node :
       /\ filesLeft[n] \subseteq Files[n]
       /\ reading[n] # None => reading[n] \in Files[n] \ filesLeft[n]
       /\ \A t \in Term :
            /\ hashInvertedLists[n][t] \subseteq Published(t)
            /\ stored[n][t] \subseteq Published(t)
            /\ queryMap[n][t] # None => SiftedBy(queryMap[n][t], PublishedLists)
  /\ \A m \in SearchMessages :
       /\ m.type = "PUBLISH" => m.docs \subseteq Published(m.term)
       /\ m.type = "SEARCH_REQ" => SiftedBy(m.query, PublishedLists)
  /\ AnswersWerePublished

LEMMA PublishedInit == Init /\ SearchInit => PublishedInv
<1> SUFFICES ASSUME Init, SearchInit PROVE PublishedInv
  OBVIOUS
<1>1. SearchMessages = {}
  BY DEF SearchInit, SearchMessages, EmptyBag, SetToBag
<1> QED BY <1>1, SearchInvInit
        DEF PublishedInv, SearchInit, NoLists, AnswersWerePublished

LEMMA PublishedGrows ==
  ASSUME PublishedInv, [SearchNext]_allVars, NEW t \in Term
  PROVE  Published(t) \subseteq Published(t)'
<1>1. \A n \in Node : filesLeft'[n] \subseteq filesLeft[n]
  BY FilesStepOf DEF PublishedInv, SearchInv, FilesStep
<1> QED BY <1>1 DEF Published

LEMMA PublishedFiles ==
  ASSUME PublishedInv, [SearchNext]_allVars, NEW n \in Node
  PROVE  /\ filesLeft'[n] \subseteq Files[n]
         /\ reading'[n] # None => reading'[n] \in Files[n] \ filesLeft'[n]
         /\ \A t \in Term : hashInvertedLists'[n][t] \subseteq Published(t)'
<1>1. FilesStep(n)
  BY FilesStepOf DEF PublishedInv, SearchInv
<1>2. /\ filesLeft'[n] \subseteq Files[n]
      /\ reading'[n] # None => reading'[n] \in Files[n] \ filesLeft'[n]
  BY <1>1 DEF FilesStep, PublishedInv
<1>3. ASSUME NEW t \in Term PROVE hashInvertedLists'[n][t] \subseteq Published(t)'
  <2>1. CASE hashInvertedLists'[n] = hashInvertedLists[n]
    BY <2>1, PublishedGrows DEF PublishedInv
  <2>2. CASE hashInvertedLists'[n] = NoLists
    BY <2>2 DEF NoLists
  <2>3. CASE reading[n] # None /\ hashInvertedLists'[n] = reading[n]
    <3>1. reading[n][t] \subseteq Published(t)
      BY <2>3 DEF PublishedInv, Published
    <3> QED BY <2>3, <3>1, PublishedGrows
  <2> QED BY <1>1, <2>1, <2>2, <2>3 DEF FilesStep
<1> QED BY <1>2, <1>3

LEMMA PublishedLaw ==
  ASSUME PublishedInv, NEW m \in SearchMessages, m.type = "SEARCH_REQ"
  PROVE  /\ m.query \in SearchQuery /\ m.query.terms # << >> /\ m.dst \in Node
         /\ SiftedBy(m.query, PublishedLists)
         /\ ListedFor(m) \subseteq PublishedLists[Head(m.query.terms)]
<1>1. /\ m.query \in SearchQuery /\ m.query.terms # << >> /\ m.dst \in Node
      /\ SiftedBy(m.query, PublishedLists)
  BY DEF PublishedInv, SearchInv, SearchTypeOK, SearchMessages, SearchMessage
<1>2. Head(m.query.terms) \in Term
  BY <1>1, HeadAndTail DEF SearchQuery
<1> QED BY <1>1, <1>2 DEF PublishedInv, ListedFor, PublishedLists

LEMMA PublishedNext == PublishedInv /\ [SearchNext]_allVars => PublishedInv'
<1> SUFFICES ASSUME PublishedInv, [SearchNext]_allVars PROVE PublishedInv'
  OBVIOUS
<1>0. SearchInv /\ SearchInv' /\ IndexStep
  BY SearchInvNext, IndexSteps DEF PublishedInv
<1>1. \A t \in Term : Published(t) \subseteq Published(t)'
  BY PublishedGrows
<1>2. \A q \in SearchQuery : SiftedBy(q, PublishedLists) => SiftedBy(q, PublishedLists')
  BY <1>1, SiftGrows DEF PublishedLists
<1>3. ASSUME NEW n \in Node, NEW t \in Term PROVE stored'[n][t] \subseteq Published(t)'
  BY <1>0, <1>1 DEF IndexStep, Lists, PublishedInv
<1>4. ASSUME NEW n \in Node, NEW t \in Term, queryMap'[n][t] # None
      PROVE  SiftedBy(queryMap'[n][t], PublishedLists)
  <2>1. CASE queryMap'[n][t] = queryMap[n][t]
    BY <1>4, <2>1 DEF PublishedInv
  <2>2. CASE Noted(n, t, queryMap'[n][t])
    <3>1. PICK m \in SearchMessages :
            /\ m.type = "SEARCH_REQ"
            /\ \/ queryMap'[n][t] = m.query
               \/ /\ queryMap'[n][t] = Sift(m.query, ListedFor(m))
                  /\ queryMap'[n][t].docs # {}
      BY <2>2 DEF Noted
    <3> QED BY <3>1, PublishedLaw, SiftStep
  <2> QED BY <1>0, <2>1, <2>2 DEF IndexStep
<1>5. ASSUME NEW n \in Node, NEW t \in Term, queryMap'[n][t] # None
      PROVE  SiftedBy(queryMap'[n][t], PublishedLists')
  BY <1>0, <1>2, <1>4, <1>5 DEF SearchInv, SearchTypeOK
<1>6. ASSUME NEW x \in SearchMessages', x.type = "PUBLISH"
      PROVE  x.docs \subseteq Published(x.term)'
  <2>1. x.term \in Term
    BY <1>0, <1>6 DEF SearchInv, SearchTypeOK, SearchMessages, SearchMessage
  <2>2. CASE x \in SearchMessages
    BY <1>1, <1>6, <2>1, <2>2 DEF PublishedInv
  <2>3. CASE x \notin SearchMessages
    <3>1. SentPublish(x)
      BY <1>0, <1>6, <2>3 DEF IndexStep, Sent
    <3>2. x.docs \subseteq Published(x.term)
      BY <2>1, <3>1 DEF SentPublish, PublishedInv
    <3> QED BY <1>1, <2>1, <3>2
  <2> QED BY <2>2, <2>3
<1>7. ASSUME NEW x \in SearchMessages', x.type = "SEARCH_REQ"
      PROVE  SiftedBy(x.query, PublishedLists')
  <2>1. x.query \in SearchQuery
    BY <1>0, <1>7 DEF SearchInv, SearchTypeOK, SearchMessages, SearchMessage
  <2>2. SiftedBy(x.query, PublishedLists)
    <3>1. CASE x \in SearchMessages
      BY <1>7, <3>1 DEF PublishedInv
    <3>2. CASE x \notin SearchMessages /\ SentInitial(x)
      BY <3>2 DEF SentInitial, SiftedBy
    <3>3. CASE x \notin SearchMessages /\ SentNext(x)
      BY <3>3 DEF SentNext, PublishedInv
    <3> QED BY <1>0, <1>7, <3>1, <3>2, <3>3 DEF IndexStep, Sent
  <2> QED BY <1>2, <2>1, <2>2
<1>8. ASSUME NEW x \in SearchMessages', x.type = "SEARCH_RSP", NEW t \in x.query.asked
      PROVE  x.query.docs \subseteq Published(t)'
  <2>1. x.query \in SearchQuery
    BY <1>0, <1>8 DEF SearchInv, SearchTypeOK, SearchMessages, SearchMessage
  <2>2. t \in Term
    BY <1>8, <2>1 DEF SearchQuery
  <2>3. CASE x \in SearchMessages
    BY <1>1, <1>8, <2>2, <2>3 DEF PublishedInv, AnswersWerePublished
  <2>4. CASE x \notin SearchMessages
    <3>1. PICK m \in SearchMessages :
            /\ m.type = "SEARCH_REQ" /\ x.query = Sift(m.query, ListedFor(m))
            /\ x.query.docs = {} \/ x.query.terms = << >>
      BY <1>0, <1>8, <2>4 DEF IndexStep, Sent, SentAnswer
    <3>2. /\ x.query.asked = m.query.asked
          /\ \A u \in m.query.asked : x.query.docs \subseteq PublishedLists[u]
      BY <3>1, PublishedLaw, SiftStep
    <3>3. x.query.docs \subseteq Published(t)
      BY <1>8, <2>2, <3>2 DEF PublishedLists
    <3> QED BY <1>1, <2>2, <3>3
  <2> QED BY <2>3, <2>4
<1>9. \A n \in Node :
        /\ filesLeft'[n] \subseteq Files[n]
        /\ reading'[n] # None => reading'[n] \in Files[n] \ filesLeft'[n]
        /\ \A t \in Term : hashInvertedLists'[n][t] \subseteq Published(t)'
  BY PublishedFiles
<1>10. AnswersWerePublished'
  BY <1>8 DEF AnswersWerePublished
<1> QED BY <1>0, <1>3, <1>5, <1>6, <1>7, <1>9, <1>10 DEF PublishedInv

(* No search reports a document that nobody has published under each of    *)
(* the terms it asked for, however the lists moved on LEAVE, NOTIFY and    *)
(* PUBLISH meanwhile, and whoever answered.                                *)
THEOREM AnswersArePublished == SearchSpec => []AnswersWerePublished
<1>1. Init /\ SearchInit => PublishedInv
  BY PublishedInit
<1>2. PublishedInv /\ [SearchNext]_allVars => PublishedInv'
  BY PublishedNext
<1>3. PublishedInv => AnswersWerePublished
  BY DEF PublishedInv
<1> QED BY <1>1, <1>2, <1>3, PTL DEF SearchSpec

-----------------------------------------------------------------------------
(* A ring at rest.                                                         *)

(* Nobody joins or leaves any more.                                        *)
OnlyWalks == \A n \in Node : Commands[n] \subseteq {"RINGSTATE"}

QuietMessage(m) ==
  /\ m.type \notin {"LEAVE_P", "LEAVE_S"}
  /\ m.type = "NOTIFY" => m.src \in Members
  /\ m.type = "STABILIZE_RSP" => m.predecessor \in Members
  /\ m.type = "FIND_PRED_RSP" => m.successor = Owner(m.target)

(* The pointers of the members are right, though some of their processes   *)
(* may have ended, and no message is about to change them.                 *)
QuietRing ==
  /\ SearchInv /\ Members # {}
  /\ \A n \in Node :
       /\ todo[n] \subseteq {"RINGSTATE"}
       /\ process[n] \in {"fresh", "up", "crashed"} /\ (Running(n) => inRing[n])
       /\ ~ isSingleton[n] /\ ~ tryingToJoin[n]
  /\ \A n \in Members :
       successor[n] = FirstAfter(Hash[n]) /\ predecessor[n] = LastBefore(Hash[n])
  /\ \A m \in Messages : QuietMessage(m)

LEMMA LastBeforeType ==
  ASSUME NEW x \in Id, Members # {}
  PROVE  /\ LastBefore(x) \in Members
         /\ \A q \in Members : Distance(Hash[LastBefore(x)], x) <= Distance(Hash[q], x)
<1> DEFINE T == {Distance(Hash[p], x) : p \in Members}
<1>1. \A p \in Members : Distance(Hash[p], x) \in Nat
  BY HashType, DistanceType, RingSizeType DEF Members
<1>2. PICK t \in T : \A u \in T : ~ (u < t)
  <2>1. T \subseteq Nat /\ T # {}
    BY <1>1
  <2> QED BY <2>1, LeastNatural
<1>3. PICK s \in Members : t = Distance(Hash[s], x)
  BY <1>2
<1>4. \A q \in Members : Distance(Hash[s], x) <= Distance(Hash[q], x)
  BY <1>1, <1>2, <1>3
<1> QED BY <1>4 DEF LastBefore

LEMMA OwnerType ==
  ASSUME NEW id \in Id, Members # {}
  PROVE  Owner(id) \in Members /\ Owner(id) \in Node
BY FirstAfterType DEF Owner, Members

(* Nobody is between two neighbours, so nothing is adopted or accepted.    *)
LEMMA NothingBetween ==
  ASSUME QuietRing, NEW n \in Members, NEW p \in Members
  PROVE  /\ successor[n] \in Members /\ predecessor[n] \in Members
         /\ ~ Adopts(n, p) /\ ~ AcceptsNotify(n, p)
<1>1. /\ \A q \in Members : q \in Node /\ Hash[q] \in Id /\ q # Nil /\ HashOf(q) = Hash[q]
  BY HashType, NilIsNoNode DEF Members, HashOf
<1>2. /\ successor[n] \in Members
      /\ Distance(Hash[n], Hash[successor[n]]) <= Distance(Hash[n], Hash[p])
  BY <1>1, FirstAfterType DEF QuietRing
<1>3. /\ predecessor[n] \in Members
      /\ Distance(Hash[predecessor[n]], Hash[n]) <= Distance(Hash[p], Hash[n])
  BY <1>1, LastBeforeType DEF QuietRing
<1>4. ~ Adopts(n, p)
  <2>1. ~ InOpenArc(Hash[n], Hash[p], Hash[successor[n]])
    BY <1>1, <1>2, DistanceType DEF InOpenArc
  <2> QED BY <1>1, <1>2, <2>1, BetterSuccessorArc DEF Adopts
<1>5. ~ AcceptsNotify(n, p)
  <2>1. ~ InOpenArc(Hash[predecessor[n]], Hash[p], Hash[n])
    BY <1>1, <1>3, DistanceType, ArcShortens
  <2> QED BY <1>1, <1>3, <2>1, NotifierInRangeArc DEF AcceptsNotify
<1> QED BY <1>2, <1>3, <1>4, <1>5

(* What a step leaves alone in such a ring.                                *)
QuietStep ==
  /\ UNCHANGED <<ring, isSingleton, inRing, tryingToJoin>>
  /\ \A n \in Node :
       /\ todo'[n] \subseteq todo[n]
       /\ process'[n] = process[n] \/ (Running(n) /\ process'[n] = "crashed")

LEMMA QuietUser ==
  ASSUME QuietRing, NEW n \in Node, UserStep(n)
  PROVE  QuietStep
<1>0. TypeOK /\ todo[n] \subseteq {"RINGSTATE"}
  BY DEF QuietRing, SearchInv, RingOK, AddressInv
<1>1. RingState(n) \/ LookupAnything(n)
  BY <1>0 DEF UserStep, CreateRing, Leave, Join, Typed
<1>2. CASE RingState(n)
  BY <1>0, <1>2 DEF RingState, Typed, QuietStep, flags, TypeOK
<1>3. CASE LookupAnything(n)
  BY <1>0, <1>3 DEF LookupAnything, Lookup, Crash, QuietStep, flags, TypeOK, Running
<1> QED BY <1>1, <1>2, <1>3

LEMMA QuietThreads ==
  ASSUME QuietRing, NEW n \in Node,
         \/ TimerStep(n) \/ LeaveSuccessor(n) \/ Exit(n)
         \/ ReadFinger(n) \/ FindSuccessor(n) \/ Notify(n)
  PROVE  QuietStep
<1>0. TypeOK /\ process[n] \notin {"leaving", "left"} /\ ~ tryingToJoin[n]
  BY DEF QuietRing, SearchInv, RingOK, AddressInv
<1>1. CASE Stabilize(n)
  <2>1. tryingToJoin' = tryingToJoin
    BY <1>0, <1>1 DEF Stabilize, TypeOK
  <2> QED BY <1>1, <2>1 DEF Stabilize, QuietStep, commandLine
<1>2. CASE FixFingers(n) \/ ReadFinger(n) \/ Notify(n)
  BY <1>2 DEF FixFingers, ReadFinger, Notify, QuietStep, commandLine, flags
<1>3. CASE FindSuccessor(n)
  BY <1>0, <1>3 DEF FindSuccessor, Crash, QuietStep, flags, TypeOK
<1> QED BY <1>0, <1>1, <1>2, <1>3 DEF TimerStep, LeaveSuccessor, Exit

LEMMA QuietHandlers ==
  ASSUME QuietRing, NEW m \in Messages, ProcessMessage(m.dst, m) \/ Unreachable(m)
  PROVE  QuietStep
<1> DEFINE n == m.dst
<1>0. TypeOK /\ n \in Node /\ m.src \in Node /\ ~ isSingleton[n] /\ ~ tryingToJoin[n]
  BY DEF QuietRing, SearchInv, RingOK, AddressInv, TypeOK, Messages, Message
<1>1. QuietMessage(m) /\ (Running(n) => n \in Members)
  BY <1>0 DEF QuietRing, Members
<1>2. CASE ProcessStabilizeRsp(n, m)
  <2>1. ~ Adopts(n, m.predecessor)
    BY <1>1, <1>2, NothingBetween DEF ProcessStabilizeRsp, Receive, QuietMessage
  <2> QED BY <1>2, <2>1 DEF ProcessStabilizeRsp, QuietStep, ring, flags, commandLine
<1>3. CASE ProcessNotify(n, m)
  <2>1. ~ AcceptsNotify(n, m.src)
    BY <1>1, <1>3, NothingBetween DEF ProcessNotify, Receive, QuietMessage
  <2> QED BY <1>3, <2>1 DEF ProcessNotify, QuietStep, ring, commandLine
<1>4. CASE ProcessFindPredRsp(n, m)
  BY <1>0, <1>4
  DEF ProcessFindPredRsp, Receive, SearchCallback, TakeAsJoin, TakeAsFinger,
      IgnoreResponse, QuietStep, flags, Crash, TypeOK
<1>5. CASE ProcessFindPredReq(n, m)
  BY <1>0, <1>5
  DEF ProcessFindPredReq, Receive, AnswerFindPred, ForwardFindPred, QuietStep, flags,
      Crash, TypeOK
<1>6. CASE ProcessRingState(n, m) \/ ProcessStabilizeReq(n, m)
  BY <1>6 DEF ProcessRingState, ProcessStabilizeReq, QuietStep, flags, commandLine
<1>7. CASE Unreachable(m)
  BY <1>0, <1>7 DEF Unreachable, QuietStep, flags, Crash, TypeOK
<1> QED BY <1>1, <1>2, <1>3, <1>4, <1>5, <1>6, <1>7
        DEF ProcessMessage, ProcessLeaveP, ProcessLeaveS, Receive, QuietMessage

LEMMA QuietSteps ==
  ASSUME QuietRing, [SearchNext]_allVars
  PROVE  QuietStep
<1>0. TypeOK /\ SearchTypeOK
  BY DEF QuietRing, SearchInv, RingOK, AddressInv
<1>1. CASE Next
  BY <1>1, QuietUser, QuietThreads, QuietHandlers DEF Next
<1>2. CASE UNCHANGED vars
  BY <1>2 DEF vars, commandLine, flags, QuietStep
<1>3. ASSUME NEW n \in Node, NEW t \in Term, NEW query \in Query,
             Running(n), Lookup(n, TermHash[t], query)
      PROVE  QuietStep
  BY <1>0, <1>3 DEF Lookup, Crash, QuietStep, flags, TypeOK
<1>4. CASE OnlyConsumes
  BY <1>0, <1>4 DEF OnlyConsumes, Crash, QuietStep, flags, TypeOK
<1> QED BY <1>0, <1>1, <1>2, <1>3, <1>4, SearchRing

LEMMA OwnerKept ==
  ASSUME QuietRing, [SearchNext]_allVars
  PROVE  /\ Members' = Members
         /\ \A id \in Id : Owner(id)' = Owner(id) /\ FirstAfter(id)' = FirstAfter(id)
                           /\ LastBefore(id)' = LastBefore(id)
<1>1. Members' = Members
  BY QuietSteps DEF QuietStep, Members
<1>2. \A id \in Id : FirstAfter(id)' = FirstAfter(id) /\ LastBefore(id)' = LastBefore(id)
  BY <1>1 DEF FirstAfter, LastBefore
<1>3. \A id \in Id : Owner(id)' = Owner(id)
  BY <1>1, <1>2 DEF Owner
<1> QED BY <1>1, <1>2, <1>3

LEMMA QuietNext == QuietRing /\ [SearchNext]_allVars => QuietRing'
<1> SUFFICES ASSUME QuietRing, [SearchNext]_allVars PROVE QuietRing'
  OBVIOUS
<1>0. /\ TypeOK /\ SearchTypeOK /\ TypeOK' /\ SearchInv /\ SearchInv' /\ QuietStep
      /\ Members' = Members
  BY SearchInvNext, QuietSteps, OwnerKept
  DEF QuietRing, SearchInv, RingOK, AddressInv
<1>1. \A n \in Node :
        /\ todo'[n] \subseteq {"RINGSTATE"}
        /\ process'[n] \in {"fresh", "up", "crashed"} /\ (Running(n)' => inRing'[n])
        /\ ~ isSingleton'[n] /\ ~ tryingToJoin'[n]
  BY <1>0 DEF QuietRing, QuietStep, Running
<1>2. \A n \in Members' :
        /\ successor'[n] = FirstAfter(Hash[n])'
        /\ predecessor'[n] = LastBefore(Hash[n])'
  BY <1>0, OwnerKept, HashType DEF QuietRing, QuietStep, ring, Members
<1>3. ASSUME NEW x \in Messages' PROVE QuietMessage(x)'
  <2>0. x.type = "FIND_PRED_RSP" => x.target \in Id
    BY <1>0 DEF TypeOK, Messages, Message
  <2>1. CASE x \in Messages
    BY <1>0, <2>0, <2>1, OwnerKept DEF QuietRing, QuietMessage
  <2>2. CASE Expected(x)
    <3>1. x.type \notin {"LEAVE_P", "LEAVE_S"}
      BY <2>2 DEF Expected, QuietRing
    <3>2. x.type = "NOTIFY" => x.src \in Members
      BY <2>2 DEF Expected, QuietRing, Members
    <3>3. x.type = "STABILIZE_RSP" => x.predecessor \in Members
      BY <2>2, NothingBetween DEF Expected, QuietRing, Members
    <3>4. ASSUME x.type = "FIND_PRED_RSP" PROVE x.successor = Owner(x.target)
      <4>1. PICK m \in Messages :
              /\ m.type = "FIND_PRED_REQ" /\ m.dst \in Node /\ Running(m.dst)
              /\ Answers(m.dst, m.target)
              /\ x.target = m.target /\ x.successor = successor[m.dst]
        BY <2>2, <3>4 DEF Expected, Answered
      <4>2. m.dst \in Members /\ ~ isSingleton[m.dst] /\ m.target \in Id
        BY <2>0, <3>4, <4>1 DEF QuietRing, Members
      <4>3. successor[m.dst] = FirstAfter(Hash[m.dst])
        BY <4>2 DEF QuietRing
      <4> QED BY <4>1, <4>2, <4>3, AnswerIsOwner
    <3> QED BY <1>0, <2>0, <3>1, <3>2, <3>3, <3>4, OwnerKept DEF QuietMessage
  <2>3. ASSUME x \notin Messages, NEW n \in Node, NEW t \in Term, NEW query \in Query,
               Lookup(n, TermHash[t], query)
        PROVE  QuietMessage(x)'
    <3>1. x.type = "FIND_PRED_REQ"
      BY <2>3, LookupSends
    <3> QED BY <3>1 DEF QuietMessage
  <2> QED BY <1>0, <2>1, <2>2, <2>3, SearchRing, StepSends DEF OnlyConsumes
<1> QED BY <1>0, <1>1, <1>2, <1>3 DEF QuietRing

LEMMA RestInitIs ==
  ASSUME NEW S \in SUBSET Node, NEW p \in S, NEW q \in S, p # q,
         NEW index \in File, RestInit(S, index)
  PROVE  /\ SearchInv /\ Members = S /\ Messages = {} /\ SearchMessages = {}
         /\ \A n \in S : /\ successor[n] = FirstAfter(Hash[n])
                         /\ predecessor[n] = LastBefore(Hash[n])
<1>0. SettledRing(S) /\ PublishedIndex(index)
  BY DEF RestInit
<1>1. Messages = {} /\ SearchMessages = {}
  BY <1>0 DEF SettledRing, PublishedIndex, Messages, SearchMessages, EmptyBag, SetToBag
<1>2. Members = S
  BY <1>0 DEF SettledRing, Members
<1>3. \A n \in S : /\ FirstAfter(Hash[n]) \in Node /\ LastBefore(Hash[n]) \in Node
                   /\ successor[n] = FirstAfter(Hash[n])
                   /\ predecessor[n] = LastBefore(Hash[n])
                   /\ successorIP[n] = successor[n] /\ predecessorIP[n] = predecessor[n]
  <2>1. \A n \in Node : S # {n}
    OBVIOUS
  <2> QED BY <1>0, <1>2, <2>1, HashType, FirstAfterType, LastBeforeType
          DEF SettledRing, Members
<1>4. TypeOK
  <2>1. 0 \in Id /\ 0 \in Finger
    BY RingSizeType, FingerType DEF Id
  <2>2. /\ successor \in [Node -> NodeOrNil] /\ predecessor \in [Node -> NodeOrNil]
        /\ successorIP \in [Node -> Address] /\ predecessorIP \in [Node -> Address]
    BY <1>0, <1>3 DEF SettledRing, NodeOrNil, Address
  <2>3. process \in [Node -> Life] /\ todo \in [Node -> SUBSET CommandName]
    BY <1>0, UserInput DEF SettledRing, Life
  <2>4. /\ fixer \in [Node -> {"idle", "read", "find"}]
        /\ receiver \in [Node -> {"idle", "notify"}]
        /\ fixTarget \in [Node -> Id] /\ nextFinger \in [Node -> Finger]
        /\ fingerTable \in [Node -> [Finger -> NodeOrNil]]
    BY <1>0, <2>1 DEF SettledRing, NodeOrNil
  <2>5. /\ isSingleton \in [Node -> BOOLEAN] /\ inRing \in [Node -> BOOLEAN]
        /\ tryingToJoin \in [Node -> BOOLEAN] /\ haveNotifiedOnce \in [Node -> BOOLEAN]
        /\ fixingFingers \in [Node -> BOOLEAN]
    BY <1>0 DEF SettledRing
  <2> QED BY <1>1, <2>2, <2>3, <2>4, <2>5 DEF TypeOK, Messages
<1>5. SearchTypeOK
  BY <1>0, <1>1, SearchInput
  DEF PublishedIndex, SearchTypeOK, SearchMessages, NoLists, File
<1>6. DOMAIN searchesLeft = Node
  BY <1>0, SearchInput DEF PublishedIndex
<1>7. RingOK
  <2>1. \A n \in S : n \in Node /\ successor[n] # Nil
    BY <1>3, NilIsNoNode
  <2>2. ASSUME NEW n \in Node PROVE AddressNode(n) /\ (inRing[n] => successor[n] # Nil)
    <3>1. CASE n \in S
      BY <1>0, <1>3, <2>1, <3>1, PatientUsers DEF SettledRing, AddressNode
    <3>2. CASE n \notin S
      BY <1>0, <3>2, PatientUsers DEF SettledRing, AddressNode
    <3> QED BY <3>1, <3>2
  <2> QED BY <1>4, <2>2 DEF RingOK, AddressInv
<1>8. SearchInv
  BY <1>0, <1>1, <1>5, <1>6, <1>7 DEF SearchInv, PublishedIndex
<1> QED BY <1>1, <1>2, <1>3, <1>8

LEMMA QuietInit ==
  ASSUME OnlyWalks, NEW S \in SUBSET Node, NEW p \in S, NEW q \in S, p # q,
         NEW index \in File, RestInit(S, index)
  PROVE  QuietRing
<1>1. ASSUME NEW n \in Node
      PROVE  /\ todo[n] \subseteq {"RINGSTATE"}
             /\ process[n] \in {"fresh", "up", "crashed"} /\ (Running(n) => inRing[n])
             /\ ~ isSingleton[n] /\ ~ tryingToJoin[n]
  <2>1. S # {n}
    OBVIOUS
  <2> QED BY <2>1 DEF RestInit, SettledRing, OnlyWalks, Running
<1> QED BY <1>1, RestInitIs DEF QuietRing

LEMMA NothingMoves ==
  ASSUME QuietRing
  PROVE  ~ Moves
<1>1. \A n \in Node : ~ LeaveWithFiles(n)
  BY DEF QuietRing, LeaveWithFiles, Leave, Typed
<1>2. ASSUME NEW m \in Messages, NotifyRehashes(m.dst, m), AcceptsNotify(m.dst, m.src)
      PROVE  FALSE
  <2>1. m.dst \in Node /\ Running(m.dst) /\ m.type = "NOTIFY"
    BY <1>2 DEF NotifyRehashes, ProcessNotify, Receive, QuietRing, SearchInv, RingOK,
                AddressInv, TypeOK, Messages, Message
  <2>2. m.dst \in Members /\ m.src \in Members
    BY <2>1 DEF QuietRing, QuietMessage, Members
  <2> QED BY <1>2, <2>2, NothingBetween
<1> QED BY <1>1, <1>2 DEF Moves

-----------------------------------------------------------------------------
(* Searches in a ring at rest.                                             *)

OwnerOf(t) == Owner(TermHash[t])

OwnersLists == [t \in Term |-> stored[OwnerOf(t)][t]]

(* A search has found what its owners list for the terms it has passed, at *)
(* least as much as they listed when it was typed.                         *)
Sound(q) ==
  /\ ToSet(q.terms) \subseteq q.asked
  /\ \A t \in q.asked : q.known \subseteq OwnersLists[t]
  /\ SiftedBy(q, OwnersLists)
  /\ q.docs # {} => q.known \subseteq q.docs

SoundAnswer(q) ==
  /\ q.known \subseteq q.docs
  /\ \A t \in q.asked : q.docs \subseteq OwnersLists[t]

SoundMessage(m) ==
  /\ m.type = "PUBLISH" => m.dst = OwnerOf(m.term)
  /\ m.type = "SEARCH_REQ" =>
       Sound(m.query) /\ (m.initialReq \/ m.dst = OwnerOf(Head(m.query.terms)))
  /\ m.type = "SEARCH_RSP" => SoundAnswer(m.query)

(* Lists are at the owners of their terms, and so are the searches for     *)
(* these terms; a search is remembered under the term it looks up.         *)
ExactInv ==
  /\ QuietRing
  /\ \A n \in Node, t \in Term :
       /\ stored[n][t] # {} => n = OwnerOf(t)
       /\ queryMap[n][t] # None => /\ t = Head(queryMap[n][t].terms)
                                   /\ Sound(queryMap[n][t])
  /\ \A m \in SearchMessages : SoundMessage(m)

LEMMA SoundSifts ==
  ASSUME NEW q \in SearchQuery, q.terms # << >>, Sound(q),
         NEW listed, listed = OwnersLists[Head(q.terms)],
         NEW s, s = Sift(q, listed)
  PROVE  /\ s.docs # {} => Sound(s)
         /\ s.docs = {} \/ s.terms = << >> => SoundAnswer(s)
<1>1. /\ s.asked = q.asked /\ s.known = q.known /\ s.terms = Tail(q.terms)
      /\ s.docs # {} => SiftedBy(s, OwnersLists)
      /\ s.docs = {} \/ s.terms = << >> =>
           \A t \in q.asked : s.docs \subseteq OwnersLists[t]
  BY SiftStep DEF Sound
<1>2. Head(q.terms) \in q.asked /\ ToSet(s.terms) \subseteq q.asked
  BY <1>1, HeadAndTail DEF Sound, SearchQuery
<1>3. s.docs = Narrowed(q.docs, listed)
  BY DEF Sift, SearchQuery
<1>4. q.known \subseteq s.docs
  BY <1>2, <1>3 DEF Sound, Narrowed
<1> QED BY <1>1, <1>2, <1>4 DEF Sound, SoundAnswer

LEMMA SoundGrows ==
  ASSUME \A t \in Term : OwnersLists[t] \subseteq OwnersLists'[t],
         NEW q \in SearchQuery
  PROVE  (Sound(q) => Sound(q)') /\ (SoundAnswer(q) => SoundAnswer(q)')
<1>1. SiftedBy(q, OwnersLists) => SiftedBy(q, OwnersLists')
  BY SiftGrows
<1> QED BY <1>1 DEF Sound, SoundAnswer, SearchQuery

LEMMA OwnersListsGrow ==
  ASSUME ExactInv, [SearchNext]_allVars, NEW t \in Term
  PROVE  OwnerOf(t) \in Node /\ OwnerOf(t)' = OwnerOf(t)
         /\ OwnersLists[t] \subseteq OwnersLists'[t]
<1>1. OwnerOf(t) \in Node /\ OwnerOf(t)' = OwnerOf(t)
  BY TermHashType, OwnerType, OwnerKept DEF ExactInv, QuietRing, OwnerOf
<1>2. stored[OwnerOf(t)][t] \subseteq stored'[OwnerOf(t)][t]
  BY <1>1, IndexSteps, NothingMoves DEF ExactInv, QuietRing, IndexStep, Lists
<1> QED BY <1>1, <1>2 DEF OwnersLists

(* What the index holds for all terms of a search is with their owners.    *)
LEMMA KnownIsOwned ==
  ASSUME ExactInv, NEW T \in SUBSET Term, NEW t \in T
  PROVE  Known(T) \subseteq OwnersLists[t]
BY DEF Known, ExactInv, OwnersLists

LEMMA ExactRequest ==
  ASSUME ExactInv, NEW m \in SearchMessages, m.type = "SEARCH_REQ"
  PROVE  /\ m.query \in SearchQuery /\ m.query.terms # << >> /\ Sound(m.query)
         /\ ~ m.initialReq => ListedFor(m) = OwnersLists[Head(m.query.terms)]
<1>1. m.query \in SearchQuery /\ m.query.terms # << >> /\ Sound(m.query)
  BY DEF ExactInv, QuietRing, SearchInv, SearchTypeOK, SearchMessages, SearchMessage,
         SoundMessage
<1>2. Head(m.query.terms) \in Term
  BY <1>1, HeadAndTail DEF SearchQuery
<1> QED BY <1>1, <1>2 DEF ExactInv, SoundMessage, ListedFor, OwnersLists

LEMMA ExactSends ==
  ASSUME ExactInv, [SearchNext]_allVars, NEW x \in SearchMessages' \ SearchMessages
  PROVE  SoundMessage(x)
<1>0. /\ QuietRing /\ SearchTypeOK' /\ Sent(x)
      /\ \A m \in Messages : m.type = "FIND_PRED_RSP" => m.successor = Owner(m.target)
      /\ x \in SearchMessage
  BY IndexSteps, SearchInvNext
  DEF ExactInv, QuietRing, QuietMessage, IndexStep, SearchInv, SearchTypeOK, SearchMessages
<1>1. ASSUME x.type = "PUBLISH" PROVE x.dst = OwnerOf(x.term)
  BY <1>0, <1>1, NothingMoves DEF Sent, SentPublish, OwnerOf, Moves
<1>2. CASE x.type = "SEARCH_REQ" /\ x.initialReq
  <2>1. /\ x.query.docs = {} /\ x.query.asked = ToSet(x.query.terms)
        /\ x.query.known = Known(x.query.asked) /\ x.query \in SearchQuery
    BY <1>0, <1>2 DEF Sent, SentInitial, SearchMessage
  <2>2. x.query.asked \in SUBSET Term
    BY <2>1 DEF SearchQuery
  <2>3. \A t \in x.query.asked : x.query.known \subseteq OwnersLists[t]
    BY <2>1, <2>2, KnownIsOwned
  <2>4. Sound(x.query)
    BY <2>1, <2>3 DEF Sound, SiftedBy
  <2> QED BY <1>2, <2>4 DEF SoundMessage
<1>3. CASE x.type = "SEARCH_REQ" /\ ~ x.initialReq
  <2>1. PICK m \in Messages, t \in Term :
          /\ m.type = "FIND_PRED_RSP" /\ m.dst \in Node /\ m.target = TermHash[t]
          /\ x.query = queryMap[m.dst][t] /\ queryMap[m.dst][t] # None
          /\ x.dst = IF m.successor = Nil THEN m.dst ELSE m.successor
    BY <1>0, <1>3 DEF Sent, SentNext
  <2>2. Sound(x.query) /\ t = Head(x.query.terms)
    BY <2>1 DEF ExactInv
  <2>3. m.successor = OwnerOf(t) /\ OwnerOf(t) \in Node
    BY <1>0, <2>1, OwnersListsGrow DEF OwnerOf
  <2>4. x.dst = OwnerOf(t)
    BY <2>1, <2>3, NilIsNoNode
  <2> QED BY <1>3, <2>2, <2>4 DEF SoundMessage
<1>4. CASE x.type = "SEARCH_RSP"
  <2>1. PICK m \in SearchMessages :
          /\ m.type = "SEARCH_REQ" /\ ~ m.initialReq
          /\ x.query = Sift(m.query, ListedFor(m))
          /\ x.query.docs = {} \/ x.query.terms = << >>
    BY <1>0, <1>4 DEF Sent, SentAnswer
  <2>2. SoundAnswer(x.query)
    BY <2>1, ExactRequest, SoundSifts
  <2> QED BY <1>4, <2>2 DEF SoundMessage
<1> QED BY <1>1, <1>2, <1>3, <1>4 DEF SoundMessage

LEMMA ExactNext == ExactInv /\ [SearchNext]_allVars => ExactInv'
<1> SUFFICES ASSUME ExactInv, [SearchNext]_allVars PROVE ExactInv'
  OBVIOUS
<1>0. QuietRing /\ QuietRing' /\ IndexStep /\ SearchTypeOK'
  BY QuietNext, IndexSteps DEF ExactInv, QuietRing, SearchInv
<1>1. \A t \in Term : OwnersLists[t] \subseteq OwnersLists'[t] /\ OwnerOf(t)' = OwnerOf(t)
  BY OwnersListsGrow
<1>2. ASSUME NEW n \in Node, NEW t \in Term, stored'[n][t] # {}
      PROVE  n = OwnerOf(t)
  <2>1. PICK d : d \in stored'[n][t]
    BY <1>2
  <2>2. \/ d \in stored[n][t]
        \/ \E m \in SearchMessages : m.type = "PUBLISH" /\ m.dst = n /\ m.term = t
    BY <1>0, <2>1 DEF IndexStep, Lists
  <2> QED BY <2>2 DEF ExactInv, SoundMessage
<1>3. ASSUME NEW n \in Node, NEW t \in Term, queryMap'[n][t] # None
      PROVE  t = Head(queryMap'[n][t].terms) /\ Sound(queryMap'[n][t])
  <2>1. CASE queryMap'[n][t] = queryMap[n][t]
    BY <1>3, <2>1 DEF ExactInv
  <2>2. CASE Noted(n, t, queryMap'[n][t])
    <3> DEFINE q == queryMap'[n][t]
    <3>1. PICK m \in SearchMessages :
            /\ m.type = "SEARCH_REQ"
            /\ IF m.initialReq THEN q = m.query
               ELSE q = Sift(m.query, ListedFor(m)) /\ q.docs # {}
      BY <2>2 DEF Noted
    <3>2. Sound(q)
      <4> HIDE DEF q
      <4> QED BY <3>1, ExactRequest, SoundSifts
    <3> QED BY <2>2, <3>2 DEF Noted
  <2> QED BY <1>0, <2>1, <2>2 DEF IndexStep
<1>4. \A n \in Node, t \in Term :
        queryMap'[n][t] # None => queryMap'[n][t] \in SearchQuery
  BY <1>0 DEF SearchTypeOK
<1>5. ASSUME NEW x \in SearchMessages' PROVE SoundMessage(x)'
  <2>1. SoundMessage(x)
    BY ExactSends DEF ExactInv
  <2>2. x \in SearchMessage
    BY <1>0 DEF SearchTypeOK, SearchMessages
  <2>3. /\ x.type = "PUBLISH" => x.term \in Term
        /\ x.type \in {"SEARCH_REQ", "SEARCH_RSP"} => x.query \in SearchQuery
        /\ x.type = "SEARCH_REQ" => Head(x.query.terms) \in Term
    <3>1. /\ x.type = "PUBLISH" => x.term \in Term
          /\ x.type \in {"SEARCH_REQ", "SEARCH_RSP"} => x.query \in SearchQuery
      BY <2>2 DEF SearchMessage
    <3>2. x.type = "SEARCH_REQ" => x.query.terms # << >>
      BY <1>0 DEF QuietRing, SearchInv
    <3> QED BY <3>1, <3>2, HeadAndTail DEF SearchQuery
  <2> QED BY <1>1, <2>1, <2>3, SoundGrows DEF SoundMessage
<1>6. ASSUME NEW n \in Node, NEW t \in Term, queryMap'[n][t] # None
      PROVE  Sound(queryMap[n][t])'
  <2>1. PICK q : q = queryMap'[n][t]
    OBVIOUS
  <2>2. q \in SearchQuery /\ Sound(q)
    BY <1>3, <1>4, <1>6, <2>1
  <2>3. Sound(q)'
    BY <1>1, <2>2, SoundGrows
  <2> QED BY <2>1, <2>3 DEF Sound, SiftedBy
<1> QED BY <1>0, <1>1, <1>2, <1>3, <1>5, <1>6 DEF ExactInv

LEMMA ExactInit ==
  ASSUME OnlyWalks, NEW S \in SUBSET Node, NEW p \in S, NEW q \in S, p # q,
         NEW index \in File, RestInit(S, index)
  PROVE  ExactInv
<1>1. QuietRing
  BY QuietInit
<1>2. SearchMessages = {}
  BY DEF RestInit, PublishedIndex, SearchMessages, EmptyBag, SetToBag
<1>3. \A n \in Node, t \in Term :
        queryMap[n][t] = None /\ (stored[n][t] # {} => n = OwnerOf(t))
  BY DEF RestInit, PublishedIndex, OwnerOf
<1> QED BY <1>1, <1>2, <1>3 DEF ExactInv

LEMMA ExactIsExact == ExactInv => SearchesAreExact
<1> SUFFICES ASSUME ExactInv, NEW m \in SearchMessages, m.type = "SEARCH_RSP"
             PROVE  /\ m.query.known \subseteq m.query.docs
                    /\ m.query.docs \subseteq Known(m.query.asked)
  BY DEF SearchesAreExact
<1>1. m.query \in SearchQuery /\ SoundAnswer(m.query)
  BY DEF ExactInv, QuietRing, SearchInv, SearchTypeOK, SearchMessages, SearchMessage,
         SoundMessage
<1>2. \A t \in m.query.asked : OwnerOf(t) \in Node
  BY <1>1, TermHashType, OwnerType DEF ExactInv, QuietRing, SearchQuery, OwnerOf
<1>3. \A t \in m.query.asked : OwnersLists[t] = stored[OwnerOf(t)][t]
  BY <1>1 DEF OwnersLists, SearchQuery
<1> QED BY <1>1, <1>2, <1>3 DEF SoundAnswer, SearchQuery, Known

(* From a published index in a ring of several nodes at rest, whatever     *)
(* users publish and search, however many terms a search has and however   *)
(* the messages of several overtake each other: an answer holds every      *)
(* document that was listed for all its terms when it was typed, and none  *)
(* that is not listed for all of them, and the state keeps its types.      *)
THEOREM SettledSearchesAreExact ==
  ASSUME OnlyWalks, NEW S \in SUBSET Node, NEW p \in S, NEW q \in S, p # q,
         NEW index \in File
  PROVE  RestInit(S, index) /\ [][SearchNext]_allVars => [](SearchesAreExact /\ SearchTypeOK)
<1>1. RestInit(S, index) => ExactInv
  BY ExactInit
<1>2. ExactInv /\ [SearchNext]_allVars => ExactInv'
  BY ExactNext
<1>3. ExactInv => SearchesAreExact /\ SearchTypeOK
  BY ExactIsExact DEF ExactInv, QuietRing, SearchInv
<1> QED BY <1>1, <1>2, <1>3, PTL

-----------------------------------------------------------------------------
(* What the callbacks find.                                                *)

Began(n) == filesLeft[n] # Files[n]

Asker(m) == IF m.type = "FIND_PRED_REQ" THEN m.origin ELSE m.dst

(* The answer to a lookup of t by n finds what its callback looks for.     *)
Excused(n, query, t) ==
  \/ Overlapped(n)
  \/ query = "search" /\ queryMap[n][t] # None
  \/ query = "publish" /\ hashInvertedLists[n][t] # {}

CallbackNode(n) ==
  /\ filesLeft[n] \subseteq Files[n]
  /\ reading[n] # None =>
       Began(n) /\ toLookUp[n] = {} /\ hashInvertedLists[n] = NoLists
  /\ \A t \in toLookUp[n] : Began(n) /\ hashInvertedLists[n][t] # {}
  /\ makingSearchQuery[n] => searcher[n] # None
  /\ searcher[n] # None => makingSearchQuery[n] /\ queryMap[n][searcher[n]] # None

CallbackMessage(m) ==
  \A t \in Term : IsLookup(m) /\ m.target = TermHash[t] =>
    /\ Excused(Asker(m), m.query, t)
    /\ m.query = "publish" => Began(Asker(m))

CallbackInv ==
  /\ SearchInv
  /\ \A n \in Node : CallbackNode(n)
  /\ \A m \in Messages : CallbackMessage(m)

LEMMA QueryStays ==
  ASSUME SearchInv, [SearchNext]_allVars, NEW n \in Node, NEW t \in Term,
         queryMap[n][t] # None
  PROVE  queryMap'[n][t] # None
<1>1. CASE Noted(n, t, queryMap'[n][t])
  <2> DEFINE q == queryMap'[n][t]
  <2>1. PICK m \in SearchMessages :
          /\ m.type = "SEARCH_REQ" /\ m.dst = n
          /\ q = m.query \/ q = Sift(m.query, ListedFor(m))
    BY <1>1 DEF Noted
  <2>2. m.query \in SearchQuery /\ m.query.terms # << >> /\ m.query.terms \in Seq(Term)
    BY <2>1 DEF SearchInv, SearchTypeOK, SearchMessages, SearchMessage, SearchQuery
  <2>3. Head(m.query.terms) \in Term /\ Tail(m.query.terms) \in Seq(Term)
    BY <2>2, HeadAndTail
  <2>4. Narrowed(m.query.docs, ListedFor(m)) \in SUBSET Doc
    BY <2>1, <2>2, <2>3 DEF Narrowed, ListedFor, SearchInv, SearchTypeOK, File, SearchQuery
  <2>5. Sift(m.query, ListedFor(m)) \in SearchQuery
    BY <2>2, <2>3, <2>4 DEF Sift, SearchQuery
  <2> HIDE DEF q
  <2>6. q # None
    BY <2>1, <2>2, <2>5, NoneIsNoQuery
  <2> QED BY <2>6 DEF q
<1> QED BY <1>1, IndexSteps DEF IndexStep

LEMMA OverlapStays ==
  ASSUME CallbackInv, [SearchNext]_allVars, NEW n \in Node
  PROVE  /\ Began(n) => Began(n)'
         /\ Overlapped(n) => Overlapped(n)'
         /\ \A query \in Query, t \in Term :
              Excused(n, query, t) /\ (query = "publish" => Began(n)) =>
                Excused(n, query, t)'
<1>0. SearchInv /\ FilesStep(n) /\ CallbackNode(n)
  BY FilesStepOf DEF CallbackInv, SearchInv
<1>1. filesLeft'[n] \subseteq filesLeft[n] /\ filesLeft[n] \subseteq Files[n]
  BY <1>0 DEF FilesStep, CallbackNode
<1>2. Began(n) => Began(n)'
  BY <1>1 DEF Began
<1>3. Overlapped(n) => Overlapped(n)'
  <2>1. CASE \E f, g \in Files[n] \ filesLeft[n] : f # g
    BY <1>1, <2>1 DEF Overlapped
  <2>2. CASE Files[n] # filesLeft[n] /\ \E t \in Term : queryMap[n][t] # None
    BY <1>0, <1>1, <2>2, QueryStays DEF Overlapped
  <2> QED BY <2>1, <2>2 DEF Overlapped
<1>4. ASSUME NEW t \in Term, Began(n), hashInvertedLists[n][t] # {}
      PROVE  Overlapped(n)' \/ hashInvertedLists'[n][t] # {}
  <2>1. CASE hashInvertedLists'[n] = hashInvertedLists[n]
    BY <1>4, <2>1
  <2>2. CASE reading'[n] \in filesLeft[n] \ filesLeft'[n]
    <3>1. PICK g : g \in Files[n] \ filesLeft[n]
      BY <1>1, <1>4 DEF Began
    <3> QED BY <1>1, <2>2, <3>1 DEF Overlapped
  <2>3. CASE reading[n] # None
    BY <1>0, <1>4, <2>3 DEF CallbackNode, NoLists
  <2> QED BY <1>0, <2>1, <2>2, <2>3 DEF FilesStep
<1>5. ASSUME NEW query \in Query, NEW t \in Term, Excused(n, query, t),
             query = "publish" => Began(n)
      PROVE  Excused(n, query, t)'
  BY <1>0, <1>3, <1>4, <1>5, QueryStays DEF Excused
<1> QED BY <1>2, <1>3, <1>5

(* The flag that says what a lookup is for goes with the term it is for.   *)
LEMMA SearcherStep ==
  ASSUME SearchInv, [SearchNext]_allVars, NEW n \in Node
  PROVE  \/ searcher'[n] = searcher[n] /\ makingSearchQuery'[n] = makingSearchQuery[n]
         \/ searcher'[n] = None /\ ~ makingSearchQuery'[n]
         \/ /\ searcher'[n] # None /\ makingSearchQuery'[n]
            /\ queryMap'[n][searcher'[n]] # None
            /\ \E m \in SearchMessages : m.type = "SEARCH_REQ" /\ m.dst = n
<1>0. SearchTypeOK /\ None \notin Term
  BY NoneIsNothing DEF SearchInv
<1>1. CASE UNCHANGED <<makingSearchQuery, searcher>>
  BY <1>1
<1>2. ASSUME NEW p \in Node, SearchLookup(p)
      PROVE  \/ searcher'[n] = searcher[n] /\ makingSearchQuery'[n] = makingSearchQuery[n]
             \/ searcher'[n] = None /\ ~ makingSearchQuery'[n]
  BY <1>0, <1>2 DEF SearchLookup, SearchTypeOK
<1>3. ASSUME NEW m \in SearchMessages, m.type = "SEARCH_REQ",
             NEW q \in SearchQuery, q.terms # << >>, StartLookup(m.dst, q)
      PROVE  \/ searcher'[n] = searcher[n] /\ makingSearchQuery'[n] = makingSearchQuery[n]
             \/ /\ searcher'[n] # None /\ makingSearchQuery'[n]
                /\ queryMap'[n][searcher'[n]] # None
                /\ \E x \in SearchMessages : x.type = "SEARCH_REQ" /\ x.dst = n
  <2>1. Head(q.terms) \in Term /\ q # None
    BY <1>3, HeadAndTail, NoneIsNoQuery DEF SearchQuery
  <2>2. CASE m.dst = n
    <3>1. /\ queryMap'[n][Head(q.terms)] = q /\ makingSearchQuery'[n]
          /\ searcher'[n] = Head(q.terms)
      BY <1>0, <1>3, <2>1, <2>2 DEF StartLookup, SearchTypeOK
    <3> QED BY <1>0, <1>3, <2>1, <2>2, <3>1
  <2>3. CASE m.dst # n
    BY <1>0, <1>3, <2>3 DEF StartLookup, SearchTypeOK
  <2> QED BY <2>2, <2>3
<1>4. ASSUME NEW m \in SearchMessages, ProcessInitialReq(m.dst, m)
      PROVE  /\ m.type = "SEARCH_REQ"
             /\ m.query \in SearchQuery /\ m.query.terms # << >>
             /\ StartLookup(m.dst, m.query)
  BY <1>0, <1>4 DEF ProcessInitialReq, ReceiveSearch, SearchInv, SearchTypeOK,
                    SearchMessages, SearchMessage
<1>5. ASSUME NEW m \in SearchMessages, ProcessNextReq(m.dst, m),
             ~ UNCHANGED <<makingSearchQuery, searcher>>
      PROVE  /\ m.type = "SEARCH_REQ"
             /\ \E q \in SearchQuery : q.terms # << >> /\ StartLookup(m.dst, q)
  <2>1. /\ m.type = "SEARCH_REQ"
        /\ m.query \in SearchQuery /\ m.query.terms # << >> /\ m.dst \in Node
        /\ m.query.terms \in Seq(Term)
    BY <1>0, <1>5 DEF ProcessNextReq, ReceiveSearch, SearchInv, SearchTypeOK,
                      SearchMessages, SearchMessage, SearchQuery
  <2>2. Head(m.query.terms) \in Term /\ Tail(m.query.terms) \in Seq(Term)
    BY <2>1, HeadAndTail
  <2>3. PICK docs : docs = Narrowed(m.query.docs, stored[m.dst][Head(m.query.terms)])
    OBVIOUS
  <2>4. docs \in SUBSET Doc
    BY <1>0, <2>1, <2>2, <2>3 DEF SearchTypeOK, File, SearchQuery, Narrowed
  <2>5. PICK now : now = [m.query EXCEPT !.docs = docs, !.terms = Tail(@)]
    OBVIOUS
  <2>6. now \in SearchQuery
    BY <2>1, <2>2, <2>4, <2>5 DEF SearchQuery
  <2>7. now.terms # << >> /\ StartLookup(m.dst, now)
    BY <1>5, <2>3, <2>5 DEF ProcessNextReq, searching
  <2> QED BY <2>1, <2>6, <2>7
<1> QED BY <1>1, <1>2, <1>3, <1>4, <1>5
        DEF SearchNext, SearchStep, RingStep, ParsePublish, FillInvertedLists,
            PublishLookup, ParseSearch, LeaveWithFiles, TransferFiles, ExitSearch,
            NotifyRehashes, HandleRehashKeys, ProcessTermRsp, ProcessPublish,
            ProcessSearchRsp, SearchUnreachable, allVars, searchVars, searching

LEMMA CallbackNodeKept ==
  ASSUME CallbackInv, [SearchNext]_allVars, NEW n \in Node
  PROVE  CallbackNode(n)'
<1>0. SearchInv /\ SearchTypeOK' /\ FilesStep(n) /\ CallbackNode(n)
  BY FilesStepOf, SearchInvNext DEF CallbackInv, SearchInv
<1>1. filesLeft'[n] \subseteq Files[n] /\ (Began(n) => Began(n)')
  BY <1>0, OverlapStays DEF FilesStep, CallbackNode
<1>2. /\ reading'[n] # None =>
           Began(n)' /\ toLookUp'[n] = {} /\ hashInvertedLists'[n] = NoLists
      /\ \A t \in toLookUp'[n] : Began(n)' /\ hashInvertedLists'[n][t] # {}
  <2>1. CASE /\ reading'[n] = reading[n] /\ hashInvertedLists'[n] = hashInvertedLists[n]
             /\ toLookUp'[n] \subseteq toLookUp[n]
    BY <1>0, <1>1, <2>1 DEF CallbackNode
  <2>2. CASE /\ toLookUp'[n] = {} /\ hashInvertedLists'[n] = NoLists
             /\ reading'[n] \in filesLeft[n] \ filesLeft'[n]
    BY <1>0, <2>2 DEF CallbackNode, Began
  <2>3. CASE /\ reading[n] # None /\ reading'[n] = None
             /\ hashInvertedLists'[n] = reading[n]
             /\ toLookUp'[n] = {t \in Term : reading[n][t] # {}}
    BY <1>0, <1>1, <2>3 DEF CallbackNode
  <2> QED BY <1>0, <2>1, <2>2, <2>3 DEF FilesStep
<1>3. /\ makingSearchQuery'[n] => searcher'[n] # None
      /\ searcher'[n] # None =>
           makingSearchQuery'[n] /\ queryMap'[n][searcher'[n]] # None
  <2>1. CASE searcher'[n] = searcher[n] /\ makingSearchQuery'[n] = makingSearchQuery[n]
    <3>1. searcher[n] # None => searcher[n] \in Term
      BY <1>0 DEF SearchInv, SearchTypeOK
    <3> QED BY <1>0, <2>1, <3>1, QueryStays DEF CallbackNode
  <2> QED BY <1>0, <2>1, SearcherStep
<1> QED BY <1>1, <1>2, <1>3 DEF CallbackNode, Began

(* Whatever a node looks up for PennSearch, it has an excuse.              *)
LEMMA LookupIsExcused ==
  ASSUME CallbackInv, NEW n \in Node, NEW t \in Term, NEW query,
         t \in toLookUp[n] \/ t = searcher[n],
         query = IF makingSearchQuery[n] THEN "search" ELSE "publish"
  PROVE  Excused(n, query, t) /\ (query = "publish" => Began(n))
<1>0. CallbackNode(n) /\ SearchTypeOK /\ None \notin Term
  BY NoneIsNothing DEF CallbackInv, SearchInv
<1>1. CASE t = searcher[n]
  BY <1>0, <1>1 DEF CallbackNode, Excused
<1>2. CASE t \in toLookUp[n] /\ makingSearchQuery[n]
  <2>1. searcher[n] \in Term /\ queryMap[n][searcher[n]] # None /\ Began(n)
    BY <1>0, <1>2 DEF CallbackNode, SearchTypeOK
  <2> QED BY <1>2, <2>1 DEF Excused, Overlapped, Began
<1>3. CASE t \in toLookUp[n] /\ ~ makingSearchQuery[n]
  BY <1>0, <1>3 DEF CallbackNode, Excused
<1> QED BY <1>1, <1>2, <1>3

LEMMA CallbackMessageKept ==
  ASSUME CallbackInv, [SearchNext]_allVars, NEW x \in Messages'
  PROVE  CallbackMessage(x)'
<1> SUFFICES ASSUME NEW t \in Term, IsLookup(x), x.target = TermHash[t]
             PROVE  /\ Excused(Asker(x), x.query, t)'
                    /\ x.query = "publish" => Began(Asker(x))'
  BY DEF CallbackMessage, IsLookup, Asker
<1>0. /\ TypeOK /\ SearchTypeOK /\ TypeOK' /\ x \in Message
      /\ Asker(x) \in Node /\ x.query \in Query
  <2>1. TypeOK /\ SearchTypeOK
    BY DEF CallbackInv, SearchInv, RingOK, AddressInv
  <2>2. TypeOK'
    BY <2>1, TypeSearchRing
  <2>3. x \in Message
    BY <2>2 DEF TypeOK, Messages
  <2>4. Asker(x) \in Node /\ x.query \in Query
    BY <2>3 DEF Message, IsLookup, Asker
  <2> QED BY <2>1, <2>2, <2>3, <2>4
<1>1. Excused(Asker(x), x.query, t) /\ (x.query = "publish" => Began(Asker(x)))
  <2>1. CASE x \in Messages
    BY <2>1 DEF CallbackInv, CallbackMessage
  <2>2. CASE Expected(x)
    <3>1. CASE \E m \in Messages : /\ m.type = "FIND_PRED_REQ" /\ Asker(x) = m.origin
                                   /\ x.target = m.target /\ x.query = m.query
      BY <3>1 DEF CallbackInv, CallbackMessage, IsLookup, Asker
    <3>2. x.type = "FIND_PRED_RSP" => Answered(x)
      BY <2>2 DEF Expected
    <3>3. x.type = "FIND_PRED_REQ" => \E m \in Messages :
            /\ m.type = "FIND_PRED_REQ"
            /\ x.origin = m.origin /\ x.target = m.target /\ x.query = m.query
      BY <1>0, <2>2, PatientUsers DEF Expected, Asked, Query
    <3>4. x.type \in {"FIND_PRED_REQ", "FIND_PRED_RSP"}
      BY DEF IsLookup
    <3> QED BY <3>1, <3>2, <3>3, <3>4 DEF Answered, Asker
  <2>3. ASSUME x \notin Messages, NEW n \in Node, NEW u \in Term, NEW query \in Query,
               Lookup(n, TermHash[u], query),
               u \in toLookUp[n] \/ u = searcher[n],
               query = IF makingSearchQuery[n] THEN "search" ELSE "publish"
        PROVE  Excused(Asker(x), x.query, t) /\ (x.query = "publish" => Began(Asker(x)))
    <3>1. /\ x.type = "FIND_PRED_REQ" /\ x.origin = n /\ x.target = TermHash[u]
          /\ x.query = query
      BY <2>3, LookupSends
    <3>2. u = t /\ Asker(x) = n
      BY <3>1, DistinctTerms DEF Asker
    <3> QED BY <2>3, <3>1, <3>2, LookupIsExcused
  <2> QED BY <1>0, <2>1, <2>2, <2>3, SearchRing, StepSends DEF OnlyConsumes
<1> QED BY <1>0, <1>1, OverlapStays

LEMMA CallbackNext == CallbackInv /\ [SearchNext]_allVars => CallbackInv'
BY SearchInvNext, CallbackNodeKept, CallbackMessageKept DEF CallbackInv

(* The answer to a lookup crashes the node that asked only in an overlap.  *)
LEMMA TermRspCrash ==
  ASSUME CallbackInv, NEW m \in Messages, ProcessTermRsp(m.dst, m),
         m.successor # Nil
  PROVE  UNCHANGED process \/ (m.dst \in Node /\ Crash(m.dst) /\ Overlapped(m.dst))
<1>0. TypeOK
  BY DEF CallbackInv, SearchInv, RingOK, AddressInv
<1>1. m.dst \in Node /\ m.type = "FIND_PRED_RSP"
  BY <1>0 DEF ProcessTermRsp, Receive, TypeOK, Messages, Message
<1>2. IsLookup(m)
  BY <1>1 DEF ProcessTermRsp, HandleSearch, HandlePublish, IsLookup, Query
<1>3. PICK t \in Term : m.target = TermHash[t]
  BY <1>2 DEF CallbackInv, SearchInv
<1>4. TermOf(m.target) = t
  BY <1>3, TermOfIs
<1>5. Excused(m.dst, m.query, t)
  BY <1>1, <1>2, <1>3 DEF CallbackInv, CallbackMessage, Asker
<1>6. CASE HandleSearch(m.dst, m)
  BY <1>1, <1>4, <1>5, <1>6 DEF HandleSearch, Excused
<1>7. CASE HandlePublish(m.dst, m)
  BY <1>1, <1>4, <1>5, <1>7 DEF HandlePublish, Excused, Target
<1> QED BY <1>6, <1>7 DEF ProcessTermRsp

(* In a ring at rest a member always finds somewhere to send a lookup.     *)
LEMMA ClosestIsSome ==
  ASSUME QuietRing, NEW n \in Members, NEW id
  PROVE  ClosestPrecedingNode(n, id) # Nil
<1> DEFINE S == {i \in Finger :
                   /\ fingerTable[n][i] # Nil
                   /\ FingerPrecedes(Hash[n], HashOf(fingerTable[n][i]), id)}
<1>1. CASE S # {}
  <2>1. Max(S) \in S
    <3>1. S \in SUBSET Finger
      OBVIOUS
    <3> HIDE DEF S
    <3> QED BY <1>1, <3>1, HighestFinger
  <2>2. ClosestPrecedingNode(n, id) = fingerTable[n][Max(S)]
    BY <1>1 DEF ClosestPrecedingNode
  <2> QED BY <2>1, <2>2
<1>2. CASE S = {}
  <2>1. ClosestPrecedingNode(n, id) = successor[n]
    BY <1>2 DEF ClosestPrecedingNode, QuietRing, Members
  <2>2. successor[n] \in Members
    BY NothingBetween
  <2> QED BY <2>1, <2>2, NilIsNoNode DEF Members
<1> QED BY <1>1, <1>2

(* A process ends because another has, or by what a callback does not find. *)
CrashStep ==
  \/ UNCHANGED process
  \/ \E p \in Node : process[p] = "crashed"
  \/ \E n \in Node : Crash(n) /\ Overlapped(n)

LEMMA RingCrash ==
  ASSUME QuietRing, RingStep
  PROVE  CrashStep
<1>0. /\ TypeOK
      /\ \A n \in Node : /\ Running(n) => n \in Members
                         /\ process[n] \notin {"leaving", "left", "exited"}
                         /\ ~ tryingToJoin[n]
                         /\ todo[n] \subseteq {"RINGSTATE"}
  BY DEF QuietRing, SearchInv, RingOK, AddressInv, Members
<1>1. ASSUME NEW n \in Node,
             \/ CreateRing(n) \/ RingState(n) \/ \E c \in Node : Join(n, c)
             \/ TimerStep(n) \/ LeaveSuccessor(n)
             \/ ReadFinger(n) \/ FindSuccessor(n) \/ Notify(n)
      PROVE  UNCHANGED process
  <2>1. ~ CreateRing(n) /\ ~ LeaveSuccessor(n) /\ \A c \in Node : ~ Join(n, c)
    BY <1>0 DEF CreateRing, LeaveSuccessor, Join, Typed
  <2>2. CASE FindSuccessor(n)
    BY <1>0, <2>2, ClosestIsSome DEF FindSuccessor
  <2>3. CASE RingState(n) \/ TimerStep(n) \/ ReadFinger(n) \/ Notify(n)
    BY <2>3 DEF RingState, TimerStep, Stabilize, FixFingers, ReadFinger, Notify,
                commandLine
  <2> QED BY <1>1, <2>1, <2>2, <2>3
<1>2. ASSUME NEW m \in Messages, m.type = "FIND_PRED_RSP" => m.query = "none",
             ProcessMessage(m.dst, m)
      PROVE  UNCHANGED process
  <2>0. m.dst \in Node /\ QuietMessage(m)
    BY <1>0 DEF QuietRing, TypeOK, Messages, Message
  <2>1. CASE ProcessFindPredReq(m.dst, m)
    BY <1>0, <2>0, <2>1, ClosestIsSome
    DEF ProcessFindPredReq, Receive, AnswerFindPred, ForwardFindPred
  <2>2. CASE ProcessFindPredRsp(m.dst, m)
    BY <1>0, <1>2, <2>0, <2>2
    DEF ProcessFindPredRsp, Receive, SearchCallback, Query, TakeAsJoin, TakeAsFinger,
        IgnoreResponse
  <2>3. ~ ProcessLeaveP(m.dst, m) /\ ~ ProcessLeaveS(m.dst, m)
    BY <2>0 DEF QuietMessage, ProcessLeaveP, ProcessLeaveS, Receive
  <2>4. CASE \/ ProcessRingState(m.dst, m) \/ ProcessNotify(m.dst, m)
             \/ ProcessStabilizeReq(m.dst, m) \/ ProcessStabilizeRsp(m.dst, m)
    BY <2>4 DEF ProcessRingState, ProcessNotify, ProcessStabilizeReq,
                ProcessStabilizeRsp, commandLine
  <2> QED BY <1>2, <2>1, <2>2, <2>3, <2>4 DEF ProcessMessage
<1>3. ASSUME NEW m \in Messages, Unreachable(m)
      PROVE  \E p \in Node : process[p] = "crashed"
  <2>1. m.dst \in Node
    BY <1>0 DEF TypeOK, Messages, Message
  <2> QED BY <1>0, <1>3, <2>1 DEF Unreachable, Ended
<1> QED BY <1>1, <1>2, <1>3 DEF RingStep, CrashStep

LEMMA SearchCrash ==
  ASSUME QuietRing, CallbackInv, SearchStep
  PROVE  CrashStep
<1>0. /\ QuietRing /\ TypeOK /\ SearchTypeOK
      /\ \A n \in Node : /\ Running(n) => n \in Members
                         /\ process[n] \notin {"leaving", "left", "exited"}
  BY DEF QuietRing, SearchInv, RingOK, AddressInv, Members
<1>1. ASSUME NEW n \in Node,
             \/ ParsePublish(n) \/ FillInvertedLists(n) \/ PublishLookup(n)
             \/ ParseSearch(n) \/ SearchLookup(n) \/ LeaveWithFiles(n) \/ ExitSearch(n)
      PROVE  UNCHANGED process
  <2>1. ~ LeaveWithFiles(n) /\ ~ ExitSearch(n)
    BY <1>0, NothingMoves DEF Moves, ExitSearch, Exit
  <2>2. CASE PublishLookup(n) \/ SearchLookup(n)
    BY <1>0, <2>2, ClosestIsSome DEF PublishLookup, SearchLookup, LookupTerm, Lookup
  <2>3. CASE ParsePublish(n) \/ FillInvertedLists(n) \/ ParseSearch(n)
    BY <2>3 DEF ParsePublish, FillInvertedLists, ParseSearch, vars, commandLine
  <2> QED BY <1>1, <2>1, <2>2, <2>3
<1>2. ASSUME NEW m \in Messages, NotifyRehashes(m.dst, m) PROVE UNCHANGED process
  BY <1>2 DEF NotifyRehashes, ProcessNotify, commandLine
<1>3. ASSUME NEW m \in Messages, ProcessTermRsp(m.dst, m)
      PROVE  UNCHANGED process \/ (m.dst \in Node /\ Crash(m.dst) /\ Overlapped(m.dst))
  <2>1. m.type = "FIND_PRED_RSP" /\ m.target \in Id
    BY <1>0, <1>3 DEF ProcessTermRsp, Receive, TypeOK, Messages, Message
  <2>2. m.successor # Nil
    BY <1>0, <2>1, OwnerType, NilIsNoNode DEF QuietRing, QuietMessage
  <2> QED BY <1>3, <2>2, TermRspCrash
<1>4. ASSUME NEW m \in SearchMessages,
             \/ ProcessPublish(m.dst, m) \/ ProcessInitialReq(m.dst, m)
             \/ ProcessNextReq(m.dst, m) \/ ProcessSearchRsp(m.dst, m)
      PROVE  UNCHANGED process
  BY <1>4 DEF ProcessPublish, ProcessInitialReq, ProcessNextReq, ProcessSearchRsp,
              vars, commandLine
<1>5. ASSUME NEW m \in SearchMessages, SearchUnreachable(m)
      PROVE  \E p \in Node : process[p] = "crashed"
  <2>1. m.dst \in Node
    BY <1>0 DEF SearchTypeOK, SearchMessages, SearchMessage
  <2> QED BY <1>0, <1>5, <2>1 DEF SearchUnreachable, Ended
<1>6. \A m \in Messages : m.dst \in Node
  BY <1>0 DEF TypeOK, Messages, Message
<1> QED BY <1>1, <1>2, <1>3, <1>4, <1>5, <1>6 DEF SearchStep, CrashStep

LEMMA OverlapRemains ==
  ASSUME CallbackInv, [SearchNext]_allVars,
         \A n \in Node : process[n] = "crashed" => process'[n] = "crashed",
         NEW p \in Node, process[p] = "crashed" \/ Crash(p), Overlapped(p)
  PROVE  \E n \in Node : process'[n] = "crashed" /\ Overlapped(n)'
<1>1. Overlapped(p)' /\ TypeOK
  BY OverlapStays DEF CallbackInv, SearchInv, RingOK, AddressInv
<1> QED BY <1>1 DEF Crash, TypeOK

QuietCallbacks == QuietRing /\ CallbackInv /\ CrashNeedsOverlap

LEMMA QuietCallbacksNext ==
  QuietCallbacks /\ [SearchNext]_allVars => QuietCallbacks'
<1> SUFFICES ASSUME QuietCallbacks, [SearchNext]_allVars PROVE QuietCallbacks'
  OBVIOUS
<1>1. QuietRing' /\ QuietStep /\ CallbackInv'
  BY QuietNext, QuietSteps, CallbackNext DEF QuietCallbacks
<1>2. CrashStep
  BY RingCrash, SearchCrash
  DEF QuietCallbacks, SearchNext, CrashStep, allVars, vars, commandLine
<1>3. \A n \in Node : process[n] = "crashed" => process'[n] = "crashed"
  BY <1>1 DEF QuietStep, Running
<1>4. ASSUME NEW n \in Node, process'[n] = "crashed" PROVE
        \E p \in Node : (process[p] = "crashed" \/ Crash(p)) /\ Overlapped(p)
  BY <1>2, <1>4 DEF CrashStep, QuietCallbacks, CrashNeedsOverlap
<1>5. CrashNeedsOverlap'
  BY <1>3, <1>4, OverlapRemains DEF QuietCallbacks, CrashNeedsOverlap
<1> QED BY <1>1, <1>5 DEF QuietCallbacks

LEMMA QuietCallbacksInit ==
  ASSUME OnlyWalks, NEW S \in SUBSET Node, NEW p \in S, NEW q \in S, p # q,
         NEW index \in File, RestInit(S, index)
  PROVE  QuietCallbacks
<1>1. QuietRing
  BY QuietInit
<1>2. Messages = {}
  BY DEF RestInit, SettledRing, Messages, EmptyBag, SetToBag
<1>3. \A n \in Node : process[n] # "crashed" /\ CallbackNode(n)
  BY DEF RestInit, SettledRing, PublishedIndex, CallbackNode
<1> QED BY <1>1, <1>2, <1>3 DEF QuietCallbacks, QuietRing, CallbackInv, CrashNeedsOverlap

(* In such a ring no process ends before one whose user published twice,   *)
(* or published at a node that was looking up a search: everywhere else    *)
(* hashInvertedLists.at and queryMap.at (penn-search.cpp:661, :615) find   *)
(* what they look for, whatever the order of the responses.                *)
THEOREM CallbacksNeedOverlap ==
  ASSUME OnlyWalks, NEW S \in SUBSET Node, NEW p \in S, NEW q \in S, p # q,
         NEW index \in File
  PROVE  RestInit(S, index) /\ [][SearchNext]_allVars => []CrashNeedsOverlap
<1>1. RestInit(S, index) => QuietCallbacks
  BY QuietCallbacksInit
<1>2. QuietCallbacks /\ [SearchNext]_allVars => QuietCallbacks'
  BY QuietCallbacksNext
<1>3. QuietCallbacks => CrashNeedsOverlap
  BY DEF QuietCallbacks
<1> QED BY <1>1, <1>2, <1>3, PTL

-----------------------------------------------------------------------------
(* The index of a ring that grows.                                         *)

LEMMA HandlersOnlyCrash ==
  ASSUME NEW m, ProcessMessage(m.dst, m) \/ Unreachable(m)
  PROVE  process' = process \/ \E p : Crash(p)
BY DEF ProcessMessage, ProcessStabilizeReq, ProcessStabilizeRsp, ProcessNotify,
       ProcessFindPredReq, AnswerFindPred, ForwardFindPred, ProcessFindPredRsp,
       SearchCallback, TakeAsJoin, TakeAsFinger, IgnoreResponse, ProcessLeaveP,
       ProcessLeaveS, ProcessRingState, Unreachable, commandLine

(* A process that has crashed is not started again.                        *)
LEMMA CrashIsFinal ==
  ASSUME TypeOK, SearchTypeOK, [SearchNext]_allVars, NEW n \in Node,
         process[n] = "crashed"
  PROVE  process'[n] = "crashed"
<1>1. ASSUME NEW p \in Node, UserStep(p) PROVE process'[n] = "crashed"
  BY <1>1 DEF UserStep, CreateRing, Join, Leave, RingState, LookupAnything, Lookup,
              Crash, TypeOK
<1>2. ASSUME NEW p \in Node,
             \/ TimerStep(p) \/ LeaveSuccessor(p) \/ Exit(p)
             \/ ReadFinger(p) \/ FindSuccessor(p) \/ Notify(p)
      PROVE  process'[n] = "crashed"
  BY <1>2 DEF TimerStep, FixFingers, Stabilize, LeaveSuccessor, Exit, ReadFinger,
              FindSuccessor, Notify, Crash, TypeOK, commandLine
<1>3. ASSUME NEW m \in Messages, ProcessMessage(m.dst, m) \/ Unreachable(m)
      PROVE  process'[n] = "crashed"
  <2>1. process' = process \/ \E p : Crash(p)
    BY <1>3, HandlersOnlyCrash
  <2> QED BY <2>1 DEF Crash, TypeOK
<1>4. CASE UNCHANGED vars
  BY <1>4 DEF vars, commandLine
<1>5. ASSUME NEW p \in Node, NEW id, NEW query, Lookup(p, id, query)
      PROVE  process'[n] = "crashed"
  BY <1>5 DEF Lookup, Crash, TypeOK
<1>6. CASE OnlyConsumes
  BY <1>6 DEF OnlyConsumes, Crash, TypeOK
<1> QED BY <1>1, <1>2, <1>3, <1>4, <1>5, <1>6, SearchRing DEF Next

(* Nor is one that runs, unless it leaves or crashes.                      *)
LEMMA UpStaysUp ==
  ASSUME JoinInv, JoinInv', SearchTypeOK, [SearchNext]_allVars, NEW n \in Node,
         process[n] = "up"
  PROVE  process'[n] = "up"
<1>0. TypeOK /\ process'[n] \in {"fresh", "up"} /\ \A p \in Node : JoinNode(p)
  BY DEF JoinInv, JoinNode
<1>1. ASSUME NEW p \in Node, UserStep(p) PROVE process'[n] # "fresh"
  BY <1>0, <1>1 DEF UserStep, CreateRing, Join, Leave, RingState, LookupAnything, Lookup,
                    Crash, TypeOK
<1>2. ASSUME NEW p \in Node,
             \/ TimerStep(p) \/ LeaveSuccessor(p) \/ Exit(p)
             \/ ReadFinger(p) \/ FindSuccessor(p) \/ Notify(p)
      PROVE  process'[n] # "fresh"
  <2>1. process' = process \/ Crash(p)
    BY <1>0, <1>2
    DEF TimerStep, FixFingers, Stabilize, LeaveSuccessor, Exit, ReadFinger,
        FindSuccessor, Notify, JoinNode, commandLine
  <2> QED BY <1>0, <2>1 DEF Crash, TypeOK
<1>3. ASSUME NEW m \in Messages, ProcessMessage(m.dst, m) \/ Unreachable(m)
      PROVE  process'[n] # "fresh"
  <2>1. process' = process \/ \E p : Crash(p)
    BY <1>3, HandlersOnlyCrash
  <2> QED BY <1>0, <2>1 DEF Crash, TypeOK
<1>4. CASE UNCHANGED vars
  BY <1>4 DEF vars, commandLine
<1>5. ASSUME NEW p \in Node, NEW id, NEW query, Lookup(p, id, query)
      PROVE  process'[n] # "fresh"
  BY <1>0, <1>5 DEF Lookup, Crash, TypeOK
<1>6. CASE OnlyConsumes
  BY <1>0, <1>6 DEF OnlyConsumes, Crash, TypeOK
<1> QED BY <1>0, <1>1, <1>2, <1>3, <1>4, <1>5, <1>6, SearchRing DEF Next

LEMMA JoinConsumes ==
  ASSUME JoinInv, OnlyConsumes, UNCHANGED process
  PROVE  JoinInv'
BY TypeConsumes
DEF OnlyConsumes, JoinInv, JoinNode, JoinMessage, Members, ring, flags, fingers, fixThread

LEMMA MembersStay ==
  ASSUME JoinInv, SearchTypeOK, [SearchNext]_allVars
  PROVE  Members \subseteq Members'
<1>1. CASE [Next]_vars
  BY <1>1, MembersGrow DEF Members
<1>2. CASE UNCHANGED flags
  BY <1>2 DEF flags, Members
<1> QED BY <1>1, <1>2, SearchRing DEF JoinInv, OnlyConsumes, Lookup

(* While nothing crashes, the ring under the index is one that only grows. *)
Joining == SearchInv /\ (NoCrash => JoinInv)

LEMMA JoiningNext ==
  ASSUME OnlyJoins, Joining, [SearchNext]_allVars
  PROVE  Joining'
<1>0. TypeOK /\ SearchTypeOK /\ SearchInv' /\ TypeOK'
  BY SearchInvNext, TypeSearchRing DEF Joining, SearchInv, RingOK, AddressInv
<1> SUFFICES ASSUME NoCrash' PROVE JoinInv'
  BY <1>0 DEF Joining
<1>1. JoinInv
  BY <1>0, CrashIsFinal DEF Joining, NoCrash
<1>2. CASE [Next]_vars
  BY <1>1, <1>2, JoinNext
<1>3. ASSUME NEW n \in Node, NEW t \in Term, NEW query \in Query,
             Lookup(n, TermHash[t], query)
      PROVE  JoinInv'
  <2> DEFINE next == ClosestPrecedingNode(n, TermHash[t])
  <2>1. next # Nil
    BY <1>0, <1>3 DEF Lookup, Crash, TypeOK, NoCrash
  <2>2. next \in Members
    <3>1. CASE n \in Members
      BY <1>1, <3>1, ClosestIsMember, TermHashType
    <3>2. CASE n \notin Members
      <4>1. JoinNode(n) /\ successor[n] = Nil /\ ~ isSingleton[n]
        BY <1>1, <3>2 DEF JoinInv, JoinNode, Members
      <4>2. PICK i \in Finger : next = fingerTable[n][i]
        <5> DEFINE S == {i \in Finger :
                   /\ fingerTable[n][i] # Nil
                   /\ FingerPrecedes(Hash[n], HashOf(fingerTable[n][i]), TermHash[t])}
        <5>1. S # {} /\ next = fingerTable[n][Max(S)]
          BY <2>1, <4>1 DEF ClosestPrecedingNode
        <5>2. Max(S) \in S
          <6>1. S \in SUBSET Finger
            OBVIOUS
          <6> HIDE DEF S
          <6> QED BY <5>1, <6>1, HighestFinger
        <5> QED BY <5>1, <5>2
      <4> HIDE DEF next
      <4> QED BY <2>1, <4>1, <4>2 DEF JoinNode
    <3> QED BY <3>1, <3>2
  <2> QED BY <1>0, <1>1, <1>3, <2>2, JoinLookup, TermHashType
<1>4. CASE OnlyConsumes
  <2>1. UNCHANGED process
    BY <1>0, <1>4 DEF OnlyConsumes, Crash, TypeOK, NoCrash
  <2> QED BY <1>1, <1>4, <2>1, JoinConsumes
<1> QED BY <1>0, <1>2, <1>3, <1>4, SearchRing

LEMMA BagRemoveKeeps ==
  ASSUME NEW B, NEW x
  PROVE  DOMAIN B \ {x} \subseteq DOMAIN BagOps!BagRemove(B, x)
BY DEF BagOps!BagRemove

(* A PUBLISH in flight goes nowhere but to its destination.                *)
LEMMA PublishTaken ==
  ASSUME [SearchNext]_allVars, NEW x \in SearchMessages, x \notin SearchMessages',
         x.type = "PUBLISH"
  PROVE  ProcessPublish(x.dst, x) \/ Ended(x.dst)
<1>1. ASSUME NEW m, Take(m) PROVE x = m
  BY <1>1, BagRemoveKeeps DEF Take, SearchMessages
<1>2. ASSUME NEW m, Ship(m) PROVE FALSE
  BY <1>2, ShipAdds
<1>3. ASSUME NEW M, ShipAll(M) PROVE FALSE
  BY <1>3, ShipAllAdds
<1>4. searchNetwork' # searchNetwork
  BY DEF SearchMessages
<1>5. ASSUME NEW m \in SearchMessages, ProcessNextReq(m.dst, m) PROVE x = m
  <2>1. CASE Take(m)
    BY <1>1, <2>1
  <2>2. ASSUME NEW r, searchNetwork' = BagOps!BagAdd(BagOps!BagRemove(searchNetwork, m), r)
        PROVE  x = m
    <3>1. SearchMessages' = DOMAIN BagOps!BagRemove(searchNetwork, m) \cup {r}
      BY <2>2, BagAddDomain DEF SearchMessages
    <3> QED BY <3>1, BagRemoveKeeps DEF SearchMessages
  <2> QED BY <1>5, <2>1, <2>2 DEF ProcessNextReq
<1>6. ASSUME NEW m \in SearchMessages,
             \/ ProcessPublish(m.dst, m) \/ ProcessInitialReq(m.dst, m)
             \/ ProcessNextReq(m.dst, m) \/ ProcessSearchRsp(m.dst, m)
             \/ SearchUnreachable(m)
      PROVE  ProcessPublish(x.dst, x) \/ Ended(x.dst)
  <2>1. x = m
    <3>1. Take(m) \/ ProcessNextReq(m.dst, m)
      BY <1>6 DEF ProcessPublish, ProcessInitialReq, ProcessSearchRsp, SearchUnreachable
    <3> QED BY <1>1, <1>5, <3>1
  <2>2. ProcessPublish(m.dst, m) \/ SearchUnreachable(m)
    BY <1>6, <2>1 DEF ProcessInitialReq, ProcessNextReq, ProcessSearchRsp, ReceiveSearch
  <2> QED BY <2>1, <2>2 DEF SearchUnreachable
<1>7. ASSUME NEW m \in Messages, NotifyRehashes(m.dst, m) \/ ProcessTermRsp(m.dst, m)
      PROVE  FALSE
  <2>1. ASSUME HandleRehashKeys(m.dst, m.src) PROVE FALSE
    BY <1>3, <2>1 DEF HandleRehashKeys
  <2>2. ASSUME HandleSearch(m.dst, m) \/ HandlePublish(m.dst, m) PROVE FALSE
    BY <1>2, <1>4, <2>2 DEF HandleSearch, HandlePublish
  <2> QED BY <1>4, <1>7, <2>1, <2>2 DEF NotifyRehashes, ProcessTermRsp, searchVars
<1>8. ASSUME NEW n \in Node,
             \/ ParsePublish(n) \/ FillInvertedLists(n) \/ PublishLookup(n)
             \/ ParseSearch(n) \/ SearchLookup(n) \/ LeaveWithFiles(n) \/ ExitSearch(n)
      PROVE  FALSE
  <2>1. ASSUME LeaveWithFiles(n) PROVE FALSE
    BY <1>3, <2>1 DEF LeaveWithFiles, TransferFiles
  <2>2. ASSUME ParseSearch(n) PROVE FALSE
    BY <1>2, <2>2 DEF ParseSearch
  <2> QED BY <1>4, <1>8, <2>1, <2>2
          DEF ParsePublish, FillInvertedLists, PublishLookup, SearchLookup, ExitSearch,
              searchVars
<1> QED BY <1>4, <1>6, <1>7, <1>8 DEF SearchNext, SearchStep, RingStep, searchVars, allVars

(* No document that n has for t is lost by the step: it stays, or it is    *)
(* sent to the node that n rehashes for.                                   *)
LEMMA ListKept ==
  ASSUME SearchInv, JoinInv, [SearchNext]_allVars, NEW n \in Node, NEW t \in Term,
         NEW d \in stored[n][t]
  PROVE  \/ d \in stored'[n][t]
         \/ \E x \in SearchMessages' :
              x.type = "PUBLISH" /\ x.term = t /\ d \in x.docs /\ x.dst \in Members
<1>0. TypeOK /\ SearchTypeOK /\ Lists(n, t) /\ ~ \E k \in Node : LeaveWithFiles(k)
  BY IndexSteps DEF IndexStep, SearchInv, JoinInv, JoinNode, LeaveWithFiles, Leave, Typed
<1>1. CASE ~ Moves
  BY <1>0, <1>1 DEF Lists
<1>2. ASSUME NEW m \in Messages, NotifyRehashes(m.dst, m), AcceptsNotify(m.dst, m.src)
      PROVE  \/ d \in stored'[n][t]
             \/ \E x \in SearchMessages' :
                  x.type = "PUBLISH" /\ x.term = t /\ d \in x.docs /\ x.dst \in Members
  <2> DEFINE k == m.dst
             p == m.src
             keeps(u) == KeepsKey(Hash[p], Hash[k], TermHash[u])
             M == UNION {{Publish(k, p, u, {e}) : e \in stored[k][u]} :
                           u \in {v \in Term : ~ keeps(v)}}
  <2>1. /\ k \in Node /\ p \in Members
        /\ HandleRehashKeys(k, p)
    <3>1. m.type = "NOTIFY" /\ HandleRehashKeys(k, p)
      BY <1>2 DEF NotifyRehashes, ProcessNotify, Receive
    <3> QED BY <1>0, <3>1 DEF TypeOK, Messages, Message, JoinInv, JoinMessage
  <2>2. SearchMessages' = SearchMessages \cup M
    BY <2>1, ShipAllAdds DEF HandleRehashKeys
  <2>3. CASE n # k \/ keeps(t)
    BY <1>0, <2>1, <2>3 DEF HandleRehashKeys, SearchTypeOK, File
  <2>4. CASE n = k /\ ~ keeps(t)
    <3>1. PICK x : x = Publish(k, p, t, {d})
      OBVIOUS
    <3>2. x \in {Publish(k, p, t, {e}) : e \in stored[k][t]}
      BY <2>4, <3>1
    <3>3. x \in M
      BY <2>4, <3>2
    <3>4. x.type = "PUBLISH" /\ x.term = t /\ x.docs = {d} /\ x.dst = p
      BY <3>1 DEF Publish
    <3> HIDE DEF M, p
    <3> QED BY <2>1, <2>2, <3>3, <3>4
  <2> QED BY <2>3, <2>4
<1> QED BY <1>0, <1>1, <1>2 DEF Moves

LEMMA HeldKept ==
  ASSUME OnlyJoins, Joining, [SearchNext]_allVars, NoCrash', NEW t \in Term
  PROVE  Held(t) \subseteq Held(t)'
<1>0. /\ TypeOK /\ SearchTypeOK /\ SearchInv /\ SearchInv' /\ JoinInv'
      /\ SearchTypeOK' /\ Joining'
  BY JoiningNext, SearchInvNext DEF Joining, SearchInv, RingOK, AddressInv
<1>1. JoinInv
  BY <1>0, CrashIsFinal DEF Joining, NoCrash
<1>2. ASSUME NEW n \in Node, process[n] = "up" PROVE process'[n] = "up"
  BY <1>0, <1>1, <1>2, UpStaysUp
<1>3. \A n \in Members : process[n] = "up"
  BY <1>1 DEF JoinInv, JoinNode, Members
<1> SUFFICES ASSUME NEW d \in Held(t) PROVE d \in Held(t)'
  OBVIOUS
<1> d \in Doc
  BY DEF Held
<1>4. ASSUME NEW n \in Node, process[n] = "up", d \in stored[n][t] PROVE d \in Held(t)'
  <2>1. CASE d \in stored'[n][t]
    BY <1>2, <1>4, <2>1 DEF Held
  <2>2. ASSUME NEW x \in SearchMessages', x.type = "PUBLISH", x.term = t,
               d \in x.docs, x.dst \in Members
        PROVE  d \in Held(t)'
    <3>1. process'[x.dst] = "up"
      BY <1>2, <1>3, <2>2 DEF Members
    <3> QED BY <2>2, <3>1 DEF Held
  <2> QED BY <1>0, <1>1, <1>4, <2>1, <2>2, ListKept
<1>5. ASSUME NEW x \in SearchMessages, x.type = "PUBLISH", x.term = t,
             process[x.dst] = "up", d \in x.docs
      PROVE  d \in Held(t)'
  <2>1. x.dst \in Node
    BY <1>0 DEF SearchTypeOK, SearchMessages, SearchMessage
  <2>2. process'[x.dst] = "up"
    BY <1>2, <1>5, <2>1
  <2>3. CASE x \in SearchMessages'
    BY <1>5, <2>2, <2>3 DEF Held
  <2>4. CASE ProcessPublish(x.dst, x)
    <3>1. stored'[x.dst][t] = stored[x.dst][t] \cup x.docs
      BY <1>0, <1>5, <2>1, <2>4 DEF ProcessPublish, Merged, SearchTypeOK, File
    <3> QED BY <1>5, <2>1, <2>2, <3>1 DEF Held
  <2> QED BY <1>5, <2>3, <2>4, PublishTaken DEF Ended
<1> QED BY <1>4, <1>5 DEF Held

LEMMA JoiningInit ==
  ASSUME OnlyJoins, Init, SearchInit
  PROVE  Joining
BY JoinInit, SearchInvInit DEF Joining

(* Every JOIN moves a part of the index to the newcomer, document by       *)
(* document, while others publish and search: as long as no process has    *)
(* crashed, no step loses any (HandleRehashKeys, penn-search.cpp:191).     *)
THEOREM JoinsLoseNoDocument ==
  ASSUME OnlyJoins
  PROVE  SearchSpec => [][NoCrash' => \A t \in Term : Held(t) \subseteq Held(t)']_allVars
<1>1. Init /\ SearchInit => Joining
  BY JoiningInit
<1>2. Joining /\ [SearchNext]_allVars => Joining'
  BY JoiningNext
<1>3. Joining /\ [SearchNext]_allVars =>
        [NoCrash' => \A t \in Term : Held(t) \subseteq Held(t)']_allVars
  BY HeldKept
<1> QED BY <1>1, <1>2, <1>3, PTL DEF SearchSpec

-----------------------------------------------------------------------------
(* The callbacks in a ring that grows.                                     *)

(* Users search from their own node, which has joined when they type.      *)
AskOwnNode == \A n \in Node : \A s \in Searches[n] : s.via = n

(* Whoever publishes, searches or is asked is in the ring.                 *)
JoinedIndex ==
  /\ JoinInv
  /\ \A n \in Node :
       reading[n] # None \/ toLookUp[n] # {} \/ searcher[n] # None => n \in Members
  /\ \A m \in SearchMessages : m.type = "SEARCH_REQ" => m.dst \in Members

JoinedCallbacks ==
  /\ CallbackInv /\ CrashNeedsOverlap
  /\ NoCrash => JoinedIndex

(* Such a step keeps the ring, or a callback finds nothing.                *)
LEMMA JoinedRing ==
  ASSUME OnlyJoins, JoinedIndex, CallbackInv, [SearchNext]_allVars
  PROVE  JoinInv' \/ \E p \in Node : Crash(p) /\ Overlapped(p)
<1>0. /\ TypeOK /\ SearchTypeOK /\ TypeOK' /\ JoinInv
      /\ \A p \in Node : JoinNode(p)
  BY TypeSearchRing DEF CallbackInv, SearchInv, RingOK, AddressInv, JoinedIndex, JoinInv
<1>1. CASE [Next]_vars
  BY <1>0, <1>1, JoinNext
<1>2. ASSUME NEW n \in Node, NEW t \in Term, NEW query \in Query,
             Lookup(n, TermHash[t], query), t \in toLookUp[n] \/ t = searcher[n]
      PROVE  JoinInv'
  <2>1. n \in Members
    BY <1>2, NoneIsNothing DEF JoinedIndex
  <2>2. ClosestPrecedingNode(n, TermHash[t]) \in Members
    BY <1>0, <2>1, ClosestIsMember, TermHashType
  <2> QED BY <1>0, <1>2, <2>2, JoinLookup, TermHashType
<1>3. CASE OnlyConsumes /\ UNCHANGED process
  BY <1>0, <1>3, JoinConsumes
<1>4. ASSUME OnlyConsumes, NEW m \in Messages, ProcessTermRsp(m.dst, m)
      PROVE  JoinInv' \/ \E p \in Node : Crash(p) /\ Overlapped(p)
  <2>1. m.successor # Nil
    BY <1>0, <1>4, NilIsNoNode
    DEF ProcessTermRsp, Receive, JoinInv, JoinMessage, Members
  <2> QED BY <1>0, <1>4, <2>1, TermRspCrash, JoinConsumes
<1>5. ASSUME NEW m \in SearchMessages, SearchUnreachable(m) PROVE FALSE
  <2>1. m.dst \in Node
    BY <1>0 DEF SearchTypeOK, SearchMessages, SearchMessage
  <2> QED BY <1>0, <1>5, <2>1 DEF SearchUnreachable, Ended, JoinNode
<1> QED BY <1>0, <1>1, <1>2, <1>3, <1>4, <1>5, SearchRing

LEMMA JoinedIndexNext ==
  ASSUME OnlyJoins, AskOwnNode, JoinedIndex, CallbackInv, [SearchNext]_allVars, JoinInv'
  PROVE  JoinedIndex'
<1>0. /\ TypeOK /\ SearchTypeOK /\ SearchInv /\ JoinInv /\ IndexStep
      /\ \A n \in Node : FilesStep(n)
  BY IndexSteps, FilesStepOf
  DEF CallbackInv, SearchInv, RingOK, AddressInv, JoinedIndex
<1>1. Members \subseteq Members'
  BY <1>0, MembersStay
<1>2. \A n \in Node : UserReady(n) => n \in Members
  BY DEF UserReady, OnlyJoins, Members
<1>3. ASSUME NEW n \in Node, reading'[n] # None \/ toLookUp'[n] # {} PROVE n \in Members
  BY <1>0, <1>2, <1>3 DEF FilesStep, JoinedIndex
<1>4. ASSUME NEW n \in Node, searcher'[n] # None PROVE n \in Members
  BY <1>0, <1>4, SearcherStep DEF JoinedIndex
<1>5. ASSUME NEW x \in SearchMessages', x.type = "SEARCH_REQ" PROVE x.dst \in Members
  <2>1. CASE x \in SearchMessages
    BY <1>5, <2>1 DEF JoinedIndex
  <2>2. CASE x \notin SearchMessages /\ SentInitial(x)
    BY <1>0, <1>2, <2>2 DEF SentInitial, AskOwnNode, SearchTypeOK
  <2>3. CASE x \notin SearchMessages /\ SentNext(x)
    <3>1. PICK m \in Messages :
            /\ m.type = "FIND_PRED_RSP"
            /\ x.dst = IF m.successor = Nil THEN m.dst ELSE m.successor
      BY <2>3 DEF SentNext
    <3> QED BY <1>0, <3>1, NilIsNoNode DEF JoinInv, JoinMessage, Members
  <2> QED BY <1>0, <1>5, <2>1, <2>2, <2>3 DEF IndexStep, Sent
<1> QED BY <1>1, <1>3, <1>4, <1>5 DEF JoinedIndex

LEMMA JoinedCallbacksNext ==
  ASSUME OnlyJoins, AskOwnNode, JoinedCallbacks, [SearchNext]_allVars
  PROVE  JoinedCallbacks'
<1>0. /\ CallbackInv /\ CallbackInv' /\ TypeOK /\ SearchTypeOK /\ CrashNeedsOverlap
      /\ NoCrash => JoinedIndex
  BY CallbackNext DEF JoinedCallbacks, CallbackInv, SearchInv, RingOK, AddressInv
<1>1. \A n \in Node : process[n] = "crashed" => process'[n] = "crashed"
  BY <1>0, CrashIsFinal
<1>2. ASSUME NEW p \in Node, process[p] = "crashed" \/ Crash(p), Overlapped(p)
      PROVE  CrashNeedsOverlap' /\ ~ NoCrash'
  <2>1. \E n \in Node : process'[n] = "crashed" /\ Overlapped(n)'
    BY <1>0, <1>1, <1>2, OverlapRemains
  <2> QED BY <2>1 DEF CrashNeedsOverlap, NoCrash
<1>3. CASE ~ NoCrash
  BY <1>0, <1>2, <1>3 DEF NoCrash, CrashNeedsOverlap, JoinedCallbacks
<1>4. CASE NoCrash /\ JoinInv'
  <2>1. JoinedIndex' /\ NoCrash'
    BY <1>0, <1>4, JoinedIndexNext DEF JoinInv, JoinNode, NoCrash
  <2> QED BY <1>0, <2>1 DEF JoinedCallbacks, CrashNeedsOverlap, NoCrash
<1> QED BY <1>0, <1>2, <1>3, <1>4, JoinedRing DEF JoinedCallbacks

LEMMA JoinedCallbacksInit ==
  ASSUME OnlyJoins, Init, SearchInit
  PROVE  JoinedCallbacks
<1>1. Messages = {} /\ SearchMessages = {}
  BY DEF Init, SearchInit, Messages, SearchMessages, EmptyBag, SetToBag
<1>2. \A n \in Node : process[n] = "fresh" /\ CallbackNode(n)
  BY DEF Init, SearchInit, CallbackNode
<1>3. JoinInv /\ SearchInv
  BY JoinInit, SearchInvInit
<1> QED BY <1>1, <1>2, <1>3
        DEF JoinedCallbacks, CallbackInv, CrashNeedsOverlap, JoinedIndex, SearchInit

(* Two settled nodes or more are as in a ring that grew by itself.         *)
LEMMA JoinedCallbacksRest ==
  ASSUME OnlyJoins, NEW S \in SUBSET Node, NEW p \in S, NEW q \in S, p # q,
         NEW index \in File, RestInit(S, index)
  PROVE  JoinedCallbacks
<1>0. SettledRing(S) /\ PublishedIndex(index)
  BY DEF RestInit
<1>1. /\ SearchInv /\ Members = S /\ Messages = {} /\ SearchMessages = {}
      /\ \A n \in S : /\ successor[n] = FirstAfter(Hash[n])
                      /\ predecessor[n] = LastBefore(Hash[n])
  BY RestInitIs
<1>2. ASSUME NEW n \in S
      PROVE  /\ successor[n] \in S \ {n} /\ predecessor[n] \in S \ {n}
             /\ successorIP[n] = successor[n]
  <2>1. PICK r \in S : r # n
    OBVIOUS
  <2>2. /\ n \in Node /\ r \in Node /\ Hash[n] \in Id /\ Hash[r] \in Id
        /\ Hash[n] # Hash[r]
    BY <2>1, HashType, DistinctHashes
  <2>3. /\ successor[n] \in S
        /\ Distance(Hash[n], Hash[successor[n]]) <= Distance(Hash[n], Hash[r])
    BY <1>1, <2>2, FirstAfterType
  <2>4. /\ predecessor[n] \in S
        /\ Distance(Hash[predecessor[n]], Hash[n]) <= Distance(Hash[r], Hash[n])
    BY <1>1, <2>2, LastBeforeType
  <2>5. /\ Distance(Hash[n], Hash[r]) < Distance(Hash[n], Hash[n])
        /\ Distance(Hash[r], Hash[n]) < Distance(Hash[n], Hash[n])
    BY <2>2, RingSizeType, DistanceType
  <2>6. \A x \in Id, y \in Id : Distance(x, y) \in Nat
    BY DistanceType, RingSizeType
  <2>7. successor[n] # n
    BY <2>2, <2>3, <2>5, <2>6
  <2>8. predecessor[n] # n
    BY <2>2, <2>4, <2>5, <2>6
  <2>9. successorIP[n] = successor[n]
    BY <1>0, <2>2 DEF SettledRing
  <2> QED BY <2>3, <2>4, <2>7, <2>8, <2>9
<1>3. ASSUME NEW n \in Node PROVE JoinNode(n)
  <2>1. /\ todo[n] = Commands[n] /\ inRing[n] = (n \in S)
        /\ process[n] = IF n \in S THEN "up" ELSE "fresh"
        /\ ~ tryingToJoin[n] /\ ~ isSingleton[n]
        /\ receiver[n] = "idle" /\ fixer[n] = "idle"
        /\ \A i \in Finger : fingerTable[n][i] = Nil
        /\ n \notin S => successor[n] = Nil /\ predecessor[n] = Nil
    <3>1. S # {n}
      OBVIOUS
    <3> QED BY <1>0, <3>1 DEF SettledRing
  <2>2. CASE n \in S
    BY <1>1, <1>2, <2>1, <2>2 DEF JoinNode, OnlyJoins
  <2>3. CASE n \notin S
    BY <1>1, <2>1, <2>3 DEF JoinNode, OnlyJoins
  <2> QED BY <2>2, <2>3
<1>4. JoinInv
  BY <1>1, <1>3 DEF JoinInv, SearchInv, RingOK, AddressInv
<1>5. \A n \in Node : CallbackNode(n)
  BY <1>0 DEF PublishedIndex, CallbackNode
<1>6. \A n \in Node : process[n] # "crashed"
  BY <1>0 DEF SettledRing
<1> QED BY <1>0, <1>1, <1>4, <1>5, <1>6
        DEF JoinedCallbacks, CallbackInv, CrashNeedsOverlap, JoinedIndex, PublishedIndex

(* While the ring grows from nothing, or from two nodes or more that have  *)
(* settled, and users search from their own nodes: a callback still finds  *)
(* what it looks for, except where publications and searches overlap, and  *)
(* nothing else ends a process.                                            *)
THEOREM GrowthNeedsOverlapToCrash ==
  ASSUME OnlyJoins, AskOwnNode
  PROVE  /\ SearchSpec => []CrashNeedsOverlap
         /\ \A S \in SUBSET Node, index \in File : \A p, q \in S :
              p # q /\ RestInit(S, index) /\ [][SearchNext]_allVars
                => []CrashNeedsOverlap
<1>1. JoinedCallbacks /\ [SearchNext]_allVars => JoinedCallbacks'
  BY JoinedCallbacksNext
<1>2. JoinedCallbacks => CrashNeedsOverlap
  BY DEF JoinedCallbacks
<1>3. JoinedCallbacks /\ [][SearchNext]_allVars => []CrashNeedsOverlap
  BY <1>1, <1>2, PTL
<1>4. Init /\ SearchInit => JoinedCallbacks
  BY JoinedCallbacksInit
<1>5. ASSUME NEW S \in SUBSET Node, NEW index \in File, NEW p \in S, NEW q \in S
      PROVE  p # q /\ RestInit(S, index) /\ [][SearchNext]_allVars
               => []CrashNeedsOverlap
  <2>1. p # q /\ RestInit(S, index) => JoinedCallbacks
    BY JoinedCallbacksRest
  <2> QED BY <1>3, <2>1, PTL
<1>6. SearchSpec => []CrashNeedsOverlap
  BY <1>3, <1>4, PTL DEF SearchSpec
<1> QED BY <1>5, <1>6

-----------------------------------------------------------------------------
(* Users who only publish, one file each.                                  *)

NobodySearches == \A n \in Node : Searches[n] = {}

OneFileEach == \A n \in Node : \A f, g \in Files[n] : f = g

(* No search is under way anywhere.                                        *)
NothingSought ==
  /\ \A n \in Node, t \in Term : queryMap[n][t] = None
  /\ \A m \in SearchMessages : m.type # "SEARCH_REQ"

LEMMA NothingSoughtNext ==
  ASSUME NobodySearches, SearchInv, NothingSought, [SearchNext]_allVars
  PROVE  NothingSought'
<1>1. IndexStep
  BY IndexSteps
<1>2. \A n \in Node : searchesLeft[n] = {}
  BY DEF NobodySearches, SearchInv, SearchTypeOK
<1>3. ASSUME NEW x \in SearchMessages' PROVE x.type # "SEARCH_REQ"
  BY <1>1, <1>2 DEF IndexStep, Sent, SentInitial, SentNext, NothingSought
<1>4. \A n \in Node, t \in Term : queryMap'[n][t] = queryMap[n][t]
  BY <1>1 DEF IndexStep, Noted, NothingSought
<1> QED BY <1>3, <1>4 DEF NothingSought

OnlyPublished == JoinedCallbacks /\ Joining /\ NothingSought

LEMMA OnlyPublishedCrash ==
  ASSUME OneFileEach, OnlyPublished
  PROVE  NoCrash
<1>1. \A n \in Node : ~ Overlapped(n)
  BY DEF OneFileEach, OnlyPublished, NothingSought, Overlapped
<1> QED BY <1>1 DEF OnlyPublished, JoinedCallbacks, CrashNeedsOverlap, NoCrash

LEMMA OnlyPublishedNext ==
  ASSUME OnlyJoins, NobodySearches, OnlyPublished, [SearchNext]_allVars
  PROVE  OnlyPublished'
<1>1. AskOwnNode
  BY DEF NobodySearches, AskOwnNode
<1> QED BY <1>1, JoinedCallbacksNext, JoiningNext, NothingSoughtNext
        DEF OnlyPublished, Joining

LEMMA OnlyPublishedStart ==
  ASSUME OnlyJoins,
         \/ Init /\ SearchInit
         \/ \E S \in SUBSET Node, index \in File : \E p, q \in S :
              p # q /\ RestInit(S, index)
  PROVE  OnlyPublished
<1>1. JoinedCallbacks
  BY JoinedCallbacksInit, JoinedCallbacksRest
<1>2. Joining
  BY <1>1 DEF JoinedCallbacks, CallbackInv, JoinedIndex, Joining
<1>3. queryMap = [n \in Node |-> [t \in Term |-> None]] /\ SearchMessages = {}
  BY DEF SearchInit, RestInit, PublishedIndex, SearchMessages, EmptyBag, SetToBag
<1> QED BY <1>1, <1>2, <1>3 DEF OnlyPublished, NothingSought

(* Users who each publish one file may JOIN, stabilise and publish in any  *)
(* order: no process ends, and no document is ever lost on its way to the  *)
(* owner of its term, whoever that is meanwhile.                           *)
THEOREM PublishingWhileJoiningIsSafe ==
  ASSUME OnlyJoins, NobodySearches, OneFileEach
  PROVE  /\ SearchSpec => []NoCrash /\ NoDocumentIsLost
         /\ \A S \in SUBSET Node, index \in File : \A p, q \in S :
              p # q /\ RestInit(S, index) /\ [][SearchNext]_allVars
                => []NoCrash /\ NoDocumentIsLost
<1>1. OnlyPublished /\ [SearchNext]_allVars => OnlyPublished'
  BY OnlyPublishedNext
<1>2. OnlyPublished => NoCrash
  BY OnlyPublishedCrash
<1>3. OnlyPublished /\ OnlyPublished' /\ [SearchNext]_allVars =>
        [~ Undermined' => \A t \in Term : Held(t) \subseteq Held(t)']_allVars
  <2>1. OnlyPublished' => NoCrash'
    BY DEF OneFileEach, OnlyPublished, NothingSought, Overlapped, JoinedCallbacks,
           CrashNeedsOverlap, NoCrash
  <2> QED BY <2>1, HeldKept DEF OnlyPublished
<1>4. OnlyPublished /\ [][SearchNext]_allVars => []NoCrash /\ NoDocumentIsLost
  BY <1>1, <1>2, <1>3, PTL DEF NoDocumentIsLost
<1>5. Init /\ SearchInit => OnlyPublished
  BY OnlyPublishedStart
<1>6. ASSUME NEW S \in SUBSET Node, NEW index \in File, NEW p \in S, NEW q \in S
      PROVE  p # q /\ RestInit(S, index) /\ [][SearchNext]_allVars
               => []NoCrash /\ NoDocumentIsLost
  <2>1. p # q /\ RestInit(S, index) => OnlyPublished
    BY OnlyPublishedStart
  <2> QED BY <1>4, <2>1, PTL
<1>7. SearchSpec => []NoCrash /\ NoDocumentIsLost
  BY <1>4, <1>5, PTL DEF SearchSpec
<1> QED BY <1>6, <1>7
=============================================================================

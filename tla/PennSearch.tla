------------------------------ MODULE PennSearch ------------------------------
(***************************************************************************)
(* The keyword index of src/src/penn-search.cpp on top of PennChord.  A    *)
(* node publishes the inverted lists of a file: it looks up the owner of   *)
(* each term and sends the list there.  A search travels from the owner of *)
(* one term to the owner of the next and keeps the documents that all of   *)
(* them list.                                                              *)
(*                                                                         *)
(* PennSearch runs on three threads of the process: the command line       *)
(* (ParsePublish, ParseSearch, and TransferFiles within Leave), PennChord's *)
(* receive thread (HandlePublish, HandleSearch, HandleRehashKeys) and one  *)
(* of its own (ProcessPublish, ProcessSearchReq, ProcessSearchRsp).        *)
(*                                                                         *)
(* Lists of documents are sets; each handler reads or writes stored in one *)
(* step.                                                                   *)
(***************************************************************************)
EXTENDS PennChord, SequencesExt

CONSTANTS
  Term, Doc,
  TermHash,      \* CreateShaKey of each term
  None,          \* no entry in a map, no file, no term
  Files,         \* what the user of each node is going to publish
  Searches       \* what the user of each node is going to search, and where

(* The documents a file lists for each term, {} for a term not in it.      *)
File == [Term -> SUBSET Doc]

ASSUME DistinctTerms ==
  /\ TermHash \in [Term -> Id]
  /\ \A t, u \in Term : TermHash[t] = TermHash[u] => t = u
ASSUME NoneIsNothing == None \notin Term \cup File
ASSUME SearchInput ==
  /\ Files \in [Node -> SUBSET File]
  /\ DOMAIN Searches = Node
  /\ \A n \in Node : \A s \in Searches[n] :
       s.via \in Node /\ s.terms \in Seq(Term) \ {<< >>}
ASSUME PatientUsers ==
  /\ \A n \in Node : "REJOIN" \notin Commands[n]
  /\ Impatient = {} /\ Keys = {}

VARIABLES
  filesLeft, searchesLeft,   \* what each user has yet to type
  reading,                   \* the file ParsePublish has open
  hashInvertedLists,         \* the lists being published
  toLookUp,                  \* the terms ParsePublish has yet to look up
  stored,                    \* m_storedFiles, the lists a node owns
  queryMap,                  \* the searches under way, by their next term
  makingSearchQuery,
  searcher,                  \* the term the receive thread is going to look up
  searchNetwork              \* the search messages in flight, a bag

typing     == <<filesLeft, searchesLeft>>
publishing == <<reading, hashInvertedLists, toLookUp>>
searching  == <<queryMap, makingSearchQuery, searcher>>
searchVars == <<typing, publishing, stored, searching, searchNetwork>>
allVars    == <<vars, searchVars>>

(* docs is empty before the first term.  The handlers look at docs, terms  *)
(* and origin; asked and known, all terms and what the index held for them *)
(* when the search was typed, are there for the properties.                *)
SearchQuery == [docs : SUBSET Doc, terms : Seq(Term), origin : Node,
                asked : SUBSET Term, known : SUBSET Doc]

ASSUME NoneIsNoQuery == None \notin SearchQuery

SearchMessage ==
       [type : {"PUBLISH"}, src : Node, dst : Node, term : Term, docs : SUBSET Doc]
  \cup [type : {"SEARCH_REQ"}, src : Node, dst : Node, query : SearchQuery,
        initialReq : BOOLEAN]
  \cup [type : {"SEARCH_RSP"}, src : Node, dst : Node, query : SearchQuery]

SearchTypeOK ==
  /\ filesLeft         \in [Node -> SUBSET File]
  /\ \A n \in Node : searchesLeft[n] \subseteq Searches[n]
  /\ reading           \in [Node -> File \cup {None}]
  /\ hashInvertedLists \in [Node -> File]
  /\ toLookUp          \in [Node -> SUBSET Term]
  /\ stored            \in [Node -> File]
  /\ queryMap          \in [Node -> [Term -> SearchQuery \cup {None}]]
  /\ makingSearchQuery \in [Node -> BOOLEAN]
  /\ searcher          \in [Node -> Term \cup {None}]
  /\ DOMAIN searchNetwork \subseteq SearchMessage

NoLists == [t \in Term |-> {}]

SearchInit ==
  /\ filesLeft = Files /\ searchesLeft = Searches
  /\ reading = [n \in Node |-> None]
  /\ hashInvertedLists = [n \in Node |-> NoLists]
  /\ toLookUp = [n \in Node |-> {}]
  /\ stored = [n \in Node |-> NoLists]
  /\ queryMap = [n \in Node |-> [t \in Term |-> None]]
  /\ makingSearchQuery = [n \in Node |-> FALSE]
  /\ searcher = [n \in Node |-> None]
  /\ searchNetwork = EmptyBag

-----------------------------------------------------------------------------
SearchMessages == DOMAIN searchNetwork
ShipAll(M) == searchNetwork' = searchNetwork (+) SetToBag(M)
Ship(m) == searchNetwork' = BagOps!BagAdd(searchNetwork, m)
Take(m) == searchNetwork' = BagOps!BagRemove(searchNetwork, m)

Publish(p, n, t, docs) ==
  [type |-> "PUBLISH", src |-> p, dst |-> n, term |-> t, docs |-> docs]

TermOf(id) == CHOOSE t \in Term : TermHash[t] = id

(* The documents some node lists for every one of the terms.               *)
Known(terms) ==
  {d \in Doc : \A t \in terms : \E n \in Node : d \in stored[n][t]}

(* Mutant: every lookup is one for a PUBLISH.                              *)
LookupForPublish(n, t) == Lookup(n, TermHash[t], "publish")

(* PennChord::Lookup takes the kind of the lookup from a flag of the       *)
(* process that both callers share.                                        *)
LookupTerm(n, t) ==
  Lookup(n, TermHash[t], IF makingSearchQuery[n] THEN "search" ELSE "publish")

-----------------------------------------------------------------------------
(* CommandLine thread.                                                     *)

AtPrompt(n) == reading[n] = None /\ toLookUp[n] = {}

UserTypes(n) == process[n] = "up" /\ UserReady(n) /\ AtPrompt(n)

(* The lists of the last PUBLISH are dropped before the file is read.      *)
ParsePublish(n) ==
  /\ UserTypes(n)
  /\ \E f \in filesLeft[n] :
       /\ filesLeft' = [filesLeft EXCEPT ![n] = @ \ {f}]
       /\ reading' = [reading EXCEPT ![n] = f]
  /\ hashInvertedLists' = [hashInvertedLists EXCEPT ![n] = NoLists]
  /\ UNCHANGED <<vars, searchesLeft, toLookUp, stored, searching, searchNetwork>>

FillInvertedLists(n) ==
  /\ Running(n) /\ reading[n] # None
  /\ hashInvertedLists' = [hashInvertedLists EXCEPT ![n] = reading[n]]
  /\ toLookUp' = [toLookUp EXCEPT ![n] = {t \in Term : reading[n][t] # {}}]
  /\ reading' = [reading EXCEPT ![n] = None]
  /\ UNCHANGED <<vars, typing, stored, searching, searchNetwork>>

PublishLookup(n) ==
  /\ Running(n)
  /\ \E t \in toLookUp[n] :
       /\ LookupTerm(n, t)
       /\ toLookUp' = [toLookUp EXCEPT ![n] = @ \ {t}]
  /\ UNCHANGED <<typing, reading, hashInvertedLists, stored, searching,
                 searchNetwork>>

ParseSearch(n) ==
  /\ UserTypes(n)
  /\ \E s \in searchesLeft[n] :
       /\ searchesLeft' = [searchesLeft EXCEPT ![n] = @ \ {s}]
       /\ Ship([type |-> "SEARCH_REQ", src |-> n, dst |-> s.via,
                initialReq |-> TRUE,
                query |-> [docs |-> {}, terms |-> s.terms, origin |-> n,
                           asked |-> ToSet(s.terms), known |-> Known(ToSet(s.terms))]])
  /\ UNCHANGED <<vars, filesLeft, publishing, stored, searching>>

(* Mutants: the lists go to the predecessor; they stay where they are.     *)
HeirBefore(n) == predecessor[n]
HeirSelf(n)   == n

Heir(n) == successor[n]

(* Leave starts with the callback m_leaveFn: all lists go to the successor. *)
TransferFiles(n) ==
  /\ ShipAll({Publish(n, Heir(n), t, stored[n][t]) :
                t \in {u \in Term : stored[n][u] # {}}})
  /\ stored' = [stored EXCEPT ![n] = NoLists]
  /\ UNCHANGED <<typing, publishing, searching>>

LeaveWithFiles(n) == AtPrompt(n) /\ Leave(n) /\ TransferFiles(n)

-----------------------------------------------------------------------------
(* PennChord's receive thread.                                             *)

(* The new predecessor p gets what is not n's any more, a document a time. *)
HandleRehashKeys(n, p) ==
  LET keeps(t) == KeepsKey(Hash[p], Hash[n], TermHash[t]) IN
  /\ ShipAll(UNION {{Publish(n, p, t, {d}) : d \in stored[n][t]} :
                       t \in {u \in Term : ~ keeps(u)}})
  /\ stored' = [stored EXCEPT
                  ![n] = [t \in Term |-> IF keeps(t) THEN @[t] ELSE {}]]
  /\ UNCHANGED <<typing, publishing, searching>>

NotifyRehashes(n, m) ==
  /\ ProcessNotify(n, m)
  /\ IF AcceptsNotify(n, m.src) THEN HandleRehashKeys(n, m.src)
                                ELSE UNCHANGED searchVars

(* queryMap.at throws if nothing was searched under that hash.             *)
HandleSearch(n, m) ==
  LET q == queryMap[n][TermOf(m.target)] IN
  /\ m.query = "search"
  /\ IF q = None THEN Crash(n) /\ UNCHANGED searchNetwork
     ELSE /\ Ship([type |-> "SEARCH_REQ", src |-> n, query |-> q,
                   dst |-> IF m.successor = Nil THEN n ELSE m.successor,
                   initialReq |-> FALSE])
          /\ UNCHANGED process

(* Mutant: the list goes to the node that answered.                        *)
TargetAnswerer(m) == m.src

Target(m) == m.successor

(* hashInvertedLists.at throws if the term is not being published.         *)
HandlePublish(n, m) ==
  LET t == TermOf(m.target) IN
  /\ m.query = "publish"
  /\ IF hashInvertedLists[n][t] = {} \/ Target(m) = Nil
     THEN Crash(n) /\ UNCHANGED searchNetwork
     ELSE /\ Ship(Publish(n, Target(m), t, hashInvertedLists[n][t]))
          /\ UNCHANGED process

ProcessTermRsp(n, m) ==
  /\ Receive(n, m, "FIND_PRED_RSP")
  /\ HandleSearch(n, m) \/ HandlePublish(n, m)
  /\ Consume(m)
  /\ UNCHANGED <<todo, ring, flags, fingers, fixThread, receiver, typing,
                 publishing, stored, searching>>

-----------------------------------------------------------------------------
(* PennSearch's receive thread.                                            *)

ReceiveSearch(n, m, type) ==
  /\ Running(n) /\ searcher[n] = None
  /\ m.type = type /\ m.dst = n

(* Mutants: the list that arrives replaces the list that is there; it is   *)
(* kept only if there is none; it is not taken apart.                      *)
Replaced(listed, docs)    == docs
KeptIfNew(listed, docs)   == IF listed = {} THEN docs ELSE listed
MergedAsOne(listed, docs) == listed \cup {docs}

Merged(listed, docs) == listed \cup docs

ProcessPublish(n, m) ==
  /\ ReceiveSearch(n, m, "PUBLISH")
  /\ stored' = [stored EXCEPT ![n][m.term] = Merged(@, m.docs)]
  /\ Take(m)
  /\ UNCHANGED <<vars, typing, publishing, searching>>

(* Remember the search under its next term and look that up.  The flag is  *)
(* cleared after Lookup returns, here in the same step as the lookup.      *)
StartLookup(n, q) ==
  /\ queryMap' = [queryMap EXCEPT ![n][Head(q.terms)] = q]
  /\ makingSearchQuery' = [makingSearchQuery EXCEPT ![n] = TRUE]
  /\ searcher' = [searcher EXCEPT ![n] = Head(q.terms)]

SearchLookup(n) ==
  /\ Running(n) /\ searcher[n] # None
  /\ LookupTerm(n, searcher[n])
  /\ makingSearchQuery' = [makingSearchQuery EXCEPT ![n] = FALSE]
  /\ searcher' = [searcher EXCEPT ![n] = None]
  /\ UNCHANGED <<typing, publishing, stored, queryMap, searchNetwork>>

(* "this is initial request to node in ring"                               *)
ProcessInitialReq(n, m) ==
  /\ ReceiveSearch(n, m, "SEARCH_REQ") /\ m.initialReq
  /\ StartLookup(n, m.query)
  /\ Take(m)
  /\ UNCHANGED <<vars, typing, publishing, stored>>

(* Mutant: the first term is no exception.                                 *)
NarrowedAlways(found, listed) == found \cap listed

(* The documents found so far that the node lists as well; no document     *)
(* found so far means that this is the first term.                         *)
Narrowed(found, listed) == IF found = {} THEN listed ELSE found \cap listed

(* Mutant: the answer stays at the last node of the search.                *)
AnswerHere(n, q) == [type |-> "SEARCH_RSP", src |-> n, dst |-> n, query |-> q]

Answer(n, q) == [type |-> "SEARCH_RSP", src |-> n, dst |-> q.origin, query |-> q]

(* "current termToLook for should be here"                                 *)
ProcessNextReq(n, m) ==
  /\ ReceiveSearch(n, m, "SEARCH_REQ") /\ ~ m.initialReq
  /\ LET q    == m.query
         docs == Narrowed(q.docs, stored[n][Head(q.terms)])
         now  == [q EXCEPT !.docs = docs, !.terms = Tail(@)]
     IN IF docs = {} \/ now.terms = << >>
        THEN /\ searchNetwork' = BagOps!BagAdd(BagOps!BagRemove(searchNetwork, m), Answer(n, now))
             /\ UNCHANGED searching
        ELSE StartLookup(n, now) /\ Take(m)
  /\ UNCHANGED <<vars, typing, publishing, stored>>

(* The result is printed.                                                  *)
ProcessSearchRsp(n, m) ==
  /\ ReceiveSearch(n, m, "SEARCH_RSP")
  /\ Take(m)
  /\ UNCHANGED <<vars, typing, publishing, stored, searching>>

(* As Unreachable of PennChord.                                            *)
SearchUnreachable(m) ==
  /\ Ended(m.dst)
  /\ Take(m)
  /\ \/ Running(m.src) /\ Crash(m.src)
     \/ (process[m.dst] = "crashed" \/ ~ Running(m.src)) /\ UNCHANGED process
  /\ UNCHANGED <<todo, ring, flags, fingers, fixThread, receiver, network,
                 typing, publishing, stored, searching>>

(* The seven seconds of Exit are enough for the search messages as well.   *)
ExitSearch(n) ==
  /\ Exit(n)
  /\ searcher[n] = None
  /\ \A m \in SearchMessages : n \notin {m.src, m.dst}
  /\ UNCHANGED searchVars

-----------------------------------------------------------------------------
(* The steps of PennChord that call no callback.                           *)
RingStep ==
  /\ \/ \E n \in Node :
          \/ AtPrompt(n) /\ (CreateRing(n) \/ RingState(n) \/ \E c \in Node : Join(n, c))
          \/ TimerStep(n) \/ LeaveSuccessor(n)
          \/ ReadFinger(n) \/ FindSuccessor(n) \/ Notify(n)
     \/ \E m \in Messages :
          \/ /\ m.type = "FIND_PRED_RSP" => m.query = "none"
             /\ m.type # "NOTIFY"
             /\ ProcessMessage(m.dst, m)
          \/ Unreachable(m)
  /\ UNCHANGED searchVars

SearchStep ==
  \/ \E n \in Node :
       \/ ParsePublish(n) \/ FillInvertedLists(n) \/ PublishLookup(n)
       \/ ParseSearch(n) \/ SearchLookup(n)
       \/ LeaveWithFiles(n) \/ ExitSearch(n)
  \/ \E m \in Messages : NotifyRehashes(m.dst, m) \/ ProcessTermRsp(m.dst, m)
  \/ \E m \in SearchMessages :
       \/ ProcessPublish(m.dst, m) \/ ProcessInitialReq(m.dst, m)
       \/ ProcessNextReq(m.dst, m) \/ ProcessSearchRsp(m.dst, m)
       \/ SearchUnreachable(m)

SearchNext == RingStep \/ SearchStep

SearchSpec == Init /\ SearchInit /\ [][SearchNext]_allVars

(* The threads run, and the backlog of PennSearch's port is served in      *)
(* order, as that of PennChord's.                                          *)
SearchFairness ==
  /\ Fairness
  /\ \A n \in Node :
       /\ WF_allVars(FillInvertedLists(n) \/ PublishLookup(n))
       /\ WF_allVars(SearchLookup(n))
  /\ \A p, n \in Node, type \in {"PUBLISH", "SEARCH_REQ", "SEARCH_RSP"} :
       []<> ~ \E m \in SearchMessages : m.type = type /\ m.src = p /\ m.dst = n
=============================================================================

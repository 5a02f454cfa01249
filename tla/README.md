# A TLA+ model of the PennChord ring

This directory holds TLA+ modules for the Chord ring and the keyword search of
this repository, TLC configurations that check them on small instances, and
theorems that TLAPS checks for every value of the constants.

Contents: [Inventory](#inventory) ·
[Plan](#plan) ·
[Modules](#modules) ·
[Model and code](#model-and-code) ·
[Runs](#runs) ·
[Fairness](#fairness) ·
[Proofs](#proofs) ·
[Where the code and its comments differ](#where-the-code-and-its-comments-differ) ·
[Not modelled](#not-modelled)

## Inventory

A process is one node. `main.cpp` holds the table of node numbers and addresses
and starts `PennChord` (the ring), which starts `PennSearch` (a keyword index
spread over the ring) on top of itself.

| Component | State | Operations |
|---|---|---|
| **Identifier circle** (`penn-key-helper.h`; comparisons in `penn-chord.cpp` and `penn-search.cpp`) | none | `CreateShaKey` (the first 32 bits of SHA-1); five tests "does x lie between y and z on the circle"; the start of a finger |
| **PennChord** (`penn-chord.cpp/.h`) | successor and predecessor, each as number, hash and address; `isSingleton`, `inRing`, `tryingToJoin`, `haveNotifiedOnce`; the finger table with `fixingFingers` and `nextFinger`; hop counters; `makingSearchQuery` | commands `CreateRing`, `Join`, `RingState`, `Leave` and then `exit(0)`; periodic `Stabilize` (1 s) and `FixFingers` (0.1 s); handlers of eight messages; `Lookup` for PennSearch |
| **Chord messages** (`penn-chord-message.cpp/.h`) | one message | `Serialize`, `Deserialize`, text fields behind length fields |
| **PennSearch** (`penn-search.cpp/.h`) | `invertedLists`, `hashInvertedLists` (what is being published); `m_storedFiles` (what the node owns); `queryMap` (searches in progress by the hash of their next term) | commands `PUBLISH`, `SEARCH`; three messages; four callbacks from PennChord: `HandlePublish`, `HandleSearch`, `TransferFiles`, `HandleRehashKeys` |
| **Search messages** (`penn-search-message.cpp/.h`) | one message | `Serialize`, `Deserialize` |
| **Transmission** (`transmit.cpp`) | none | `sendTo`: one TCP connection per message; `exit(1)` if it cannot connect |
| **BufferV2** (`BufferV2.cpp`) | 100 bytes and how many are in use | `Write` at the end, `Read` from the front; a `perror` and nothing else where there is no room, or too little left |
| **Thread pool** (`thread_pool.cpp`) | a queue of jobs; of each worker a mutex, a condition variable, an indicator and the job assigned to it | `add_job`; `assign_job`, ten times a second on a thread of its own; the loop of the workers; construction and destruction. The receive threads do not use it so far |
| **Application base, addresses** (`penn-application.cpp`, `ipv4.hpp`) | the maps from number to address and back | lookups in both |
| **Start-up, logging** | verbosity flags | output |

**How they interact.** A process runs five threads: the command line, Stabilize,
FixFingers, the receive thread of PennChord and that of PennSearch. The first
four share one `PennChord` object under one mutex. PennChord releases it before
it sends; the callbacks it makes into PennSearch run, and send, while it is held.
Nodes interact by messages only: each message has a connection of its own, one
`send` at one end and one `read` at the other. PennSearch calls
`PennChord::Lookup` directly, with no return value; the answer arrives as a
callback on PennChord's receive thread, which sends a search message.

**What is hard here.**

- *Interleaving.* Handlers, timers and commands interleave between their
  critical sections; a guard is tested before the unlock, the message it guards
  is sent after it (`Stabilize`), and `FixFingers` reads `nextFinger` with no
  lock at all.
- *Ordering.* Every message has a connection of its own, so messages overtake
  each other; a response carries nothing that says what it answers. Flags of
  the receiver decide what it is taken for.
- *Failure.* A `map.at` of a name nobody has, `stoul("")` and a refused
  connection all end the process. There is no detection of failed nodes: a
  process that still names a node that left dies at its next connect.
- *Waiting.* The thread pool signals after it has unlocked, its workers wait
  without a loop, and its assigner tests the queue once for several workers.
- *Timing.* The process that leaves stays for seven seconds, so that others can
  "realize the leave".
- *Boundaries.* All of it on a circle that wraps, with "-1" standing for "no
  node" and the hash of "-1" being the last identifier.

**What makes each part correct.**

- The circle: each test is the arc it is meant to be; every identifier has
  exactly one owner.
- The ring: joins never split it, never make it skip back, never expose a
  half-joined node; it settles on the true neighbours; a LEAVE is closed over by
  the two neighbours; a process only ends by its own `exit(0)`.
- Lookups: each gets closer, is answered, and in a settled ring is answered with
  the owner; fingers end up where they belong.
- The index: what was published is found at the owner of its term, survives
  joins and leaves, and a search returns the documents that have all terms.
- Messages: what was written is read, whatever did not fit the buffer around it.
- The thread pool: a job that was added is run, once and by one worker.

The hazards behind these, line by line, are in `PROJECT.json`.

## Plan

The ring comes first: everything else stands on it, and its interleavings are
what a test hardly reaches. Done, in this order:

1. `ChordKeys`, the comparisons on the circle, proved to be arcs for every width.
2. `PennChord`, the whole ring protocol: joins, lookups and fingers, leaves,
   exits and crashes. Types, lookups, the addresses, the ring that only grows,
   one and ordered, and what brings a process down once nodes leave, are proved.
3. `PennSearch`, the index, composed with the ring: searches, publications during
   a JOIN, two publications at once, leaves of several nodes that hold lists.
   Proved: types, where answers come from, exact searches in a settled ring, no
   crash without overlapping uses of a node, no document lost while nodes join.
4. `GrowingRing`, the ring without messages and threads. That `PennChord`
   implements it while nodes join is checked and proved.
5. `WireFormat`, a message between `Serialize` and `Deserialize`, checked and
   proved.
6. `ThreadPool`, checked and proved.

Left, most important first:

7. *More proofs.* An inductive invariant of the index while nodes leave, for
   `NoDocumentIsLost` without `OnlyJoins`.
8. *An abstract index*, a relation between terms and documents that publishing
   extends, and `PennSearch` shown to implement it.

## Modules

| Module | Extends | What it is |
|---|---|---|
| `ChordKeys` | | the five comparisons as the source writes them, finger starts, and the arcs they are meant to be |
| `GrowingRing` | `ChordKeys` | the abstract ring: two pointers per member, one step per join and per improvement |
| `PennChord` | `ChordKeys` | a node's variables, one action per critical section of each thread and per handler, the network, the fairness |
| `PennChordProperties` | `PennChord` | the ring at rest from which some runs start; invariants, action properties, liveness, the refinement, the inductive invariants `JoinInv`, `RingInv` and `LinkedInv`, the refuted promise |
| `PennSearch` | `PennChord` | the index; the specification of both together |
| `PennSearchProperties` | `PennSearch`, `PennChordProperties` | what the index promises, and the index at rest from which some promises start |
| `WireFormat` | | one message from `sendTo` to the receive thread, through two buffers |
| `ThreadPool` | | the pool's queue, assigner and workers, what they promise, and the inductive invariant `PoolInv` |
| `MCPennChord`, `MCPennSearch` | the above | instances for TLC: nodes, hashes, what users type, settled starting states |
| `ChordKeysProofs` | `ChordKeys` | the comparisons are arcs and fingers start ahead, for every width; least elements of sets of naturals |
| `PennChordProofs` | `PennChordProperties`, `ChordKeysProofs` | types; forwarded lookups get closer |
| `PennJoinProofs` | `PennChordProofs` | the ring that only grows; `PennChord` implements `GrowingRing` |
| `PennRingProofs` | `PennJoinProofs` | one ordered ring while it grows; lookups in a settled ring |
| `PennLeaveProofs` | `PennChordProofs` | with leaves: numbers and addresses; what brings a process down |
| `PennSearchProofs` | `PennSearchProperties`, `PennRingProofs`, `PennLeaveProofs` | the index: types, published documents, exact searches, crashes, lists that move |
| `WireFormatProofs` | `WireFormat` | what is read of a message is what was written |
| `ThreadPoolProofs` | `ThreadPool` | the safety of the pool |

Definitions whose comment starts with "Mutant:" are plausible errors in the
operator that follows them. No specification uses them; substituted for that
operator they make a property fail, which shows that the property depends on it.

## Model and code

**State.** `successor[n]` stands for `successorNumber` and `successorHash`, which
are always assigned together; `HashOf` gives the hash, and `NilHash` is what
"-1" is in a `uint32_t`. The address `successorIP` is kept apart, since
handlers send to it and it could disagree with the number (`AddressesAgree`).
The same holds for the predecessor. `isSingleton`, `inRing`, `tryingToJoin`,
`haveNotifiedOnce`, `fixingFingers`, `fingerTable` and `nextFinger` have the
names of the code. `stored` is `m_storedFiles`, lists as sets. What is not in
the code: `process`, the life of the operating-system process; `fixer`,
`receiver`, `searcher`, `reading` and `toLookUp`, the program counters of
threads between two critical sections; `network` and `searchNetwork`; `todo`,
`filesLeft` and `searchesLeft`, what users have yet to type.

**Threads.** One action is one critical section and the sends that follow it.
Where a thread locks twice, or reads without the lock, there are several:

| Code | Actions |
|---|---|
| `FixFingers` (:328) | `FixFingers`, then `ReadFinger` (`nextFinger` outside the lock), then `FindSuccessor` |
| `ProcessStabilizeRsp` (:398) | `ProcessStabilizeRsp`, then `Notify` |
| `Leave` (:697) and `exit(0)` (:257) | `LeaveWithFiles` (the callback and LEAVE_P), `LeaveSuccessor` (LEAVE_S), `Exit` |
| `ProcessFindPredRsp` (:483) | one disjunct for each thing a response may be taken for |
| PUBLISH (`penn-search.cpp`) | `ParsePublish`, `FillInvertedLists`, `PublishLookup` for each term, `HandlePublish` for each answer, `ProcessPublish` at the owner |
| SEARCH | `ParseSearch`, `ProcessInitialReq`, `SearchLookup`, `HandleSearch`, `ProcessNextReq` at each owner, `ProcessSearchRsp` |
| `HandleRehashKeys` (called by `ProcessNotify`) | `NotifyRehashes`, both in one step on the receive thread |

**Messages.** Both networks are bags: a message arrives once, at any time after
it is sent, and overtakes any other. That covers the gap between unlock and
`connect` and the order in which connections are accepted. For messages of one
thread to one node it allows more orders than TCP and the listen backlog do, so
safety results hold for the code, and a counterexample has to be read with that
in mind; those reported below need no such reordering.

**Failures.** A node that names "-1" as an address, or calls `at` with a key a
map does not have, crashes (`Crash`). A message to a process that has ended
makes its sender `exit(1)` (`Unreachable`, `SearchUnreachable`), unless it was
accepted before the end. `sendTo` to 0.0.0.0 reaches the sender (`HostAt`).

**Time.** Seven seconds between LEAVE and `exit(0)` are modelled as long enough
to deliver whatever is in flight and concerns the node (`Concerns`), which is
the most favourable reading of that sleep: what still goes wrong is not a matter
of a slow network.

**Users.** A user types each command of `Commands` at most once, in any order
and at any time the process allows; `REJOIN` is JOIN typed again, of another node
or of one's own number, which founds a ring anew (`CreateRing`). The code reads
commands at any time. `UserReady` is an assumption about users: they go on once
their node is in a ring, except those in `Impatient`, who type whatever they like
before. That the node has no predecessor yet, or is alone, keeps nobody from
typing LEAVE.

**Fields for properties only.** The `target` of a response that is no search
answer, and `asked` and `known` of a search, are read by no action.

**Undefined and uninitialised.** `currHash + pow(2, i)` above 2^32 - 1 is
converted from `double` with undefined behaviour; `FingerStarts` has the outcome
of both common builds. Fields before the first JOIN are uninitialised; no
action reads them, which `OnlyMembersAreKnown` confirms.

**The wire.** In `PennChord` and `PennSearch` a message is a record of the fields
its handler reads. `WireFormat` is the other half: the fields are texts of some
length, and what matters is which bytes are written, dropped and read. The eight
chord messages and PUBLISH have one text, SEARCH_RSP two, SEARCH_REQ four, each
behind its length; `message` is the lengths. `Written`, `ReadFrom` and `LeftIn`
are `Write` and `Read` of `BufferV2` with their overflow and underflow branches,
`sendTo` serialises and sends, `Receive` reads into the second buffer, and
`DeserializeHeader` and `DeserializeText` are `Deserialize`, a text at a time. A
length is a `uint16_t`: a longer text arrives with its length modulo `LengthLimit`. A
byte is named by the field it belongs to and its place there, so the
properties can say of every byte read where it comes from. Destinations that a
failed `Read` leaves alone hold what they held before (`ReadFrom`): a length on
the stack any value (`LengthsRead`, `DeserializeHeader`); the memory of a text,
allocated right after that of the text before was freed
(`penn-search-message.cpp:224-240`), noise or a text read before
(`DeserializeText`). So nothing is promised of a text that was dropped.
`ReceiveNothing` is a sender that ended between `connect` and `send`: `read`
returns 0, which the receive threads do not tell from a message.

**The thread pool.** One action is one critical section of a worker's mutex, on
the side of the assigner (`Assign`) or of the worker (`AwaitJob`,
`ExecuteAfterWait`, `Finish`); `assign_job` holds the queue's lock throughout, so
`add_job` happens only between two calls. `Signal` is a step of its own, since it
comes after the unlock, and is lost where nobody waits. `SpuriousWakeup` is what
POSIX allows a wait to do. No file instantiates `ThreadPool<T>`, so the model is
of the template. `Empty` and `Fronts` are what a `std::queue` over a `std::deque`
makes of `empty()` and `front()` once it has been popped when empty: the ends have
passed each other, and the slot read holds nothing, or any job added before.
`started`, `repeated`, `misled` and `underflowed` record what happened; no action
reads them but to add to them.

**Bounds.** `MaxExchanges` limits a node's stabilisations in flight and
`MaxLookups` its queries in flight. They are guards of timers and commands that
the code does not have: `FixFingers` (:328) sends a query every 0.1 s whatever is
outstanding. They limit how far timers run ahead of the network, not how often
they run. What one query at a time hides is that with two outstanding a response
is stored under the next finger's index (:532). Properties that this would break
are `FingersSettle`, which says that it is about one query at a time, and
`LookupsAreAnswered`, which counts queries; the others are proved for any
`MaxLookups` and any `MaxExchanges`: `LookupsGetCloser`, `JoinsKeepInvariant`,
`SettledLookupsFindOwner`, `CrashesHaveCauses`.
`MaxJobs` and `MaxPops` bound the jobs added and popped, `TextLengths` is how long
texts may be, and `MaxGarbage` bounds a length that was never written.

## Runs

Nodes have hashes a = 3, b = 5, c = 7, d = 1 on a circle of eight identifiers
(three bits) unless stated otherwise: the founder a has neighbours on both sides
of the wrap, and c has the hash of "-1", the value that is special to the code.

| Run | Instance | Question | States |
|---|---|---|---|
| `join` | a founds; b, c join, b walks the ring; 2 exchanges per node | Is the ring safe when stabilisations of one node overtake each other? | 1,228,257 |
| `converge` | b, c, d join at once; 1 exchange | Is it one ordered ring with four nodes, does it settle, and does it implement `GrowingRing`? | 137,103 |
| `fingers` | 3 nodes join, 2 bits, b fixes its fingers | Do lookups get closer, find the owner, and end; do the fingers get right? Is `JoinInv` invariant? | 125,060 |
| `users` | 2 nodes, 2 bits, LEAVE of the founder (alone or not), an impatient user, a second JOIN, fingers | Do types hold whatever users do, and does each crash have a known cause? | 2,321,608 |
| `leave` | a, b settled, both leave, c joins, stabilisations go on | Does each crash have a known cause, and is there any other way to stay broken? | 685,387 |
| `leave_quiet` | 4 nodes settled, any of b, c, d leave | Do the messages of LEAVE alone restore ring and index? | 110,346 |
| `search` | 3 nodes settled, a publishes two files, b searches by way of a, c for three terms | Are searches exact and answered, publications complete, lists at their owner, and what brings a process down? | 46,356 |
| `rehash` | a, b settled, c joins and walks the ring, a publishes | Do the lists c now owns move to c? Does its walk come back? | 62,775 |
| `pool` | 2 workers, 3 jobs, 5 pops | Does each job run, and at one worker? | 259,659 |
| `wire` | a buffer of 13 bytes, texts of up to 5 and of 15, lengths modulo 14 | Is what is read what was written? | 189,854 |
| `v_relearned` | a, b settled, b leaves | violated: is the LEAVE "realized" by the time of `exit(0)`? | |
| `v_search` | 3 nodes, two users with the same keyword | violated: is every search answered? | |

What they show, and why the bounds are enough to show it:

- *Three nodes, two exchanges* (`join`) is the least with a join between two
  neighbours, a join on each side of a node, and a stale STABILIZE_RSP applied
  after a newer one. *Four nodes* (`converge`) adds three concurrent joins into
  one arc and the longest detour.
- `SuccessorGetsCloser` and `PredecessorGetsCloser` are about every late or
  reordered response; `OneOrderedRing` is the statement that concurrent joins
  neither split the ring nor make it skip back. `ImplementsGrowingRing` says that
  nothing in between is visible: a half-joined node, a pointer that moves
  without a reason that holds at that moment.
- `fingers` uses two bits so that every finger, its wrap and its undefined
  conversion occur. It has one query at a time, which in the code means a round
  trip below 100 ms; see *Bounds*.
- `LookupsFindOwner` is about settled rings: in an unsettled one the answer may
  rightly be a node that has been overtaken by a join.
- `users` and `leave` bring processes down, and `CrashNeedsCause` says by what: a
  connection to a process that has ended (`Refused`), a LEAVE of a node that has no
  neighbour to name (`ToldNothing`), or a lookup typed before the JOIN was
  complete; after a second JOIN nothing is claimed (`Rejoined`). Each cause occurs.
  What does not is any other way to a "-1": a pointer, a finger, a stale response,
  a request forwarded by a node that became singleton. In `users` the founder
  LEAVEs alone, with b in its ring or while b joins; in `leave` both members of a
  ring LEAVE together while a third JOINs through one of them.
- In `leave` the addresses always agree with the numbers. The ring does not always
  heal: `HealsOrFails` says how it fails, a crash or a member that is *deaf*, its
  own successor or predecessor, which stops its `Stabilize`. There is no third way.
- `leave_quiet` has no stabilisation (`MaxExchanges` = 0): what it shows is due
  to LEAVE_P and LEAVE_S alone. Any of three nodes leave, at the same time or one
  after the other. `LeavesConverge`, `NoDocumentIsLost` and `ListsReachOwner`
  except two neighbours that leave together (`AdjacentLeavers`), who may name
  each other, or send their lists to each other; three leavers of four are the
  least in which that is one case among others. Nobody publishes in it: a PUBLISH
  on its way to a node that types LEAVE arrives after `TransferFiles` and is lost.
- `search` covers lists that change while a search passes, a search whose
  documents run out with a term left (c finds nothing in common between two lists
  until a file is published, and must not start again at the third), a node that
  searches by way of itself, and a term whose owner is the asking node. Terms are
  owned by three different nodes.
  The second file of a, and the search that b makes by way of a, overlap with the
  first file in every way; `Overlap` is what `PublishIsComplete` and
  `LoneSearchesAreAnswered` except and `CrashNeedsOverlap` is about.
- `rehash` publishes a document for the very term that changes its owner, before,
  while and after it does. c asks for the ring as soon as its JOIN is complete,
  before any node points at it: its RING_STATE goes round without c until
  stabilisation has linked it (`RingWalkEnds`). `OnlyLatePublishesStray` says what
  may stay behind: documents published meanwhile, at the next node, and nothing else.
- `pool` starts with two idle workers and one job, which is what it takes to pop
  an empty queue, goes on with jobs that are added behind the front, and has
  room for a job that is assigned while a misled worker still runs the one
  before. `MaxPops` leaves two pops nobody added a job for.
- `wire` scales the buffer down: 5 bytes of header, and 2 of length with each
  text. 13 bytes hold one or two texts whole, cut the second, third or fourth,
  and end behind a length or in front of it. A text of 15 has a length that wraps
  to 1 and takes a byte of the text behind it. In the code 100 bytes are reached by
  a SEARCH_REQ with a list of documents, or by a PUBLISH with many.
- `leave` and `v_relearned` start from `SettledRing`; `leave_quiet`, `search`,
  `rehash` and `v_search` from that and `PublishedIndex`. Such states are reachable
  from `SearchInit` by joins, stabilisations and publications, which `converge` and
  `search` show to lead there; the start only saves the way.

Deadlock is checked in `pool`. It is not in the runs of the ring and the index,
where users stop typing and, with no exchange or member left, the system may
rightly stop, nor in `wire`, which ends with its message.

## Fairness

Properties without liveness are checked without fairness. `FairSpec`,
`SettledRingSpec` and `SettledSpec` assume:

- *Weak fairness of every timer and of every thread between two critical
  sections*: `Stabilize` and `FixFingers` are endless loops around a sleep, and
  the mutex is held for a bounded time. PennChord sends without it; callbacks
  into PennSearch send with it, but their `connect` is completed by the kernel of
  the receiver, whose backlog takes 100 connections, without a thread of it.
- *Strong fairness of `Exit`*: after seven seconds the process ends; its guard
  comes and goes with the messages in flight.
- *`EveryMessageArrives`*: time and again no message of a type waits between two
  given nodes. The receive thread accepts in the order of the backlog, so no
  message is passed over for ever. The same for the port of PennSearch.

`PoolSpec` assumes weak fairness of the assigner and of each worker, whose loops
do not end, and that `wf` returns. Nothing is assumed of `add_job` and of
spurious wake-ups.

The liveness of lookups (`fingers`) is that of a node with one query outstanding:
`MaxLookups` is in the guard of the action, and fairness of `FixFingers` means that
the next query is sent some time after the answer to the last.

What users type is never forced: `Converges` says that the ring settles whatever
they have typed and whenever they stop.

## Proofs

Assumed of the constants: `KeyWidth` and `PowersOfTwo` (two facts about 2^i,
because exponentiation is opaque to the provers), `DistinctHashes` (no two nodes
have the same 32-bit hash), `SentinelsAreNoNodes`, `UserInput`, `Bounds` and, of
the index, `DistinctTerms`, `SearchInput`, `PatientUsers`, `NoneIsNothing` and
`NoneIsNoQuery`; of a message, `WireBounds` (the header fits the buffer, and
whatever fits has a length of 16 bits); of the thread pool, `PoolBounds` (at
least one worker). TLC evaluates each of them in the runs. Some theorems are
about users of a kind (`OnlyJoins`, `OneFounder`, `JoinOnce`, `OnlyWalks`,
`AskOwnNode`, `NobodySearches`, `OneFileEach`), a hypothesis that they name.
Nothing else is assumed: any number of nodes, keys, commands, exchanges and
lookups, of workers and jobs, any buffer and any texts.

**The circle** (`ChordKeysProofs`). `OwnsTargetArc`, `BetterSuccessorArc`,
`NotifierInRangeArc`, `FingerPrecedesArc`, `KeepsKeyArc`: each comparison is its
arc in terms of clockwise `Distance`. Linear arithmetic, once the definitions
are open. `FingerStartsAhead`: whatever the conversion from `double` yields is an
identifier, and one of its outcomes is the one 2^i steps ahead.

**Types** (`TypeCorrect`). One lemma per group of actions; each shows that what
the action writes has its type and that what it sends is a `Message`. The work
is in the messages: `ClosestPrecedingNode` yields a node or `Nil`, and it takes
the highest of a set of finger indices, which exists (`HighestFinger`) by a
descent on naturals (`LeastNatural`, from a library fact on well-founded
relations, since induction itself is not available to the provers).

**Lookups get closer** (`LookupsGetCloser`). `TypeOK /\ ForwardsGetCloser` is
inductive. Only `ForwardFindPred` sends a FIND_PRED_REQ on behalf of another
node; it does so when its own arc does not contain the target, so its successor
precedes the target (`SuccessorPrecedes`), and a finger it takes instead does so
by its guard. A node that precedes the target is closer to it (`ArcShortens`).
Nothing is needed of the ring or the fingers, so the theorem covers leaves,
crashes and second JOINs, and bounds every lookup by the size of the circle.

**A ring that only grows** (`PennJoinProofs`), for users with `OnlyJoins`.
`NoCrash`, `NotOwnPredecessor`, `OnlyMembersAreKnown` and `SingletonIsAlone` are
not inductive by themselves. That a node never gets its own NOTIFY depends on no
stabilisation being under way at a node that is its own successor: true of the
guard of `Stabilize`, but the request, the response and the NOTIFY come later,
when the guard may have ceased to hold. `JoinInv` says of each message in flight
what makes its handler safe: STABILIZE_REQ and STABILIZE_RSP concern nodes whose
successor is another, NOTIFY goes to another node, a FIND_PRED_RSP names a
member, and whatever is not a FIND_PRED_RSP is addressed to a member. It is preserved
because members stay members and a successor, once another node, stays another
node; `JoinFrame` and `JoinStep` state that once, and each action is left to show
what it changes. The run `fingers` checks `JoinInv` as well.
`SuccessorsImprove` and `PredecessorsImprove` then follow action by action, from
`JoinInv` and the arcs: only `ProcessStabilizeRsp` and `ProcessNotify` move a
pointer that is set.

**Refinement** (`JoinsImplementGrowingRing`, in the same module), for the same
users. The mapping is the identity on pointers, so a member of the abstract ring
is a member of the real one (`SameMembers`, from `JoinInv`: a node has a
successor exactly when `inRing` is set). Each handler that moves a pointer is
one abstract step; what that step asks for, a better node or a member, follows
from `JoinInv` and the arc of the handler's comparison. Everything else
stutters.

**Numbers and addresses** (`NumbersAndAddressesAgree`), for users who JOIN once
and LEAVE when they like, through leaves, crashes and exits. `AddressInv` adds
what the handler that crashes half-way (:526) needs: a JOIN response only hits a
node whose pointers are still "-1", so that the number it has set and the
address it has not are not a member's. A second JOIN breaks it, and so the
theorem assumes there is none (`JoinOnce`).

**Leaves and crashes** (`CrashesHaveCauses`), in every behaviour: any users,
patient or not, any leaves, exits and crashes, any number of stabilisations and
lookups outstanding. `CrashNeedsCause` is about rings that are split, deaf or half
empty, so the invariant behind it says nothing of the shape of the ring.
`LinkedInv` says that whatever names a node, a pointer, a finger or a message,
names one that has a successor: such a node never loses it, so no forwarded
lookup ends at a "-1" and no handler sends to one. Where a message may carry
"-1", `LinkedMessage` says which and from whom: a LEAVE_S of a node without
predecessor, a LEAVE_P of a node without successor, whose user did not wait. A
second JOIN breaks it, by taking the successor from a member that others name;
`Rejoined` stays true from then on, so the disjunction of the two is inductive.
From `LinkedInv`, each action that may end a process has one of the causes
(`UserFalls`, `ThreadFalls`, `HandlerFalls`), and most cannot.

**One ordered ring** (`PennRingProofs`), for users with `OnlyJoins` of whom one
types CREATE (`OneFounder`). The ring cannot be followed node by node without an
induction, so it is described from the outside: `ReachedFrom(x)` is what lies in
every set of members that holds x and is closed under successors, and the cycle
is what can be reached from its own successor. The inductive invariant is that
no successor skips the founder, and that no node in its JOIN is told one that
does (`RingInv`, theorem `FounderIsNotSkipped`). It follows that each successor
other than the founder is closer to the founder than its predecessor on the way:
so the founder is reached from every member, by descent on that distance, the
cycle is what is reached from the founder, and none of its members lies between
another and that one's successor (`JoinsKeepOneRing`). With two founders there
are two rings, and nothing of the kind holds.

**Lookups in a settled ring** (`SettledLookupsFindOwner`), for `OnlyJoins`. A
node answers for the arc up to its successor, which by `IdealRing` is the first
member after it; so no member lies between the target and that successor. Where
the successor itself is the node, it is alone.

**The index** (`PennSearchProofs`). Every step of `PennSearch` is one of
`PennChord`, or leaves the ring alone, or ends a process, so what is proved of the
ring carries over (`SearchRing`, `TypeSearchRing`).
*Types* (`SearchTypeCorrect`), in every behaviour: the one place where `Nil` could
become an address is a callback, and it crashes first. `NoneIsNoQuery` is the
only new assumption.
*Origin* (`AnswersArePublished`), in every behaviour that starts with an empty
index: lists, publications, what is being read and what searches carry only ever
hold documents of files that users have typed, for that term. (The property is
in no run; a consequence of it, `SearchesAreExact`, is.)
*In a settled ring*, that nobody joins or leaves (`OnlyWalks`), of any set of two
nodes or more with any index at the owners: `SettledSearchesAreExact` and
`CallbacksNeedOverlap`. The ring stays ideal (`QuietRing`), so the owner of a term
stays its owner and lists only grow (`OwnersListsGrow`); a search in flight has
what was listed for the terms it has passed (`ExactInv`). For the callbacks,
`CallbackInv` says of each lookup in flight that the entry of
`hashInvertedLists` or `queryMap` it will be looked up under is there, unless two
uses of the node overlap.
*While nodes join* (`OnlyJoins`), from nothing or from two or more settled nodes:
`JoinsLoseNoDocument`, as long as no process has ended, and
`GrowthNeedsOverlapToCrash`, for users who search by way of their own node
(`AskOwnNode`): a search by way of a node whose JOIN is not complete makes that
node look up with a finger or successor "-1", and ends it. Users who only
publish, one file each (`NobodySearches`, `OneFileEach`), cannot overlap, so no
process ends and no document is lost, unconditionally
(`PublishingWhileJoiningIsSafe`). The instance of run `rehash` satisfies all of
these assumptions, and those of run `search` satisfy `OnlyWalks`.

**The wire** (`WireFormatProofs`), for any size of the buffer, any texts and
whatever uninitialised memory holds. `Layout` describes what `Serialize` leaves
behind without recursion: each length is followed by its text, if that was
written, and text or bare length by the next length, if that was; once a length
does not fit, none after it does. Every `Write` keeps it (`ExtendsLayout`), so it
holds of the wire. The reader's half of `WireInv` is that the buffer is the end
of the wire, and begins where the next length is; a dropped text was longer than
what is left, so reading it takes nothing and the next length is still in front.
`WholeTextsArrive` follows. It is about texts whose lengths, and those before
them, fit 16 bits (`Countable`); without that it is false, see
[below](#where-the-code-and-its-comments-differ).
`NothingOutgrowsItsSize`: each `Write` adds at most what `GetSerializedSize`
counts for it.

**The thread pool** (`ThreadPoolProofs`), for any number of workers and jobs.
`PoolInv` is inductive. `OneWorkerPerJob` rests on what was popped: the jobs a
worker has run or has been assigned are all at most `popped`, the next is
`popped + 1`, and no two workers share one, until an empty queue is popped
(`underflowed`), which may yield any job. `RepeatsOnlyIfMisled` and
`NoJobIsDropped` rest on the workers that were never misled, which run only while
their indicator is on: so the assigner leaves them alone, and what they finish
is what they were assigned.

**Only model-checked.** All liveness, which is out of reach of the prover:
`Converges`, `RingWalkEnds`, `LookupsAreAnswered`, `FingersSettle`, `HealsOrFails`,
`LeavesConverge`, `ListsReachOwner`, `PublishIsComplete`, `LoneSearchesAreAnswered`,
`OnlyLatePublishesStray`, `EveryJobRuns`. `NoDocumentIsLost` with
leaves (run `leave_quiet`; with joins it is proved): a PUBLISH under way to a
node that LEAVEs arrives after `TransferFiles` and is lost at the exit, so it
holds in settled rings only, and its proof would need the ring to close over
several leaves at once.

## Where the code and its comments differ

- **"Time for other clients to realize the leave"** (`penn-chord.cpp:257`),
  run `v_relearned`. a and b are in a ring, and a STABILIZE_REQ of b is on its way
  when b LEAVEs. a handles LEAVE_P (:664): it becomes its own successor, and
  singleton. It answers the STABILIZE_REQ, and handles LEAVE_S (:681), which leaves
  it without a predecessor. b, which runs for seven more seconds, handles the
  STABILIZE_RSP and sends NOTIFY (:421). a has no predecessor, so it accepts b as
  one (:441), and as it is singleton, as its successor too (:450-454). b exits; a's
  next STABILIZE_REQ is refused, and `sendTo` ends its process. No length of the
  sleep excludes that.
- **"simply type in a search keyword, and then receive a list"**
  (`README.md:9`), run `v_search`. Two users search for the same keyword from the
  same node at the same time. `queryMap` has one entry for the hash of the term;
  the second replaces the first before the lookup of the first is answered. Both
  answers carry the second search: one user gets two results, the other none.

Seen while modelling. No comment promises otherwise; where a property had to
except the case, it is named:

- A node that has no neighbour to name sends LEAVE_S with "-1", and `map.at`
  throws at the receiver (:684). A lone founder that types LEAVE sends it to itself
  (:714), and its process is aborted before its `exit(0)`; a member that was not
  notified yet sends it to its successor. Of two nodes that leave a ring of two at
  once, the first names the second in its LEAVE_S, which is thereby alone and sets
  its predecessor to "-1" between its own LEAVE_P and LEAVE_S (:709, :714), and
  sends that on, to the other leaver or to a node that is just joining
  (`CrashNeedsCause`, `ToldNothing`).
- With two finger queries outstanding, a round trip longer than 100 ms, a response
  is stored under the next finger's index (:532), since it carries no number
  (`FingersSettle`).
- A second PUBLISH clears `hashInvertedLists` while answers for the first are on
  their way; `at` throws (`CrashNeedsOverlap`, `PublishIsComplete`).
- `makingSearchQuery` is shared by the search thread and the command thread; a
  lookup for a PUBLISH sent in that moment is answered as one for a search
  (`CrashNeedsOverlap`, `LoneSearchesAreAnswered`).
- A PUBLISH whose owner was looked up before a JOIN is stored at the old owner
  after its lists have moved, and stays there (`OnlyLatePublishesStray`).
- Two adjacent nodes that leave at once may send their lists to each other, and
  leave their neighbours with a pointer to a node that ends (`NoDocumentIsLost`,
  `ListsReachOwner`, `LeavesConverge`).
- A second JOIN keeps `inRing`, so the old ring's `Stabilize` goes on with
  addresses of the old ring and clears `tryingToJoin`; a PUBLISH, SEARCH or
  lookup before the JOIN is complete throws (`CrashNeedsCause`).
- A PUBLISH that is on its way when its receiver types LEAVE arrives after
  `TransferFiles` and is lost with the process (`NoDocumentIsLost`).
- A LEAVE_P that names the receiver sets `isSingleton` while another node may be
  joining; NOTIFY then replaces its successor as if it were alone (`HealsOrFails`).
- `assign_job` pops an empty queue when there are fewer jobs than idle workers,
  and a late signal makes a worker run its last job again (`RepeatsOnlyIfMisled`,
  `NoJobIsDropped`, `EveryJobRuns`).
- A text that does not fit the 100 bytes is dropped, its length is sent; with it
  go the documents of a long list. The receiver's `Read` fails and leaves the
  memory as it was, and that is what it takes for the text: the memory was
  allocated right after that of the text before was freed
  (`penn-search-message.cpp:234-238`), so the bytes may be that text's
  (`DeserializeText`).
- The length of a text is a `uint16_t`. A list of 65536 characters or more is
  dropped too, but the rest of its length takes as many bytes of the texts behind
  it, lengths included (`Countable`).
- `NS_ASSERT` expands to nothing in the build, so what it guards is not guarded.

## Not modelled

- *What is inside a text*: lists separated by commas, numbers in decimal. Messages
  are records of what the handlers read; `WireFormat` goes as far as the texts.
- *A `read` that returns a part of a message*: it takes two segments for less than
  100 bytes.
- *Construction and destruction of the thread pool*: workers start while the
  vectors they index still grow, and the destructor destroys mutexes that are in
  use. Both are undefined behaviour from the first step.
- *The data race on `m_storedFiles`*, which two threads access under different
  locks: each access is one step here.
- *SHA-1*: any injective function from nodes and terms to identifiers.
- *Hop counters, logging, printed results*: no handler's behaviour depends on them.
- *Start-up and address parsing*: their result is `Init`.
- *Errors of `socket` and `send`*, a process killed from outside, and lost
  messages other than those to a process that has ended: the code has no
  handling for them, and every promise would be void.

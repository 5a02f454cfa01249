--------------------------- MODULE ThreadPoolProofs ---------------------------
(***************************************************************************)
(* The safety of the thread pool for any number of workers and of jobs.    *)
(* PoolInv is inductive; each lemma below says that one critical section   *)
(* keeps it, a conjunct at a time.                                         *)
(***************************************************************************)
EXTENDS ThreadPool, TLAPS

LEMMA PoolInitially == PoolInit => PoolInv
<1> SUFFICES ASSUME PoolInit PROVE PoolInv
  OBVIOUS
<1> USE PoolBounds DEF PoolInit, Worker, Job, NoJob
<1>1. PoolTypeOK
  <2>1. /\ assignment \in [Worker -> Job \cup {NoJob}]
        /\ current \in [Worker -> Job \cup {NoJob}]
    OBVIOUS
  <2>2. /\ indicator \in [Worker -> BOOLEAN]
        /\ pc \in [Worker -> {"top", "waiting", "woken", "running"}]
    OBVIOUS
  <2>3. started \in [Worker -> SUBSET Job] /\ repeated \in [Worker -> SUBSET Job]
    BY {} \in SUBSET Job
  <2>4. /\ pushed \in 0 .. MaxJobs /\ popped \in 0 .. MaxPops
        /\ assigner \in 0 .. Workers
    OBVIOUS
  <2>5. /\ misled \subseteq Worker
        /\ signalling \in BOOLEAN /\ underflowed \in BOOLEAN
    BY Zenon
  <2> QED BY <2>1, <2>2, <2>3, <2>4, <2>5 DEF PoolTypeOK
<1>2. PopsBounded
  BY DEF PopsBounded
<1>3. popped <= pushed /\ \A i \in Worker : Taken(i) = {NoJob}
  BY DEF Taken
<1>4. \A i \in Worker : NotMisled(i)
  BY DEF NotMisled
<1>5. NoJobIsDropped
  BY DEF NoJobIsDropped
<1> QED BY <1>1, <1>2, <1>3, <1>4, <1>5 DEF PoolInv

(* The next job is one nobody had; past the end of the queue it is none,   *)
(* or one that was pushed some time.                                       *)
LEMMA FrontsAre ==
  ASSUME PoolTypeOK
  PROVE  /\ Fronts \subseteq Job \cup {NoJob}
         /\ popped < pushed => Fronts = {popped + 1}
         /\ \A j \in Fronts : j <= popped + 1
BY PoolBounds DEF PoolTypeOK, Fronts, Job, NoJob

(* A step that hands out no job and finishes none drops none.              *)
LEMMA NothingHandedOut ==
  ASSUME NoJobIsDropped,
         UNCHANGED <<pushed, popped, assignment, indicator, current, started,
                     misled, underflowed>>,
         \A i \in Worker : pc'[i] = "running" <=> pc[i] = "running"
  PROVE  NoJobIsDropped'
<1>1. \A j \in 1 .. pushed : Accounted(j) => Accounted(j)'
  BY DEF Accounted
<1> QED BY <1>1 DEF NoJobIsDropped

(* add_job: the new job is queued.                                         *)
LEMMA AddKeeps ==
  ASSUME PoolInv, add_job
  PROVE  PoolInv'
<1> USE PoolBounds DEF PoolInv, PoolTypeOK, Worker, Job, NoJob, add_job, assigning, history
<1>1. PoolTypeOK'
  BY FrontsAre DEF PoolTypeOK
<1>2. PopsBounded'
  BY FrontsAre DEF PopsBounded
<1>3. (~ underflowed => popped <= pushed)'
  BY FrontsAre
<1>4. (\A i \in Worker : \A j \in Taken(i) : j <= popped)'
  BY FrontsAre DEF Taken
<1>5. (~ underflowed => \A i, k \in Worker : i # k => Taken(i) \cap Taken(k) \subseteq {NoJob})'
  BY FrontsAre DEF Taken
<1>6. (~ underflowed => \A i \in Worker \ misled : NotMisled(i))'
  BY FrontsAre DEF NotMisled
<1>7. NoJobIsDropped'
  <2> SUFFICES ASSUME NEW j \in 1 .. pushed', ~ underflowed', misled' = {}
               PROVE  Accounted(j)'
    BY Zenon DEF NoJobIsDropped
  <2>1. CASE j \in 1 .. pushed
    <3>1. Accounted(j)
      BY <2>1 DEF NoJobIsDropped
    <3> QED BY <3>1 DEF Accounted
  <2>2. CASE j = pushed + 1
    BY <2>2 DEF Accounted
  <2> QED BY <2>1, <2>2
<1> QED BY <1>1, <1>2, <1>3, <1>4, <1>5, <1>6, <1>7 DEF PoolInv

(* assign_job, up to the first worker: the workers after it are room enough. *)
LEMMA StartKeeps ==
  ASSUME PoolInv, assign_job
  PROVE  PoolInv'
<1> USE PoolBounds DEF PoolInv, PoolTypeOK, Worker, Job, NoJob, assign_job, queue, history
<1>1. PoolTypeOK'
  BY FrontsAre DEF PoolTypeOK
<1>2. PopsBounded'
  BY FrontsAre DEF PopsBounded
<1>3. (~ underflowed => popped <= pushed)'
  BY FrontsAre
<1>4. (\A i \in Worker : \A j \in Taken(i) : j <= popped)'
  BY FrontsAre DEF Taken
<1>5. (~ underflowed => \A i, k \in Worker : i # k => Taken(i) \cap Taken(k) \subseteq {NoJob})'
  BY FrontsAre DEF Taken
<1>6. (~ underflowed => \A i \in Worker \ misled : NotMisled(i))'
  BY FrontsAre DEF NotMisled
<1>7. NoJobIsDropped'
  BY NothingHandedOut
<1> QED BY <1>1, <1>2, <1>3, <1>4, <1>5, <1>6, <1>7 DEF PoolInv

(* A worker that is busy is passed over.                                   *)
LEMMA SkipKeeps ==
  ASSUME PoolInv, NEW w \in Worker, Assign(w), ~ IsIdle(w)
  PROVE  PoolInv'
<1> USE PoolBounds DEF PoolInv, PoolTypeOK, Worker
<1>1. /\ assigner = w /\ ~ signalling /\ assigner' = NextWorker
      /\ UNCHANGED <<popped, signalling, assignment, indicator, underflowed>>
      /\ UNCHANGED <<pushed, pc, current, started, repeated, misled>>
  BY DEF Assign
<1>2. PoolTypeOK' /\ PopsBounded'
  BY <1>1 DEF PopsBounded, NextWorker
<1>3. NoJobIsDropped'
  BY <1>1, NothingHandedOut
<1>4. \A i \in Worker : Taken(i)' = Taken(i) /\ NotMisled(i)' = NotMisled(i)
  BY <1>1 DEF Taken, NotMisled
<1> QED BY <1>1, <1>2, <1>3, <1>4

(* A worker that is idle gets a job nobody had; its indicator was off, so  *)
(* no job assigned before is overwritten that was not taken.               *)
LEMMA AssignKeeps ==
  ASSUME PoolInv, NEW w \in Worker, Assign(w), IsIdle(w)
  PROVE  PoolInv'
<1> USE PoolBounds DEF PoolInv
<1>1. /\ assigner = w /\ ~ signalling /\ ~ indicator[w]
      /\ popped' = popped + 1
      /\ indicator' = [indicator EXCEPT ![w] = TRUE]
      /\ signalling' = TRUE
      /\ underflowed' = (underflowed \/ Empty)
      /\ UNCHANGED <<assigner, pushed, pc, current, started, repeated, misled>>
  BY DEF Assign, IsIdle, Popped
<1>2. PICK front \in Fronts : assignment' = [assignment EXCEPT ![w] = front]
  BY DEF Assign, IsIdle
<1>3. /\ front \in Job \cup {NoJob} /\ front <= popped + 1
      /\ popped < pushed => front = popped + 1
  BY FrontsAre
<1>4. PopsBounded'
  BY <1>1 DEF PopsBounded, PoolTypeOK, Worker
<1>5. PoolTypeOK'
  <2>1. popped' \in 0 .. MaxPops
    BY <1>1 DEF PopsBounded, PoolTypeOK, Worker
  <2>2. assignment' \in [Worker -> Job \cup {NoJob}]
    <3>1. assignment \in [Worker -> Job \cup {NoJob}]
      BY DEF PoolTypeOK
    <3>2. front \in Job \cup {NoJob}
      BY <1>3
    <3> QED BY ONLY <1>2, <3>1, <3>2
  <2>3. indicator' \in [Worker -> BOOLEAN]
    BY <1>1 DEF PoolTypeOK
  <2>4. underflowed' \in BOOLEAN /\ signalling' \in BOOLEAN
    BY <1>1, Zenon DEF PoolTypeOK
  <2> QED BY <1>1, <2>1, <2>2, <2>3, <2>4 DEF PoolTypeOK
<1>6. ~ underflowed' => ~ underflowed /\ popped < pushed
  <2>1. ~ underflowed' => ~ underflowed /\ ~ Empty
    BY <1>1, Zenon
  <2> QED BY <2>1 DEF Empty, PoolTypeOK
<1>7. (~ underflowed => popped <= pushed)'
  BY <1>1, <1>6 DEF PoolTypeOK
<1>8. /\ Taken(w)' \subseteq Taken(w) \cup {front}
      /\ \A i \in Worker \ {w} : Taken(i)' = Taken(i)
  BY <1>1, <1>2 DEF Taken, PoolTypeOK
<1>9. \A i \in Worker : Taken(i) \subseteq Job \cup {NoJob}
  BY DEF Taken, PoolTypeOK
<1>10. ~ underflowed' => \A i \in Worker : front \notin Taken(i)
  BY <1>6, <1>9, <1>3 DEF Job, NoJob, PoolTypeOK
<1>11. (\A i \in Worker : \A j \in Taken(i) : j <= popped)'
  <2> SUFFICES ASSUME NEW i \in Worker, NEW j \in Taken(i)' PROVE j <= popped'
    OBVIOUS
  <2>1. CASE j = front
    BY <2>1, <1>1, <1>3
  <2>2. CASE j \in Taken(i)
    <3>1. popped \in Nat /\ j \in Nat /\ j <= popped
      BY <2>2, <1>9 DEF PoolTypeOK, Job, NoJob
    <3> QED BY <3>1, <1>1
  <2> QED BY <2>1, <2>2, <1>8
<1>12. (~ underflowed => \A i, k \in Worker : i # k => Taken(i) \cap Taken(k) \subseteq {NoJob})'
  BY <1>6, <1>8, <1>10
<1>13. (~ underflowed => \A i \in Worker \ misled : NotMisled(i))'
  <2> SUFFICES ASSUME ~ underflowed', NEW i \in Worker \ misled PROVE NotMisled(i)'
    BY <1>1
  <2>1. CASE i # w
    BY <1>1, <1>2, <1>6, <2>1 DEF NotMisled, PoolTypeOK
  <2>2. CASE i = w
    <3>1. front \notin started[w]
      BY <1>10 DEF Taken
    <3> QED BY <1>1, <1>2, <1>6, <2>2, <3>1 DEF NotMisled, PoolTypeOK
  <2> QED BY <2>1, <2>2
<1>14. NoJobIsDropped'
  <2> SUFFICES ASSUME NEW j \in 1 .. pushed, ~ underflowed', misled' = {}
               PROVE  Accounted(j)'
    BY <1>1 DEF NoJobIsDropped
  <2>1. Accounted(j) /\ j \in Nat
    BY <1>1, <1>6 DEF NoJobIsDropped
  <2>2. CASE popped < j
    <3>1. popped' < j \/ j = front
      <4>1. popped \in Nat /\ popped < pushed /\ popped' = popped + 1
        BY <1>1, <1>6 DEF PoolTypeOK
      <4>2. front = popped + 1
        BY <4>1, <1>3
      <4> QED BY <4>1, <4>2, <2>1, <2>2
    <3>2. j = front => assignment'[w] = j /\ indicator'[w] /\ pc'[w] # "running"
      BY <1>1, <1>2, <1>6 DEF NotMisled, PoolTypeOK
    <3> QED BY <3>1, <3>2 DEF Accounted
  <2>3. CASE ~ (popped < j)
    <3>1. PICK i \in Worker :
            \/ j \in started[i]
            \/ assignment[i] = j /\ indicator[i] /\ pc[i] # "running"
            \/ assignment[i] = j /\ indicator[i] /\ current[i] # j
      BY <2>1, <2>3 DEF Accounted
    <3>2. indicator[i] => i # w
      BY <1>1
    <3> QED BY <1>1, <1>2, <3>1, <3>2 DEF Accounted, PoolTypeOK
  <2> QED BY <2>2, <2>3
<1> QED BY <1>4, <1>5, <1>7, <1>11, <1>12, <1>13, <1>14

(* The signal moves a worker's program counter, and not into its job.      *)
LEMMA SignalKeeps ==
  ASSUME PoolInv, NEW w \in Worker, Signal(w)
  PROVE  PoolInv'
<1> USE PoolBounds DEF PoolInv, PoolTypeOK, Worker, Job, NoJob, Signal, NextWorker, queue, history
<1>1. PoolTypeOK'
  <2>1. pc' \in [Worker -> {"top", "waiting", "woken", "running"}]
    BY DEF PoolTypeOK
  <2>2. assigner' \in 0 .. Workers
    BY DEF PoolTypeOK
  <2> QED BY <2>1, <2>2 DEF PoolTypeOK
<1>2. PopsBounded'
  BY FrontsAre DEF PopsBounded
<1>3. (~ underflowed => popped <= pushed)'
  BY FrontsAre
<1>4. (\A i \in Worker : \A j \in Taken(i) : j <= popped)'
  BY FrontsAre DEF Taken
<1>5. (~ underflowed => \A i, k \in Worker : i # k => Taken(i) \cap Taken(k) \subseteq {NoJob})'
  BY FrontsAre DEF Taken
<1>6. (~ underflowed => \A i \in Worker \ misled : NotMisled(i))'
  BY FrontsAre DEF NotMisled
<1>7. NoJobIsDropped'
  <2>1. \A i \in Worker : pc'[i] = "running" <=> pc[i] = "running"
    OBVIOUS
  <2> QED BY <2>1, NothingHandedOut
<1> QED BY <1>1, <1>2, <1>3, <1>4, <1>5, <1>6, <1>7 DEF PoolInv

(* A worker that finds its indicator on has not had the job before.        *)
LEMMA ExecuteKeeps ==
  ASSUME PoolInv, NEW w \in Worker, pc[w] # "running", Execute(w)
  PROVE  PoolInv'
<1> USE PoolBounds DEF PoolInv, PoolTypeOK, Worker, Job, NoJob, Execute, queue, assigning
<1>1. PoolTypeOK'
  BY FrontsAre DEF PoolTypeOK
<1>2. PopsBounded'
  BY FrontsAre DEF PopsBounded
<1>3. (~ underflowed => popped <= pushed)'
  BY FrontsAre
<1>4. (\A i \in Worker : \A j \in Taken(i) : j <= popped)'
  BY FrontsAre DEF Taken
<1>5. (~ underflowed => \A i, k \in Worker : i # k => Taken(i) \cap Taken(k) \subseteq {NoJob})'
  BY FrontsAre DEF Taken
<1>6. (~ underflowed => \A i \in Worker \ misled : NotMisled(i))'
  BY FrontsAre DEF NotMisled
<1>7. NoJobIsDropped'
  <2> SUFFICES ASSUME NEW j \in 1 .. pushed, ~ underflowed', misled' = {}
               PROVE  Accounted(j)'
    BY DEF NoJobIsDropped
  <2>1. Accounted(j)
    BY DEF NoJobIsDropped
  <2>2. j \in Job /\ j # NoJob
    OBVIOUS
  <2>3. assignment[w] = j => j \in started'[w]
    BY <2>2
  <2> QED BY <2>1, <2>2, <2>3 DEF Accounted
<1> QED BY <1>1, <1>2, <1>3, <1>4, <1>5, <1>6, <1>7 DEF PoolInv

(* Turning the indicator off drops no job: the worker has had it.          *)
LEMMA FinishKeeps ==
  ASSUME PoolInv, NEW w \in Worker, Finish(w)
  PROVE  PoolInv'
<1> USE PoolBounds DEF PoolInv, PoolTypeOK, Worker, Job, NoJob, Finish, IndicatorDone, queue, assigning, history
<1>1. PoolTypeOK'
  BY FrontsAre DEF PoolTypeOK
<1>2. PopsBounded'
  BY FrontsAre DEF PopsBounded
<1>3. (~ underflowed => popped <= pushed)'
  BY FrontsAre
<1>4. (\A i \in Worker : \A j \in Taken(i) : j <= popped)'
  BY FrontsAre DEF Taken
<1>5. (~ underflowed => \A i, k \in Worker : i # k => Taken(i) \cap Taken(k) \subseteq {NoJob})'
  BY FrontsAre DEF Taken
<1>6. (~ underflowed => \A i \in Worker \ misled : NotMisled(i))'
  BY FrontsAre DEF NotMisled
<1>7. NoJobIsDropped'
  <2> SUFFICES ASSUME NEW j \in 1 .. pushed, ~ underflowed', misled' = {}
               PROVE  Accounted(j)'
    BY DEF NoJobIsDropped
  <2>1. Accounted(j)
    BY DEF NoJobIsDropped
  <2>2. assignment[w] = j => j \in started[w]
    BY DEF NotMisled
  <2> QED BY <2>1, <2>2 DEF Accounted
<1> QED BY <1>1, <1>2, <1>3, <1>4, <1>5, <1>6, <1>7 DEF PoolInv

(* A wait that begins or ends moves the program counter, and not into or   *)
(* out of a job.                                                           *)
LEMMA WaitKeeps ==
  ASSUME PoolInv, NEW w \in Worker, pc[w] # "running",
         NEW s \in {"waiting", "woken"}, pc' = [pc EXCEPT ![w] = s],
         UNCHANGED <<queue, assigning, assignment, indicator, current, history>>
  PROVE  PoolInv'
<1> USE DEF PoolInv, queue, assigning, history
<1>1. \A i \in Worker : pc'[i] = "running" <=> pc[i] = "running"
  BY DEF PoolTypeOK
<1>2. PoolTypeOK'
  BY DEF PoolTypeOK
<1>3. NoJobIsDropped'
  BY <1>1, NothingHandedOut
<1>4. (~ underflowed => \A i \in Worker \ misled : NotMisled(i))'
  BY <1>1 DEF NotMisled
<1>5. PopsBounded' /\ \A i \in Worker : Taken(i)' = Taken(i)
  BY DEF PopsBounded, Taken
<1> QED BY <1>2, <1>3, <1>4, <1>5

LEMMA PoolStepKeeps == PoolInv /\ [PoolNext]_poolVars => PoolInv'
<1> SUFFICES ASSUME PoolInv, [PoolNext]_poolVars PROVE PoolInv'
  OBVIOUS
<1>1. CASE add_job
  BY <1>1, AddKeeps
<1>2. CASE assign_job
  BY <1>2, StartKeeps
<1>3. ASSUME NEW w \in Worker, Assign(w) PROVE PoolInv'
  BY <1>3, SkipKeeps, AssignKeeps
<1>4. ASSUME NEW w \in Worker, Signal(w) PROVE PoolInv'
  BY <1>4, SignalKeeps
<1>5. ASSUME NEW w \in Worker, WorkerStep(w) PROVE PoolInv'
  <2>1. CASE pc[w] # "running" /\ Execute(w)
    BY <2>1, ExecuteKeeps
  <2>2. CASE AwaitJob(w) /\ ~ Execute(w)
    <3>1. /\ pc[w] # "running" /\ pc' = [pc EXCEPT ![w] = "waiting"]
          /\ UNCHANGED <<queue, assigning, assignment, indicator, current, history>>
      BY <2>2 DEF AwaitJob
    <3> QED BY <3>1, WaitKeeps
  <2>3. CASE Finish(w)
    BY <2>3, FinishKeeps
  <2> QED BY <1>5, <2>1, <2>2, <2>3 DEF WorkerStep, AwaitJob, ExecuteAfterWait
<1>6. ASSUME NEW w \in Worker, SpuriousWakeup(w) PROVE PoolInv'
  <2>1. /\ pc[w] # "running" /\ pc' = [pc EXCEPT ![w] = "woken"]
        /\ UNCHANGED <<queue, assigning, assignment, indicator, current, history>>
    BY <1>6 DEF SpuriousWakeup
  <2> QED BY <2>1, WaitKeeps
<1>7. CASE UNCHANGED poolVars
  BY <1>7 DEF poolVars, queue, assigning, history, PoolInv, PoolTypeOK,
              PopsBounded, Taken, NotMisled, NoJobIsDropped, Accounted
<1> QED BY <1>1, <1>2, <1>3, <1>4, <1>5, <1>6, <1>7 DEF PoolNext, AssignerStep

(* However assigner and workers interleave, with late signals and waits    *)
(* that end without one, and past the end of the queue (thread_pool.cpp).  *)
THEOREM PoolKeepsInvariant == PoolSpec => []PoolInv
<1>1. PoolInit => PoolInv
  BY PoolInitially
<1>2. PoolInv /\ [PoolNext]_poolVars => PoolInv'
  BY PoolStepKeeps
<1> QED BY <1>1, <1>2, PTL DEF PoolSpec

(* A job is never given to two workers (assign_job, :148 to :152), but for *)
(* pops of the empty queue.                                                *)
THEOREM JobsAreNotShared == PoolSpec => []OneWorkerPerJob
<1>1. PoolInv => OneWorkerPerJob
  <2> SUFFICES ASSUME PoolInv, ~ underflowed, NEW i \in Worker, NEW k \in Worker, i # k
               PROVE  started[i] \cap started[k] = {}
    BY DEF OneWorkerPerJob
  <2>1. Taken(i) \cap Taken(k) \subseteq {NoJob}
    BY DEF PoolInv
  <2>2. NoJob \notin started[i]
    BY DEF PoolInv, PoolTypeOK, Job, NoJob
  <2> QED BY <2>1, <2>2 DEF Taken
<1> QED BY <1>1, PoolKeepsInvariant, PTL

(* A worker runs a job again only if it took one while its indicator was   *)
(* off (:203, an "if" where the wait would need a "while").                *)
THEOREM OnlyMisledWorkersRepeat == PoolSpec => []RepeatsOnlyIfMisled
<1>1. PoolInv => RepeatsOnlyIfMisled
  BY DEF PoolInv, NotMisled, RepeatsOnlyIfMisled
<1> QED BY <1>1, PoolKeepsInvariant, PTL

(* No job is lost between add_job and wf but for those two causes.         *)
THEOREM JobsAreAccountedFor == PoolSpec => []NoJobIsDropped
<1>1. PoolInv => NoJobIsDropped
  BY DEF PoolInv
<1> QED BY <1>1, PoolKeepsInvariant, PTL
=============================================================================

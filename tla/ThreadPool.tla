------------------------------ MODULE ThreadPool ------------------------------
(***************************************************************************)
(* The thread pool of src/util/thread_pool.cpp, a template no other file   *)
(* of the repository instantiates yet.  add_job queues a job; an assigner  *)
(* thread calls assign_job ten times a second, which goes over the workers *)
(* and hands a job to each idle one; each worker waits on a condition      *)
(* variable of its own.                                                    *)
(*                                                                         *)
(* Each critical section of a worker's mutex is an action.  assign_job     *)
(* holds job_queue_lock from its first step to its last, and signals after *)
(* it has released the worker's mutex.  A wait on a condition variable may *)
(* end without a signal, as POSIX allows.                                  *)
(*                                                                         *)
(* Jobs are numbered in the order they are added; 0 is a job nobody added. *)
(* Construction and destruction of the pool are not modelled.              *)
(***************************************************************************)
EXTENDS Naturals

CONSTANTS
  Workers,     \* thread_count
  MaxJobs,     \* bound: jobs added
  MaxPops      \* bound: jobs taken off the queue, those nobody added included

ASSUME PoolBounds ==
  /\ Workers \in Nat \ {0}
  /\ MaxJobs \in Nat /\ MaxPops \in Nat

Worker == 1 .. Workers
Job    == 1 .. MaxJobs
NoJob  == 0

VARIABLES
  pushed, popped,   \* jobs: how many were pushed and popped
  assigner,         \* the worker assign_job is at, 0 between two calls
  signalling,       \* it has a job assigned and not signalled yet
  assignment,       \* jobAssignments
  indicator,        \* thread_dispatch_indicators
  pc,               \* where each worker is in worker_wrapper
  current,          \* its job_to_execute
  started,          \* the jobs each worker has called wf on, for the properties
  repeated,         \* those it has called wf on again, likewise
  misled,           \* the workers that took a job with no indicator set, likewise
  underflowed       \* a job was popped off an empty queue, likewise

queue     == <<pushed, popped>>
assigning == <<assigner, signalling>>
history   == <<started, repeated, misled, underflowed>>
poolVars  == <<queue, assigning, assignment, indicator, pc, current, history>>

PoolTypeOK ==
  /\ pushed     \in 0 .. MaxJobs
  /\ popped     \in 0 .. MaxPops
  /\ assigner   \in 0 .. Workers
  /\ signalling \in BOOLEAN
  /\ assignment \in [Worker -> Job \cup {NoJob}]
  /\ indicator  \in [Worker -> BOOLEAN]
  /\ pc         \in [Worker -> {"top", "waiting", "woken", "running"}]
  /\ current    \in [Worker -> Job \cup {NoJob}]
  /\ started    \in [Worker -> SUBSET Job]
  /\ repeated   \in [Worker -> SUBSET Job]
  /\ misled     \subseteq Worker
  /\ underflowed \in BOOLEAN

PoolInit ==
  /\ pushed = 0 /\ popped = 0
  /\ assigner = 0 /\ signalling = FALSE
  /\ assignment = [i \in Worker |-> NoJob]
  /\ indicator = [i \in Worker |-> FALSE]
  /\ pc = [i \in Worker |-> "top"]
  /\ current = [i \in Worker |-> NoJob]
  /\ started = [i \in Worker |-> {}]
  /\ repeated = [i \in Worker |-> {}]
  /\ misled = {} /\ underflowed = FALSE

-----------------------------------------------------------------------------
(* jobs.empty() compares the two ends of a deque.  front() and pop() of an *)
(* empty one are undefined: the build reads a slot that was never written  *)
(* or holds a job of long ago, and moves the front past the back, after    *)
(* which the deque is not empty and a job pushed next is behind the front. *)
Empty  == pushed = popped
Fronts == IF popped < pushed THEN {popped + 1} ELSE {NoJob} \cup 1 .. pushed

add_job ==
  /\ assigner = 0 /\ pushed < MaxJobs
  /\ pushed' = pushed + 1
  /\ UNCHANGED <<popped, assigning, assignment, indicator, pc, current, history>>

(* assign_job, as far as the first worker.                                 *)
assign_job ==
  /\ assigner = 0 /\ ~Empty
  /\ popped + Workers <= MaxPops
  /\ assigner' = 1
  /\ UNCHANGED <<queue, signalling, assignment, indicator, pc, current, history>>

(* Mutants: the job stays at the front of the queue; the indicator is not  *)
(* looked at.                                                              *)
NotPopped(count)  == count
AssignsAlways(i)  == TRUE

Popped(count) == count + 1
IsIdle(i)     == ~indicator[i]

(* Mutant: there is no last worker.                                        *)
NextWorkerEver == assigner + 1

NextWorker == IF assigner = Workers THEN 0 ELSE assigner + 1

(* The critical section of worker i's mutex in assign_job.                 *)
Assign(i) ==
  /\ assigner = i /\ ~signalling
  /\ IF IsIdle(i)
     THEN /\ \E front \in Fronts : assignment' = [assignment EXCEPT ![i] = front]
          /\ popped' = Popped(popped)
          /\ indicator' = [indicator EXCEPT ![i] = TRUE]
          /\ signalling' = TRUE
          /\ underflowed' = (underflowed \/ Empty)
          /\ UNCHANGED assigner
     ELSE /\ assigner' = NextWorker
          /\ UNCHANGED <<popped, signalling, assignment, indicator, underflowed>>
  /\ UNCHANGED <<pushed, pc, current, started, repeated, misled>>

(* A signal to a worker that does not wait is gone.                        *)
Signal(i) ==
  /\ assigner = i /\ signalling
  /\ pc' = [pc EXCEPT ![i] = IF @ = "waiting" THEN "woken" ELSE @]
  /\ signalling' = FALSE
  /\ assigner' = NextWorker
  /\ UNCHANGED <<queue, assignment, indicator, current, history>>

-----------------------------------------------------------------------------
(* worker_wrapper.                                                         *)

(* Copy the assigned job and call wf on it.                                *)
Execute(i) ==
  /\ current' = [current EXCEPT ![i] = assignment[i]]
  /\ pc' = [pc EXCEPT ![i] = "running"]
  /\ started' = [started EXCEPT ![i] = @ \cup ({assignment[i]} \ {NoJob})]
  /\ repeated' = [repeated EXCEPT ![i] = @ \cup ({assignment[i]} \cap started[i])]
  /\ misled' = IF indicator[i] THEN misled ELSE misled \cup {i}
  /\ UNCHANGED <<queue, assigning, assignment, indicator, underflowed>>

(* Mutant: the wait does not depend on the indicator.                      *)
WaitsAlways(i) == TRUE

MustWait(i) == ~indicator[i]

(* A job assigned meanwhile is executed without a wait.                    *)
AwaitJob(i) ==
  /\ pc[i] = "top"
  /\ \/ ~MustWait(i) /\ Execute(i)
     \/ /\ MustWait(i)
        /\ pc' = [pc EXCEPT ![i] = "waiting"]
        /\ UNCHANGED <<queue, assigning, assignment, indicator, current, history>>

SpuriousWakeup(i) ==
  /\ pc[i] = "waiting"
  /\ pc' = [pc EXCEPT ![i] = "woken"]
  /\ UNCHANGED <<queue, assigning, assignment, indicator, current, history>>

(* After the wait the indicator is not looked at again.                    *)
ExecuteAfterWait(i) == pc[i] = "woken" /\ Execute(i)

(* Mutant: the worker stays busy.                                          *)
IndicatorOn == TRUE

IndicatorDone == FALSE

(* wf has returned.                                                        *)
Finish(i) ==
  /\ pc[i] = "running"
  /\ indicator' = [indicator EXCEPT ![i] = IndicatorDone]
  /\ pc' = [pc EXCEPT ![i] = "top"]
  /\ UNCHANGED <<queue, assigning, assignment, current, history>>

WorkerStep(i) == AwaitJob(i) \/ ExecuteAfterWait(i) \/ Finish(i)

AssignerStep == assign_job \/ \E i \in Worker : Assign(i) \/ Signal(i)

PoolNext ==
  \/ add_job
  \/ AssignerStep
  \/ \E i \in Worker : WorkerStep(i) \/ SpuriousWakeup(i)

(* The threads run and wf returns; jobs are added and waits end without a  *)
(* signal whenever they like.                                              *)
PoolSpec ==
  /\ PoolInit /\ [][PoolNext]_poolVars
  /\ WF_poolVars(AssignerStep)
  /\ \A i \in Worker : WF_poolVars(WorkerStep(i))

-----------------------------------------------------------------------------
(* As long as the queue was never popped when empty, a job that was added  *)
(* is not handed to two workers, however the assigner and they interleave. *)
OneWorkerPerJob ==
  underflowed \/ \A i, k \in Worker : i # k => started[i] \cap started[k] = {}

(* "true indicates that thread should take a job" (thread_pool.hpp): a     *)
(* worker calls wf a second time on a job only if it was woken while its   *)
(* indicator was off, by a signal that came late or by none (or, again, if *)
(* the queue was popped when empty).                                       *)
RepeatsOnlyIfMisled ==
  \A i \in Worker : repeated[i] # {} => i \in misled \/ underflowed

(* The job is still in the queue, or assigned to a worker that will take   *)
(* it, or some worker has called wf on it.                                 *)
Accounted(j) ==
  \/ popped < j
  \/ \E i \in Worker :
       \/ j \in started[i]
       \/ assignment[i] = j /\ indicator[i] /\ pc[i] # "running"
       \/ assignment[i] = j /\ indicator[i] /\ current[i] # j

(* No job is dropped or overwritten between add_job and wf, unless a       *)
(* worker was misled (its Finish then turns off the indicator of a job it  *)
(* has not taken) or the queue was popped when empty.                      *)
NoJobIsDropped ==
  \A j \in 1 .. pushed : Accounted(j) \/ misled # {} \/ underflowed

(* Why the three above hold: what is true in every state of the counters,  *)
(* of any two workers and of each worker that was never misled.            *)
Taken(i) == started[i] \cup {assignment[i]}

PopsBounded ==
  /\ signalling => assigner # 0
  /\ assigner # 0 =>
       popped + Workers <= MaxPops + assigner - (IF signalling THEN 0 ELSE 1)

NotMisled(i) ==
  /\ repeated[i] = {}
  /\ pc[i] = "running" => indicator[i] /\ assignment[i] \in started[i] \cup {NoJob}
  /\ pc[i] # "running" /\ indicator[i] => assignment[i] \notin started[i]

(* The inductive invariant of the pool: a worker's jobs were all popped    *)
(* (thread_pool.cpp:150), no other worker has one of them, and one that    *)
(* was never misled runs only while its indicator is on.                   *)
PoolInv ==
  /\ PoolTypeOK
  /\ PopsBounded
  /\ \A i \in Worker : \A j \in Taken(i) : j <= popped
  /\ ~ underflowed =>
       /\ popped <= pushed
       /\ \A i, k \in Worker : i # k => Taken(i) \cap Taken(k) \subseteq {NoJob}
       /\ \A i \in Worker \ misled : NotMisled(i)
  /\ NoJobIsDropped

(* Every job that is added is executed (the signal of assign_job is never  *)
(* missed for good, though it comes after the unlock), with the same       *)
(* exceptions.                                                             *)
EveryJobRuns ==
  \A j \in Job :
    pushed >= j ~> \/ \E i \in Worker : j \in started[i]
                   \/ misled # {}
                   \/ underflowed
=============================================================================

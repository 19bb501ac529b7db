----------------------------- MODULE ThreadPool -----------------------------
(***************************************************************************)
(* The worker threads of the exchange and their queues                     *)
(* (core/ThreadPool.cpp, ThreadPool.hpp).                                  *)
(*                                                                         *)
(* One moodycamel::ConcurrentQueue per shard, filled by any thread and     *)
(* drained by the one worker of the shard.  That queue (a library) keeps   *)
(* the order of each producer and no order between producers, so it is a   *)
(* sequence per producer, and the consumer takes the head of any of them.  *)
(* The destructor is the one the compiler writes: members in reverse       *)
(* order, so the jthreads from the last to the first, each asked to stop   *)
(* and joined before the next, and then the queues with what they hold.    *)
(***************************************************************************)
EXTENDS Integers, Sequences, Functions

CONSTANTS
  NUM_SHARDS,  \* 4 in the code
  Producers,   \* threads that call enqueue
  Tasks,       \* the closures they enqueue: each call makes one of its own,
               \* so their number bounds the calls
  NoTask       \* the worker has no task

ASSUME ShardAssumption == NUM_SHARDS \in Nat \ {0}
ASSUME TaskAssumption == NoTask \notin Tasks

Shards == 0 .. NUM_SHARDS - 1

VARIABLES
  tasks_,     \* shard -> producer -> queued tasks
  worker,     \* shard -> where its thread stands in the loop
  task,       \* shard -> the local variable of the loop body
  stop,       \* shard -> stop_requested() of its jthread
  pool,       \* up, closing (in the destructor), down
  joining,    \* the jthread the destructor is at
  sent,       \* history: shard -> producer -> tasks enqueued
  started     \* history: shard -> producer -> tasks taken by the worker

poolVars == <<tasks_, worker, task, stop, pool, joining, sent, started>>

PoolInit ==
  /\ tasks_ = [i \in Shards |-> [p \in Producers |-> <<>>]]
  /\ worker = [i \in Shards |-> "new"]
  /\ task = [i \in Shards |-> NoTask]
  /\ stop = [i \in Shards |-> FALSE]
  /\ pool = "up" /\ joining = NUM_SHARDS - 1
  /\ sent = [i \in Shards |-> [p \in Producers |-> <<>>]]
  /\ started = [i \in Shards |-> [p \in Producers |-> <<>>]]

(* Calling a pool that is being destroyed is outside what a caller may do. *)
enqueue(p, t, i) ==
  /\ pool = "up"
  /\ \A j \in Shards, q \in Producers : t \notin Range(sent[j][q])
  /\ tasks_' = [tasks_ EXCEPT ![i][p] = Append(@, t)]
  /\ sent' = [sent EXCEPT ![i][p] = Append(@, t)]
  /\ UNCHANGED <<worker, task, stop, pool, joining, started>>

(* Mutant of TestStop: a loop that never looks at the stop token.          *)
NeverStops(i) ==
  /\ worker[i] \in {"new", "test"}
  /\ worker' = [worker EXCEPT ![i] = "poll"]
  /\ UNCHANGED <<tasks_, task, stop, pool, joining, sent, started>>

(* The condition of the while loop; a thread that was just created gets    *)
(* there as well.                                                          *)
TestStop(i) ==
  /\ worker[i] \in {"new", "test"}
  /\ worker' = [worker EXCEPT ![i] = IF stop[i] THEN "exited" ELSE "poll"]
  /\ UNCHANGED <<tasks_, task, stop, pool, joining, sent, started>>

(* Mutant of TakeTask: the task that was enqueued last.                    *)
TakeNewest(i) ==
  /\ worker[i] = "poll"
  /\ \E p \in Producers :
       LET n == Len(tasks_[i][p]) IN
       /\ n > 0
       /\ task' = [task EXCEPT ![i] = tasks_[i][p][n]]
       /\ started' = [started EXCEPT ![i][p] = Append(@, tasks_[i][p][n])]
       /\ tasks_' = [tasks_ EXCEPT ![i][p] = SubSeq(@, 1, n - 1)]
  /\ worker' = [worker EXCEPT ![i] = "run"]
  /\ UNCHANGED <<stop, pool, joining, sent>>

(* Mutant of TakeTask: the task is copied and stays in the queue.          *)
TakeKeeps(i) ==
  /\ worker[i] = "poll"
  /\ \E p \in Producers :
       /\ tasks_[i][p] # <<>>
       /\ task' = [task EXCEPT ![i] = Head(tasks_[i][p])]
       /\ started' = [started EXCEPT ![i][p] = Append(@, Head(tasks_[i][p]))]
  /\ worker' = [worker EXCEPT ![i] = "run"]
  /\ UNCHANGED <<tasks_, stop, pool, joining, sent>>

(* try_dequeue finds the head of some producer's queue ...                 *)
TakeTask(i) ==
  /\ worker[i] = "poll"
  /\ \E p \in Producers :
       /\ tasks_[i][p] # <<>>
       /\ task' = [task EXCEPT ![i] = Head(tasks_[i][p])]
       /\ started' = [started EXCEPT ![i][p] = Append(@, Head(tasks_[i][p]))]
       /\ tasks_' = [tasks_ EXCEPT ![i][p] = Tail(@)]
  /\ worker' = [worker EXCEPT ![i] = "run"]
  /\ UNCHANGED <<stop, pool, joining, sent>>

(* Mutant of Yield: a worker that leaves when it finds nothing to do.      *)
LeaveWhenEmpty(i) ==
  /\ worker[i] = "poll" /\ \A p \in Producers : tasks_[i][p] = <<>>
  /\ worker' = [worker EXCEPT ![i] = "exited"]
  /\ UNCHANGED <<tasks_, task, stop, pool, joining, sent, started>>

(* ... or nothing, and the worker yields.                                  *)
Yield(i) ==
  /\ worker[i] = "poll" /\ \A p \in Producers : tasks_[i][p] = <<>>
  /\ worker' = [worker EXCEPT ![i] = "test"]
  /\ UNCHANGED <<tasks_, task, stop, pool, joining, sent, started>>

(* task() returns.                                                         *)
FinishTask(i) ==
  /\ worker[i] = "run"
  /\ worker' = [worker EXCEPT ![i] = "test"]
  /\ task' = [task EXCEPT ![i] = NoTask]
  /\ UNCHANGED <<tasks_, stop, pool, joining, sent, started>>

Destroy ==
  /\ pool = "up" /\ pool' = "closing"
  /\ UNCHANGED <<tasks_, worker, task, stop, joining, sent, started>>

(* ~jthread of the thread the destructor is at: request_stop ...           *)
RequestStop ==
  /\ pool = "closing" /\ ~stop[joining]
  /\ stop' = [stop EXCEPT ![joining] = TRUE]
  /\ UNCHANGED <<tasks_, worker, task, pool, joining, sent, started>>

(* Mutants of Join: detach instead; one thread too many.                   *)
Detach ==
  /\ pool = "closing" /\ stop[joining]
  /\ IF joining = 0
     THEN /\ pool' = "down" /\ joining' = joining
          /\ tasks_' = [i \in Shards |-> [p \in Producers |-> <<>>]]
     ELSE joining' = joining - 1 /\ UNCHANGED <<pool, tasks_>>
  /\ UNCHANGED <<worker, task, stop, sent, started>>
JoinOneMore ==
  /\ pool = "closing" /\ stop[joining] /\ worker[joining] = "exited"
  /\ joining' = joining - 1
  /\ UNCHANGED <<pool, tasks_, worker, task, stop, sent, started>>

(* ... and join.  After the first thread of the array the queues go.       *)
Join ==
  /\ pool = "closing" /\ stop[joining] /\ worker[joining] = "exited"
  /\ IF joining = 0
     THEN /\ pool' = "down" /\ joining' = joining
          /\ tasks_' = [i \in Shards |-> [p \in Producers |-> <<>>]]
     ELSE joining' = joining - 1 /\ UNCHANGED <<pool, tasks_>>
  /\ UNCHANGED <<worker, task, stop, sent, started>>

Worker(i) == TestStop(i) \/ TakeTask(i) \/ Yield(i) \/ FinishTask(i)

Destructor == RequestStop \/ Join

PoolNext == \/ \E p \in Producers, t \in Tasks, i \in Shards : enqueue(p, t, i)
            \/ \E i \in Shards : Worker(i)
            \/ Destroy
            \/ Destructor

PoolSpec == PoolInit /\ [][PoolNext]_poolVars

(* Every thread of the process gets to run, and a task returns; nobody has *)
(* to enqueue or to destroy the pool.                                      *)
PoolFairness == /\ \A i \in Shards : WF_poolVars(Worker(i))
                /\ WF_poolVars(Destructor)

FairPoolSpec == PoolSpec /\ PoolFairness

-----------------------------------------------------------------------------
(* Properties                                                              *)

PoolTypeOK ==
  /\ tasks_ \in [Shards -> [Producers -> Seq(Tasks)]]
  /\ worker \in [Shards -> {"new", "test", "poll", "run", "exited"}]
  /\ task \in [Shards -> Tasks \cup {NoTask}]
  /\ stop \in [Shards -> BOOLEAN]
  /\ pool \in {"up", "closing", "down"}
  /\ joining \in Shards
  /\ sent \in [Shards -> [Producers -> Seq(Tasks)]]
  /\ started \in [Shards -> [Producers -> Seq(Tasks)]]

(* What one thread enqueues for one shard is started once each and in that *)
(* order, with no gap: newOrder followed by cancelOrder from one client    *)
(* reach the book in that order.  Only the destructor drops what is queued.*)
InOrderOnce ==
  pool # "down" =>
    \A i \in Shards, p \in Producers :
       sent[i][p] = started[i][p] \o tasks_[i][p]

(* Once the destructor is past a thread, that shard runs nothing any more, *)
(* and when it is done no shard does: no task outlives the pool.           *)
JoinedIsOver ==
  \A i \in Shards :
     (i > joining /\ pool = "closing") \/ pool = "down" =>
       worker[i] = "exited" /\ task[i] = NoTask

(* Where the threads and the destructor can be together: a worker holds a  *)
(* task exactly while it runs one, leaves only when asked to, and is asked *)
(* only by a destructor that has joined every thread after it.             *)
Shutdown ==
  /\ \A i \in Shards : /\ worker[i] = "run" <=> task[i] # NoTask
                       /\ worker[i] = "exited" => stop[i]
                       /\ stop[i] => pool # "up" /\ i >= joining
                       /\ i > joining => worker[i] = "exited"
  /\ pool = "up" => joining = NUM_SHARDS - 1
  /\ pool = "down" => joining = 0 /\ worker[0] = "exited"

(* The histories: a task is enqueued once, what was started of a queue is  *)
(* a prefix of what was sent to it, and the task a worker runs is the last *)
(* it took from some producer.  With Shutdown and InOrderOnce inductive.   *)
Histories ==
  /\ \A i, j \in Shards, p, q \in Producers :
       \A m \in DOMAIN sent[i][p], n \in DOMAIN sent[j][q] :
          sent[i][p][m] = sent[j][q][n] => i = j /\ p = q /\ m = n
  /\ \A i \in Shards, p \in Producers : \A n \in DOMAIN started[i][p] :
       n \in DOMAIN sent[i][p] /\ started[i][p][n] = sent[i][p][n]
  /\ \A i \in Shards : task[i] # NoTask =>
       \E p \in Producers : LET n == Len(started[i][p]) IN
          n > 0 /\ task[i] = started[i][p][n]

(* The inductive invariant of the pool: types, the order of tasks, and     *)
(* where threads, destructor and histories can be together.                *)
PoolInv == PoolTypeOK /\ InOrderOnce /\ Shutdown /\ Histories

(* A task that was enqueued is started unless the pool is destroyed; the   *)
(* worker's busy loop gets to every producer's queue.                      *)
EnqueuedStarts ==
  \A i \in Shards, p \in Producers, t \in Tasks :
     t \in Range(sent[i][p]) ~> t \in Range(started[i][p]) \/ pool # "up"

(* The destructor returns, whatever is queued: the worker it joins looks   *)
(* at its stop token between two tasks.                                    *)
DestructorReturns == pool = "closing" ~> pool = "down"
=============================================================================

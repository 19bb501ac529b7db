-------------------------- MODULE ThreadPoolProofs --------------------------
(***************************************************************************)
(* Safety of ThreadPool for any number of shards, any producers and any    *)
(* set of tasks, however often they enqueue and whenever the destructor    *)
(* runs.                                                                   *)
(***************************************************************************)
EXTENDS ThreadPool, SequenceTheorems, TLAPS

USE ShardAssumption, TaskAssumption

-----------------------------------------------------------------------------
(* Sequences.                                                              *)

(* Moving the head of a queue to the end of what came before it.           *)
LEMMA MoveHead ==
  ASSUME NEW S, NEW s \in Seq(S), NEW q \in Seq(S), q # <<>>
  PROVE  Append(s, Head(q)) \o Tail(q) = s \o q
OBVIOUS

(* What is appended to the last of two sequences is appended to both.      *)
LEMMA AppendLeft ==
  ASSUME NEW S, NEW s \in Seq(S), NEW q \in Seq(S), NEW t \in S
  PROVE  s \o Append(q, t) = Append(s \o q, t)
OBVIOUS

(* What an appended sequence holds.                                        *)
LEMMA AppendAt ==
  ASSUME NEW S, NEW s \in Seq(S), NEW t \in S
  PROVE  /\ Append(s, t) \in Seq(S) /\ Len(Append(s, t)) = Len(s) + 1
         /\ DOMAIN Append(s, t) = DOMAIN s \cup {Len(s) + 1}
         /\ \A n \in DOMAIN s : Append(s, t)[n] = s[n]
         /\ Append(s, t)[Len(s) + 1] = t
         /\ DOMAIN s = 1 .. Len(s) /\ Len(s) \in Nat
OBVIOUS

(* An update of one producer's sequence at one shard.                      *)
LEMMA UpdateAt ==
  ASSUME NEW I, NEW P, NEW S, NEW f \in [I -> [P -> S]],
         NEW i \in I, NEW p \in P, NEW v \in S
  PROVE  /\ [f EXCEPT ![i][p] = v] \in [I -> [P -> S]]
         /\ [f EXCEPT ![i][p] = v][i][p] = v
         /\ \A j \in I, q \in P : j # i \/ q # p =>
              [f EXCEPT ![i][p] = v][j][q] = f[j][q]
OBVIOUS

-----------------------------------------------------------------------------
(* The steps keep the invariant.                                           *)

LEMMA PoolInitInv == PoolInit => PoolInv
BY DEF PoolInit, PoolInv, PoolTypeOK, InOrderOnce, Shutdown, Histories, Shards

(* enqueue keeps PoolInv.                                                  *)
LEMMA EnqueueInv ==
  ASSUME PoolInv, NEW p \in Producers, NEW t \in Tasks, NEW i \in Shards,
         enqueue(p, t, i)
  PROVE  PoolInv'
<1>1. /\ tasks_ \in [Shards -> [Producers -> Seq(Tasks)]]
      /\ sent \in [Shards -> [Producers -> Seq(Tasks)]]
      /\ started \in [Shards -> [Producers -> Seq(Tasks)]]
  BY DEF PoolInv, PoolTypeOK
<1>2. /\ tasks_[i][p] \in Seq(Tasks) /\ Append(tasks_[i][p], t) \in Seq(Tasks)
      /\ sent[i][p] \in Seq(Tasks) /\ Append(sent[i][p], t) \in Seq(Tasks)
      /\ started[i][p] \in Seq(Tasks)
  BY <1>1
<1>3. /\ tasks_' \in [Shards -> [Producers -> Seq(Tasks)]]
      /\ tasks_'[i][p] = Append(tasks_[i][p], t)
      /\ \A j \in Shards, q \in Producers : j # i \/ q # p =>
           tasks_'[j][q] = tasks_[j][q]
  BY <1>1, <1>2, UpdateAt DEF enqueue
<1>4. /\ sent' \in [Shards -> [Producers -> Seq(Tasks)]]
      /\ sent'[i][p] = Append(sent[i][p], t)
      /\ \A j \in Shards, q \in Producers : j # i \/ q # p =>
           sent'[j][q] = sent[j][q]
  BY <1>1, <1>2, UpdateAt DEF enqueue
<1>5. PoolTypeOK'
  BY <1>3, <1>4 DEF PoolInv, PoolTypeOK, enqueue
<1>6. InOrderOnce'
  <2>1. pool # "down" /\ UNCHANGED started
    BY DEF enqueue
  <2>2. \A j \in Shards, q \in Producers :
          sent[j][q] = started[j][q] \o tasks_[j][q]
    BY <2>1 DEF PoolInv, InOrderOnce
  <2>3. Append(started[i][p] \o tasks_[i][p], t)
          = started[i][p] \o Append(tasks_[i][p], t)
    <3> DEFINE a == started[i][p]
               b == tasks_[i][p]
    <3>1. a \in Seq(Tasks) /\ b \in Seq(Tasks)
      BY <1>2
    <3> HIDE DEF a, b
    <3>2. Append(a \o b, t) = a \o Append(b, t)
      BY <3>1, AppendLeft
    <3>3. QED
      BY <3>2 DEF a, b
  <2>4. sent'[i][p] = started[i][p] \o tasks_'[i][p]
    BY <1>3, <1>4, <2>2, <2>3
  <2>5. QED
    <3> SUFFICES ASSUME NEW j \in Shards, NEW q \in Producers
                 PROVE  sent'[j][q] = started'[j][q] \o tasks_'[j][q]
      BY DEF InOrderOnce
    <3>1. CASE j = i /\ q = p
      BY <2>1, <2>4, <3>1
    <3>2. CASE j # i \/ q # p
      BY <1>3, <1>4, <2>1, <2>2, <3>2
    <3>3. QED
      BY <3>1, <3>2
<1>7. Shutdown'
  BY DEF PoolInv, Shutdown, enqueue
<1>8. Histories'
  <2>1. \A j \in Shards, q \in Producers : \A n \in DOMAIN sent[j][q] :
          sent[j][q][n] # t
    BY DEF enqueue, Range
  <2>2. \A j \in Shards, q \in Producers :
          /\ DOMAIN sent[j][q] \subseteq DOMAIN sent'[j][q]
          /\ \A n \in DOMAIN sent[j][q] : sent'[j][q][n] = sent[j][q][n]
          /\ \A n \in DOMAIN sent'[j][q] : n \notin DOMAIN sent[j][q] =>
               j = i /\ q = p /\ n = Len(sent[i][p]) + 1 /\ sent'[j][q][n] = t
    <3>1. /\ DOMAIN sent'[i][p] = DOMAIN sent[i][p] \cup {Len(sent[i][p]) + 1}
          /\ \A n \in DOMAIN sent[i][p] : sent'[i][p][n] = sent[i][p][n]
          /\ sent'[i][p][Len(sent[i][p]) + 1] = t
      BY <1>2, <1>4, AppendAt
    <3>2. QED
      BY <1>4, <3>1
  <2>3. QED
    BY <2>1, <2>2 DEF PoolInv, Histories, enqueue
<1>9. QED
  BY <1>5, <1>6, <1>7, <1>8 DEF PoolInv

(* TakeTask keeps PoolInv.                                                 *)
LEMMA TakeTaskInv ==
  ASSUME PoolInv, NEW i \in Shards, TakeTask(i) PROVE PoolInv'
<1>1. /\ tasks_ \in [Shards -> [Producers -> Seq(Tasks)]]
      /\ sent \in [Shards -> [Producers -> Seq(Tasks)]]
      /\ started \in [Shards -> [Producers -> Seq(Tasks)]]
      /\ task \in [Shards -> Tasks \cup {NoTask}]
      /\ worker \in [Shards -> {"new", "test", "poll", "run", "exited"}]
  BY DEF PoolInv, PoolTypeOK
<1>2. PICK p \in Producers :
        /\ tasks_[i][p] # <<>>
        /\ task' = [task EXCEPT ![i] = Head(tasks_[i][p])]
        /\ started' = [started EXCEPT ![i][p] = Append(@, Head(tasks_[i][p]))]
        /\ tasks_' = [tasks_ EXCEPT ![i][p] = Tail(@)]
  BY DEF TakeTask
<1> DEFINE t == Head(tasks_[i][p])
<1>3. /\ tasks_[i][p] \in Seq(Tasks) /\ started[i][p] \in Seq(Tasks)
      /\ t \in Tasks /\ Tail(tasks_[i][p]) \in Seq(Tasks)
      /\ Append(started[i][p], t) \in Seq(Tasks)
  BY <1>1, <1>2
<1>4. /\ tasks_' \in [Shards -> [Producers -> Seq(Tasks)]]
      /\ tasks_'[i][p] = Tail(tasks_[i][p])
      /\ \A j \in Shards, q \in Producers : j # i \/ q # p =>
           tasks_'[j][q] = tasks_[j][q]
  BY <1>1, <1>2, <1>3, UpdateAt
<1>5. /\ started' \in [Shards -> [Producers -> Seq(Tasks)]]
      /\ started'[i][p] = Append(started[i][p], t)
      /\ \A j \in Shards, q \in Producers : j # i \/ q # p =>
           started'[j][q] = started[j][q]
  BY <1>1, <1>2, <1>3, UpdateAt
<1>6. /\ worker[i] = "poll" /\ worker' = [worker EXCEPT ![i] = "run"]
      /\ UNCHANGED <<stop, pool, joining, sent>>
  BY DEF TakeTask
<1>7. PoolTypeOK'
  BY <1>1, <1>2, <1>3, <1>4, <1>5, <1>6 DEF PoolInv, PoolTypeOK
<1>8. pool # "down"
  <2>1. i \in 0 .. NUM_SHARDS - 1 /\ worker[i] # "exited"
    BY <1>6 DEF Shards
  <2>2. pool = "down" => i > 0 \/ i = 0
    BY <2>1
  <2>3. QED
    BY <2>1, <2>2 DEF PoolInv, Shutdown
<1>9. InOrderOnce'
  <2>1. started'[i][p] \o tasks_'[i][p] = started[i][p] \o tasks_[i][p]
    BY <1>2, <1>3, <1>4, <1>5, MoveHead
  <2>2. QED
    <3>1. \A j \in Shards, q \in Producers :
            sent[j][q] = started[j][q] \o tasks_[j][q]
      BY <1>8 DEF PoolInv, InOrderOnce
    <3>2. QED
      BY <1>4, <1>5, <1>6, <2>1, <3>1 DEF InOrderOnce
<1>10. Shutdown'
  <2>1. task'[i] = t /\ t # NoTask
    BY <1>1, <1>2, <1>3
  <2>2. QED
    BY <1>1, <1>2, <1>6, <2>1 DEF PoolInv, PoolTypeOK, Shutdown
<1>11. Histories'
  <2>1. sent[i][p] = Append(started[i][p], t) \o Tail(tasks_[i][p])
    <3>1. sent[i][p] = started[i][p] \o tasks_[i][p]
      BY <1>8 DEF PoolInv, InOrderOnce
    <3>2. QED
      BY <1>2, <1>3, <3>1, MoveHead
  <2>2. \A n \in DOMAIN started'[i][p] :
          n \in DOMAIN sent[i][p] /\ started'[i][p][n] = sent[i][p][n]
    <3> DEFINE a == Append(started[i][p], t)
               b == Tail(tasks_[i][p])
    <3>1. a \in Seq(Tasks) /\ b \in Seq(Tasks)
      BY <1>3
    <3> HIDE DEF a, b
    <3>2. \A n \in DOMAIN a : n \in DOMAIN (a \o b) /\ (a \o b)[n] = a[n]
      BY <3>1
    <3>3. QED
      BY <1>5, <2>1, <3>2 DEF a, b
  <2>3. \A j \in Shards : task'[j] # NoTask =>
          \E q \in Producers : LET n == Len(started'[j][q]) IN
             n > 0 /\ task'[j] = started'[j][q][n]
    <3>1. Len(started'[i][p]) > 0 /\ task'[i] = started'[i][p][Len(started'[i][p])]
      BY <1>1, <1>2, <1>3, <1>5, AppendAt
    <3>2. \A j \in Shards : j # i => task'[j] = task[j]
      BY <1>1, <1>2
    <3>3. QED
      <4>1. \A j \in Shards : task[j] # NoTask =>
              \E q \in Producers : LET n == Len(started[j][q]) IN
                 n > 0 /\ task[j] = started[j][q][n]
        BY DEF PoolInv, Histories
      <4>2. QED
        <5> SUFFICES ASSUME NEW j \in Shards, task'[j] # NoTask
                     PROVE  \E q \in Producers : LET n == Len(started'[j][q]) IN
                              n > 0 /\ task'[j] = started'[j][q][n]
          OBVIOUS
        <5>1. CASE j = i
          BY <3>1, <5>1
        <5>2. CASE j # i
          <6>1. PICK q \in Producers : LET n == Len(started[j][q]) IN
                  n > 0 /\ task[j] = started[j][q][n]
            BY <3>2, <4>1, <5>2
          <6>2. started'[j][q] = started[j][q] /\ task'[j] = task[j]
            BY <1>5, <3>2, <5>2
          <6>3. QED
            BY <6>1, <6>2
        <5>3. QED
          BY <5>1, <5>2
  <2>4. QED
    <3>1. \A j \in Shards, q \in Producers : \A n \in DOMAIN started'[j][q] :
            n \in DOMAIN sent[j][q] /\ started'[j][q][n] = sent[j][q][n]
      <4>1. \A j \in Shards, q \in Producers : \A n \in DOMAIN started[j][q] :
              n \in DOMAIN sent[j][q] /\ started[j][q][n] = sent[j][q][n]
        BY DEF PoolInv, Histories
      <4>2. QED
        <5> SUFFICES ASSUME NEW j \in Shards, NEW q \in Producers
                     PROVE  \A n \in DOMAIN started'[j][q] :
                              n \in DOMAIN sent[j][q]
                              /\ started'[j][q][n] = sent[j][q][n]
          OBVIOUS
        <5>1. CASE j = i /\ q = p
          BY <2>2, <5>1
        <5>2. CASE j # i \/ q # p
          <6>1. started'[j][q] = started[j][q]
            BY <1>5, <5>2
          <6>2. QED
            BY <4>1, <6>1
        <5>3. QED
          BY <5>1, <5>2
    <3>2. QED
      BY <1>6, <2>3, <3>1 DEF PoolInv, Histories
<1>12. QED
  BY <1>7, <1>9, <1>10, <1>11 DEF PoolInv

(* The steps that leave the queues and the histories alone.                *)
LEMMA HistoriesSame ==
  ASSUME Histories, UNCHANGED <<task, sent, started>> PROVE Histories'
BY DEF Histories

(* What starts and enqueues nothing keeps InOrderOnce.                     *)
LEMMA OrderSame ==
  ASSUME InOrderOnce, UNCHANGED <<tasks_, sent, started>>,
         pool' # "down" => pool # "down"
  PROVE  InOrderOnce'
BY DEF InOrderOnce

(* TestStop keeps PoolInv.                                                 *)
LEMMA TestStopInv ==
  ASSUME PoolInv, NEW i \in Shards, TestStop(i) PROVE PoolInv'
<1>1. PoolTypeOK'
  BY DEF PoolInv, PoolTypeOK, TestStop
<1>2. InOrderOnce' /\ Histories'
  BY HistoriesSame, OrderSame DEF PoolInv, TestStop
<1>3. Shutdown'
  BY DEF PoolInv, PoolTypeOK, Shutdown, TestStop
<1>4. QED
  BY <1>1, <1>2, <1>3 DEF PoolInv

(* Yield keeps PoolInv.                                                    *)
LEMMA YieldInv ==
  ASSUME PoolInv, NEW i \in Shards, Yield(i) PROVE PoolInv'
<1>1. PoolTypeOK'
  BY DEF PoolInv, PoolTypeOK, Yield
<1>2. InOrderOnce' /\ Histories'
  BY HistoriesSame, OrderSame DEF PoolInv, Yield
<1>3. Shutdown'
  BY DEF PoolInv, PoolTypeOK, Shutdown, Yield
<1>4. QED
  BY <1>1, <1>2, <1>3 DEF PoolInv

(* FinishTask keeps PoolInv.                                               *)
LEMMA FinishTaskInv ==
  ASSUME PoolInv, NEW i \in Shards, FinishTask(i) PROVE PoolInv'
<1>1. PoolTypeOK'
  BY DEF PoolInv, PoolTypeOK, FinishTask
<1>2. InOrderOnce'
  BY OrderSame DEF PoolInv, FinishTask
<1>3. Shutdown'
  BY DEF PoolInv, PoolTypeOK, Shutdown, FinishTask
<1>4. Histories'
  <2>1. /\ \A j \in Shards : task'[j] # NoTask => task'[j] = task[j]
        /\ UNCHANGED <<sent, started>>
    BY DEF PoolInv, PoolTypeOK, FinishTask
  <2>2. QED
    BY <2>1 DEF PoolInv, Histories
<1>5. QED
  BY <1>1, <1>2, <1>3, <1>4 DEF PoolInv

(* Destroy keeps PoolInv.                                                  *)
LEMMA DestroyInv == ASSUME PoolInv, Destroy PROVE PoolInv'
<1>1. PoolTypeOK'
  BY DEF PoolInv, PoolTypeOK, Destroy
<1>2. InOrderOnce' /\ Histories'
  BY HistoriesSame, OrderSame DEF PoolInv, Destroy
<1>3. Shutdown'
  BY DEF PoolInv, PoolTypeOK, Shutdown, Destroy
<1>4. QED
  BY <1>1, <1>2, <1>3 DEF PoolInv

(* RequestStop keeps PoolInv.                                              *)
LEMMA RequestStopInv == ASSUME PoolInv, RequestStop PROVE PoolInv'
<1>1. PoolTypeOK'
  BY DEF PoolInv, PoolTypeOK, RequestStop
<1>2. InOrderOnce' /\ Histories'
  BY HistoriesSame, OrderSame DEF PoolInv, RequestStop
<1>3. Shutdown'
  BY DEF PoolInv, PoolTypeOK, Shutdown, RequestStop, Shards
<1>4. QED
  BY <1>1, <1>2, <1>3 DEF PoolInv

(* A worker that was joined has left its loop for good, so what the        *)
(* destructor is past is over.                                             *)
LEMMA JoinInv == ASSUME PoolInv, Join PROVE PoolInv'
<1>1. joining \in 0 .. NUM_SHARDS - 1 /\ pool = "closing"
  BY DEF PoolInv, PoolTypeOK, Join, Shards
<1>2. UNCHANGED <<worker, task, stop, sent, started>>
  BY DEF Join
<1>3. CASE joining = 0
  <2>1. /\ pool' = "down" /\ joining' = joining /\ worker[0] = "exited"
        /\ tasks_' = [i \in Shards |-> [p \in Producers |-> <<>>]]
    BY <1>3 DEF Join
  <2>2. PoolTypeOK'
    BY <1>2, <2>1 DEF PoolInv, PoolTypeOK
  <2>3. InOrderOnce' /\ Histories'
    BY <1>2, <2>1, HistoriesSame DEF PoolInv, InOrderOnce
  <2>4. Shutdown'
    BY <1>2, <1>3, <2>1 DEF PoolInv, Shutdown
  <2>5. QED
    BY <2>2, <2>3, <2>4 DEF PoolInv
<1>4. CASE joining # 0
  <2>1. /\ joining' = joining - 1 /\ UNCHANGED <<pool, tasks_>>
        /\ worker[joining] = "exited"
    BY <1>4 DEF Join
  <2>2. PoolTypeOK'
    BY <1>1, <1>2, <1>4, <2>1 DEF PoolInv, PoolTypeOK, Shards
  <2>3. InOrderOnce' /\ Histories'
    BY <1>2, <2>1, HistoriesSame, OrderSame DEF PoolInv
  <2>4. Shutdown'
    BY <1>1, <1>2, <2>1 DEF PoolInv, Shutdown, Shards
  <2>5. QED
    BY <2>2, <2>3, <2>4 DEF PoolInv
<1>5. QED
  BY <1>3, <1>4

(* What leaves the pool alone keeps PoolInv.                               *)
LEMMA PoolStutter == ASSUME PoolInv, UNCHANGED poolVars PROVE PoolInv'
<1>1. PoolTypeOK' /\ Shutdown'
  BY DEF poolVars, PoolInv, PoolTypeOK, Shutdown
<1>2. QED
  BY <1>1, HistoriesSame, OrderSame DEF poolVars, PoolInv

(* Every step of the pool keeps PoolInv.                                   *)
LEMMA PoolStepInv == PoolInv /\ [PoolNext]_poolVars => PoolInv'
BY EnqueueInv, TakeTaskInv, TestStopInv, YieldInv, FinishTaskInv, DestroyInv,
   RequestStopInv, JoinInv, PoolStutter DEF PoolNext, Worker, Destructor

-----------------------------------------------------------------------------
(* The theorems.                                                           *)

(* The invariant the others are read off.                                  *)
THEOREM PoolInvariance == PoolSpec => []PoolInv
BY PoolInitInv, PoolStepInv, PTL DEF PoolSpec

(* Every variable of the pool keeps to its type.                           *)
THEOREM PoolTypeCorrect == PoolSpec => []PoolTypeOK
<1>1. PoolInv => PoolTypeOK
  BY DEF PoolInv
<1>2. QED
  BY <1>1, PoolInvariance, PTL

(* Until the destructor drops the queues, what a producer enqueued for a   *)
(* shard is what the worker started of it followed by what is queued: no   *)
(* task is lost, repeated or overtaken by another of its producer.         *)
THEOREM StartedInOrder == PoolSpec => []InOrderOnce
<1>1. PoolInv => InOrderOnce
  BY DEF PoolInv
<1>2. QED
  BY <1>1, PoolInvariance, PTL

(* What Shutdown says of the workers is JoinedIsOver.                      *)
LEMMA ShutdownIsOver == PoolInv => JoinedIsOver
BY DEF PoolInv, PoolTypeOK, Shutdown, JoinedIsOver, Shards

(* A worker the destructor has joined runs nothing any more; when the      *)
(* destructor is done none of them does.                                   *)
THEOREM NoTaskOutlivesPool == PoolSpec => []JoinedIsOver
BY ShutdownIsOver, PoolInvariance, PTL
=============================================================================

--------------------------- MODULE ExchangeProofs ---------------------------
(***************************************************************************)
(* Safety of Exchange for any number of shards, any clients, symbols and   *)
(* orders, and any number of calls.  The pool it runs on is the one of     *)
(* ThreadPool, so what ThreadPoolProofs shows of that one holds here.      *)
(*                                                                         *)
(* The second half shows that Exchange implements Venue: a step of the     *)
(* exchange is, seen by its clients, a step of the venue or none.  A call  *)
(* is made when it is enqueued and takes effect when its task returns; in  *)
(* between it moves from the queue to the worker, which does not change its*)
(* place among the calls that one client has made for one symbol.          *)
(***************************************************************************)
EXTENDS Exchange, FoldTheorems

TP == INSTANCE ThreadPoolProofs

USE SymbolAssumption, PoolAssumption

-----------------------------------------------------------------------------
(* The pool.                                                               *)

LEMMA ShardOf == \A symbol \in Symbols : getShard(symbol) \in Shards
BY DEF getShard, Shards

(* A call makes a task.                                                    *)
LEMMA SubmitIsTask ==
  ASSUME PoolInv, NEW c \in Producers, NEW op \in {"new", "cancel"},
         NEW symbol \in Symbols, NEW h \in Handles, Submit(c, op, symbol, h)
  PROVE  \E t \in Tasks :
           /\ t.op = op /\ t.symbol = symbol /\ t.order = h /\ t.by = c
           /\ t.nr = Len(sent[getShard(symbol)][c]) + 1
           /\ enqueue(c, t, getShard(symbol))
           /\ UNCHANGED <<shards_, alive, corrupt, reading>>
<1> DEFINE n == Len(sent[getShard(symbol)][c]) + 1
<1>1. n \in Nat
  BY ShardOf DEF PoolInv, PoolTypeOK
<1> HIDE DEF n
<1>2. [op |-> op, symbol |-> symbol, order |-> h, by |-> c, nr |-> n] \in Tasks
  BY <1>1 DEF Tasks
<1>3. QED
  BY <1>2 DEF Submit, n

(* A step of the exchange is one of its pool, or leaves the pool alone.    *)
LEMMA PoolSteps == PoolInv /\ [Next]_vars => [PoolNext]_poolVars
<1> SUFFICES ASSUME PoolInv, [Next]_vars PROVE [PoolNext]_poolVars
  OBVIOUS
<1>1. ASSUME NEW c \in Producers, Client(c) PROVE [PoolNext]_poolVars
  <2>1. ASSUME NEW op \in {"new", "cancel"}, NEW symbol \in Symbols,
               NEW h \in Handles, Submit(c, op, symbol, h)
        PROVE  PoolNext
    BY <2>1, SubmitIsTask, ShardOf DEF PoolNext
  <2>2. QED
    BY <1>1, <2>1 DEF Client, newOrder, cancelOrder, BeginGetOrder, EndGetOrder,
                      thread_pool_, poolVars
<1>2. ASSUME NEW i \in Shards, Work(i) PROVE [PoolNext]_poolVars
  BY <1>2 DEF Work, UseFreed, PoolNext, Worker, thread_pool_, poolVars
<1>3. DestroyPool \/ DestroyPoolStep => PoolNext
  BY DEF DestroyPool, DestroyPoolStep, PoolNext
<1>4. DestroyBooks \/ UNCHANGED vars => UNCHANGED poolVars
  BY DEF DestroyBooks, vars, thread_pool_, poolVars
<1>5. QED
  BY <1>1, <1>2, <1>3, <1>4 DEF Next

(* The invariant of ThreadPool is that of the pool in the exchange,        *)
LEMMA PoolInvIs == PoolInv <=> TP!PoolInv
BY DEF PoolInv, TP!PoolInv, PoolTypeOK, TP!PoolTypeOK, Shards, TP!Shards,
       InOrderOnce, TP!InOrderOnce, Shutdown, TP!Shutdown,
       Histories, TP!Histories

(* and after a step,                                                       *)
LEMMA PoolInvIsNext == PoolInv' <=> TP!PoolInv'
BY DEF PoolInv, TP!PoolInv, PoolTypeOK, TP!PoolTypeOK, Shards, TP!Shards,
       InOrderOnce, TP!InOrderOnce, Shutdown, TP!Shutdown,
       Histories, TP!Histories

(* and its steps keep it here as they do there.                            *)
LEMMA PoolKeeps == PoolInv /\ [PoolNext]_poolVars => PoolInv'
<1>1. Shards = TP!Shards
  BY DEF Shards, TP!Shards
<1>2. ASSUME NEW p \in Producers, NEW t \in Tasks, NEW i \in Shards
      PROVE  enqueue(p, t, i) => TP!enqueue(p, t, i)
  BY <1>1 DEF enqueue, TP!enqueue, Range, TP!Range
<1>3. ASSUME NEW i \in Shards PROVE Worker(i) => TP!Worker(i)
  BY DEF Worker, TP!Worker, TestStop, TP!TestStop, TakeTask, TP!TakeTask,
         Yield, TP!Yield, FinishTask, TP!FinishTask
<1>4. Destroy => TP!Destroy
  BY DEF Destroy, TP!Destroy
<1>5. Destructor => TP!Destructor
  BY DEF Destructor, TP!Destructor, RequestStop, TP!RequestStop,
         Join, TP!Join, Shards, TP!Shards
<1>6. UNCHANGED poolVars => UNCHANGED TP!poolVars
  BY DEF poolVars, TP!poolVars
<1>7. [PoolNext]_poolVars => [TP!PoolNext]_TP!poolVars
  BY <1>1, <1>2, <1>3, <1>4, <1>5, <1>6 DEF PoolNext, TP!PoolNext
<1>8. QED
  BY <1>7, PoolInvIs, PoolInvIsNext, TP!PoolStepInv

(* What ThreadPoolProofs shows of the pool holds of the one in the         *)
(* exchange.                                                               *)
LEMMA PoolHolds == Spec => []PoolInv
<1>1. Init => PoolInv
  <2>1. Init => TP!PoolInit
    BY DEF Init, PoolInit, TP!PoolInit, Shards, TP!Shards
  <2>2. QED
    BY <2>1, PoolInvIs, TP!PoolInitInv
<1>2. QED
  BY <1>1, PoolSteps, PoolKeeps, PTL DEF Spec

(* The pool of the exchange does what ThreadPool says.                     *)
THEOREM RunsThePool == Spec => PoolSpec
<1>1. Init => PoolInit
  BY DEF Init
<1>2. QED
  BY <1>1, PoolHolds, PoolSteps, PTL DEF Spec, PoolSpec

-----------------------------------------------------------------------------
(* What the histories of the pool say of a call.                           *)

LEMMA CallsAre ==
  \A t : t \in Calls <=> \E i \in Shards, c \in Producers : t \in Range(sent[i][c])
BY DEF Calls

(* A worker starts only what was enqueued.                                 *)
LEMMA StartedAreSent ==
  ASSUME PoolInv, NEW i \in Shards, NEW c \in Producers,
         NEW t \in Range(started[i][c])
  PROVE  t \in Range(sent[i][c])
BY DEF PoolInv, Histories, Range

(* What was enqueued is a task.                                            *)
LEMMA SentAreTasks ==
  ASSUME PoolInv, NEW i \in Shards, NEW c \in Producers,
         NEW t \in Range(sent[i][c])
  PROVE  t \in Tasks
BY DEF PoolInv, PoolTypeOK, Range

(* A call is in the queue of its client, on the shard of its symbol.       *)
LEMMA SentAreRouted ==
  ASSUME CallsRouted, NEW i \in Shards, NEW c \in Producers,
         NEW t \in Range(sent[i][c])
  PROVE  t.by = c /\ i = getShard(t.symbol)
BY DEF CallsRouted, Range

(* The call a worker runs is the last it took from the queue of its client.*)
LEMMA RunningIsLast ==
  ASSUME PoolInv, CallsRouted, NEW i \in Shards, task[i] # NoTask
  PROVE  /\ task[i] \in Tasks
         /\ Len(started[i][task[i].by]) \in DOMAIN started[i][task[i].by]
         /\ task[i] = started[i][task[i].by][Len(started[i][task[i].by])]
         /\ i = getShard(task[i].symbol)
<1>1. PICK c \in Producers : LET n == Len(started[i][c]) IN
                               n > 0 /\ task[i] = started[i][c][n]
  BY DEF PoolInv, Histories
<1>2. started[i][c] \in Seq(Tasks) /\ task[i] \in Tasks
  BY DEF PoolInv, PoolTypeOK
<1>3. Len(started[i][c]) \in DOMAIN started[i][c]
  BY <1>1, <1>2
<1>4. task[i] \in Range(started[i][c])
  BY <1>1, <1>3 DEF Range
<1>5. task[i].by = c /\ i = getShard(task[i].symbol)
  BY <1>4, StartedAreSent, SentAreRouted
<1>6. QED
  BY <1>1, <1>2, <1>3, <1>5

(* It was started and enqueued.                                            *)
LEMMA RunningIsStarted ==
  ASSUME PoolInv, CallsRouted, NEW i \in Shards, task[i] # NoTask
  PROVE  /\ task[i].by \in Producers /\ task[i] \in Range(started[i][task[i].by])
         /\ task[i] \in Calls
<1>1. task[i].by \in Producers
  BY RunningIsLast DEF Tasks
<1>2. task[i] \in Range(started[i][task[i].by])
  BY RunningIsLast DEF Range
<1>3. QED
  BY <1>1, <1>2, StartedAreSent, CallsAre

(* A call that is made was never made before, and joins one queue.         *)
LEMMA EnqueueAdds ==
  ASSUME PoolInv, NEW c \in Producers, NEW t \in Tasks, NEW i \in Shards,
         enqueue(c, t, i)
  PROVE  /\ t \notin Calls
         /\ sent[i][c] \in Seq(Tasks) /\ sent'[i][c] = Append(sent[i][c], t)
         /\ \A j \in Shards, d \in Producers : j # i \/ d # c =>
              sent'[j][d] = sent[j][d]
         /\ Range(sent'[i][c]) = Range(sent[i][c]) \cup {t}
         /\ Calls' = Calls \cup {t}
         /\ UNCHANGED <<task, started>>
<1>1. sent \in [Shards -> [Producers -> Seq(Tasks)]]
  BY DEF PoolInv, PoolTypeOK
<1>2. sent[i][c] \in Seq(Tasks) /\ Append(sent[i][c], t) \in Seq(Tasks)
  BY <1>1
<1>3. /\ sent'[i][c] = Append(sent[i][c], t)
      /\ \A j \in Shards, d \in Producers : j # i \/ d # c =>
           sent'[j][d] = sent[j][d]
  BY <1>1, <1>2, TP!UpdateAt DEF enqueue
<1>4. t \notin Calls
  BY CallsAre DEF enqueue
<1>5. Range(sent'[i][c]) = Range(sent[i][c]) \cup {t}
  BY <1>2, <1>3, TP!AppendAt DEF Range
<1>6. Calls' = Calls \cup {t}
  <2>1. \A u \in Calls' : u \in Calls \/ u = t
    <3> SUFFICES ASSUME NEW j \in Shards, NEW d \in Producers,
                        NEW u \in Range(sent'[j][d])
                 PROVE  u \in Calls \/ u = t
      BY DEF Calls
    <3>1. u \in Range(sent[j][d]) \/ u = t
      <4>1. CASE j = i /\ d = c
        BY <1>5, <4>1
      <4>2. CASE j # i \/ d # c
        <5>1. sent'[j][d] = sent[j][d]
          BY <1>3, <4>2
        <5>2. QED
          BY <5>1
      <4>3. QED
        BY <4>1, <4>2
    <3>2. QED
      BY <3>1, CallsAre
  <2>2. \A u : u \in Calls \/ u = t => u \in Calls'
    <3>1. \A j \in Shards, d \in Producers :
            Range(sent[j][d]) \subseteq Range(sent'[j][d])
      BY <1>3, <1>5
    <3>2. \A u : u \in Calls' <=>
            \E j \in Shards, d \in Producers : u \in Range(sent'[j][d])
      BY DEF Calls
    <3>3. t \in Range(sent'[i][c])
      BY <1>5
    <3>4. QED
      BY <3>1, <3>2, <3>3, CallsAre
  <2>3. QED
    BY <2>1, <2>2
<1>7. QED
  BY <1>2, <1>3, <1>4, <1>5, <1>6 DEF enqueue

(* A call a worker takes was not taken before, and joins what was started. *)
LEMMA TakeAdds ==
  ASSUME PoolInv, PoolInv', NEW i \in Shards, TakeTask(i)
  PROVE  /\ task[i] = NoTask /\ task'[i] \in Tasks
         /\ \A j \in Shards : j # i => task'[j] = task[j]
         /\ \A j \in Shards, d \in Producers : task'[i] \notin Range(started[j][d])
         /\ \E c \in Producers :
              /\ Range(started'[i][c]) = Range(started[i][c]) \cup {task'[i]}
              /\ \A j \in Shards, d \in Producers : j # i \/ d # c =>
                   started'[j][d] = started[j][d]
         /\ UNCHANGED sent
<1>1. /\ tasks_ \in [Shards -> [Producers -> Seq(Tasks)]]
      /\ started \in [Shards -> [Producers -> Seq(Tasks)]]
      /\ task \in [Shards -> Tasks \cup {NoTask}]
  BY DEF PoolInv, PoolTypeOK
<1>2. PICK c \in Producers :
        /\ tasks_[i][c] # <<>>
        /\ task' = [task EXCEPT ![i] = Head(tasks_[i][c])]
        /\ started' = [started EXCEPT ![i][c] = Append(@, Head(tasks_[i][c]))]
  BY DEF TakeTask
<1>3. task'[i] = Head(tasks_[i][c]) /\ task'[i] \in Tasks
  BY <1>1, <1>2
<1>4. started[i][c] \in Seq(Tasks) /\ Append(started[i][c], task'[i]) \in Seq(Tasks)
  BY <1>1, <1>3
<1>5. /\ started'[i][c] = Append(started[i][c], task'[i])
      /\ \A j \in Shards, d \in Producers : j # i \/ d # c =>
           started'[j][d] = started[j][d]
  BY <1>1, <1>2, <1>3, <1>4, TP!UpdateAt
<1>6. Range(started'[i][c]) = Range(started[i][c]) \cup {task'[i]}
  BY <1>4, <1>5, TP!AppendAt DEF Range
<1> DEFINE m == Len(started[i][c]) + 1
<1>7. m \in DOMAIN started'[i][c] /\ started'[i][c][m] = task'[i]
  BY <1>3, <1>4, <1>5, TP!AppendAt
<1>8. m \notin DOMAIN started[i][c]
  BY <1>4
<1> HIDE DEF m
<1>9. UNCHANGED sent
  BY DEF TakeTask
<1>10. m \in DOMAIN sent[i][c] /\ sent[i][c][m] = task'[i]
  BY <1>7, <1>9 DEF PoolInv, Histories
<1>11. ASSUME NEW j \in Shards, NEW d \in Producers, NEW n \in DOMAIN started[j][d],
              started[j][d][n] = task'[i]
       PROVE  FALSE
  <2>1. n \in DOMAIN sent[j][d] /\ sent[j][d][n] = sent[i][c][m]
    BY <1>10, <1>11 DEF PoolInv, Histories
  <2>2. j = i /\ d = c /\ n = m
    BY <1>10, <2>1 DEF PoolInv, Histories
  <2>3. QED
    BY <1>8, <2>2
<1>12. \A j \in Shards, d \in Producers : task'[i] \notin Range(started[j][d])
  BY <1>11 DEF Range
<1>13. task[i] = NoTask /\ \A j \in Shards : j # i => task'[j] = task[j]
  BY <1>1, <1>2 DEF TakeTask, PoolInv, Shutdown
<1>14. QED
  BY <1>3, <1>5, <1>6, <1>9, <1>12, <1>13

-----------------------------------------------------------------------------
(* The book of handles.                                                    *)

(* An order rests once at most, and its entry leads to it.                 *)
Exact(x) == x.copies <= 1 /\ (x.copies = 1 => x.entry = "live")

(* What an order is left with when another one comes in is no more than it *)
(* was,                                                                    *)
LEMMA FillsAre ==
  ASSUME NEW x \in Places, NEW y \in AfterFills(x)
  PROVE  /\ y \in Places /\ y.copies <= x.copies
         /\ Exact(x) => Exact(y)
         /\ x = Absent => y = Absent
BY DEF AfterFills, Places, Entries, Exact, Absent

(* and the one that comes in rests once more or not.                       *)
LEMMA EntryIs ==
  ASSUME NEW x \in Places, NEW y \in AfterEntry(x)
  PROVE  /\ y \in Places
         /\ y = x \/ (y.copies = x.copies + 1 /\ y.entry = "live")
BY DEF AfterEntry, Places, Entries

(* newOrder's outcome, order by order.                                     *)
LEMMA EnteredIs ==
  ASSUME NEW book \in [Handles -> Places], NEW h \in Handles,
         NEW b \in Entered(book, h)
  PROVE  /\ b \in [Handles -> Places]
         /\ b[h] \in AfterEntry(book[h])
         /\ \A g \in Handles : g # h => b[g] \in AfterFills(book[g])
<1>1. /\ b[h] \in AfterEntry(book[h])
      /\ \A g \in Handles : g # h => b[g] \in AfterFills(book[g])
  BY DEF Entered
<1>2. \A g \in Handles : b[g] \in Places
  BY <1>1, FillsAre, EntryIs
<1>3. b \in [Handles -> UNION {AfterFills(book[g]) \cup AfterEntry(book[g]) : g \in Handles}]
  BY DEF Entered
<1>4. QED
  BY <1>1, <1>2, <1>3

(* cancelOrder's outcome.                                                  *)
LEMMA CancelledIs ==
  ASSUME NEW book \in [Handles -> Places], NEW h \in Handles
  PROVE  /\ Cancelled(book, h) \in [Handles -> Places]
         /\ Exact(book[h]) => /\ Exact(Cancelled(book, h)[h])
                              /\ Cancelled(book, h)[h].copies = 0
         /\ book[h] = Absent => Cancelled(book, h)[h] = Absent
         /\ \A g \in Handles : g # h => Cancelled(book, h)[g] = book[g]
<1>1. PICK x \in Places : x = book[h]
  OBVIOUS
<1>2. x \in [copies: Nat, entry: Entries] /\ (x.entry = "live" => x.copies > 0)
  BY DEF Places
<1>3. CASE x.entry = "live"
  <2> DEFINE y == [copies |-> x.copies - 1, entry |-> "none"]
  <2>1. y \in Places /\ x # Absent /\ y.copies = x.copies - 1
    BY <1>2, <1>3 DEF Places, Entries, Absent
  <2>2. Cancelled(book, h) = [book EXCEPT ![h] = y]
    BY <1>1, <1>3 DEF Cancelled
  <2> HIDE DEF y
  <2>3. QED
    BY <1>1, <1>2, <1>3, <2>1, <2>2 DEF Exact
<1>4. CASE x.entry # "live"
  <2>1. Cancelled(book, h) = book
    BY <1>1, <1>4 DEF Cancelled
  <2>2. Exact(x) => x.copies = 0
    BY <1>2, <1>4 DEF Exact
  <2>3. QED
    BY <1>1, <2>1, <2>2
<1>5. QED
  BY <1>3, <1>4

(* An empty book.                                                          *)
LEMMA EmptyIs ==
  /\ Absent \in Places /\ EmptyBook \in [Handles -> Places]
  /\ \A h \in Handles : /\ EmptyBook[h] = Absent
                        /\ ~Dangling(EmptyBook, h) /\ Cancelled(EmptyBook, h) = EmptyBook
BY DEF Absent, Places, Entries, EmptyBook, Dangling, Cancelled

-----------------------------------------------------------------------------
(* The books.                                                              *)

BooksTyped == /\ DOMAIN shards_ = Shards
              /\ \A i \in Shards : \E S \in SUBSET Symbols :
                   shards_[i] \in [S -> [Handles -> Places]]

(* Putting a content in a book changes that book and no other.             *)
LEMMA WithBookAt ==
  ASSUME BooksTyped, NEW i \in Shards, NEW symbol \in Symbols,
         NEW b \in [Handles -> Places], shards_' = WithBook(i, symbol, b)
  PROVE  /\ BooksTyped'
         /\ BookOf(i, symbol)' = b /\ HasBook(i, symbol)'
         /\ \A j \in Shards, s \in Symbols : j # i \/ s # symbol =>
              /\ BookOf(j, s)' = BookOf(j, s)
              /\ HasBook(j, s)' = HasBook(j, s)
<1> DEFINE map == [s \in DOMAIN shards_[i] \cup {symbol} |->
                     IF s = symbol THEN b ELSE shards_[i][s]]
<1>1. /\ DOMAIN shards_' = Shards /\ shards_'[i] = map
      /\ \A j \in Shards : j # i => shards_'[j] = shards_[j]
  BY DEF BooksTyped, WithBook
<1>2. PICK S \in SUBSET Symbols : shards_[i] \in [S -> [Handles -> Places]]
  BY DEF BooksTyped
<1>3. map \in [S \cup {symbol} -> [Handles -> Places]]
  BY <1>2
<1>4. BooksTyped'
  BY <1>1, <1>3 DEF BooksTyped
<1>5. QED
  BY <1>1, <1>4 DEF BookOf, HasBook

(* A book is one of HandleBook.                                            *)
LEMMA BookType ==
  ASSUME BooksTyped, NEW i \in Shards, NEW symbol \in Symbols
  PROVE  BookOf(i, symbol) \in [Handles -> Places]
BY EmptyIs DEF BooksTyped, BookOf, HasBook

-----------------------------------------------------------------------------
(* The steps keep the invariant.                                           *)

Others == /\ alive \in BOOLEAN /\ corrupt \in BOOLEAN
          /\ reading \in [Producers -> Symbols \cup {NoSymbol}]

(* Until the pool is down the books are there.                             *)
BooksThere == ~alive => pool = "down"

(* What relates the calls that were made and taken to the books.           *)
Relations == CallsRouted /\ BooksAreOrdered /\ OnceIsExact /\ CancelWins

(* ExchangeInv, part by part,                                              *)
LEMMA ExchangeParts ==
  /\ ExchangeInv => /\ BooksTyped /\ Others /\ BooksThere /\ Relations
                    /\ CallsRouted /\ BooksAreOrdered /\ OnceIsExact /\ CancelWins
  /\ PoolInv /\ BooksTyped /\ Others /\ BooksThere /\ Relations => ExchangeInv
BY DEF ExchangeInv, TypeOK, BooksTyped, Others, BooksThere, Relations, PoolInv

(* and so after a step.                                                    *)
LEMMA ExchangePartsNext ==
  PoolInv' /\ BooksTyped' /\ Others' /\ BooksThere' /\ Relations' => ExchangeInv'
BY DEF ExchangeInv, TypeOK, BooksTyped, Others, BooksThere, Relations, PoolInv

(* ExchangeInv holds at the start.                                         *)
LEMMA ExchangeInitInv == Init => ExchangeInv
<1> SUFFICES ASSUME Init PROVE ExchangeInv
  OBVIOUS
<1>1. PoolInv
  BY DEF Init, PoolInit, PoolInv, PoolTypeOK, InOrderOnce, Shutdown, Histories, Shards
<1>2. \A i \in Shards, c \in Producers : sent[i][c] = <<>> /\ started[i][c] = <<>>
  BY DEF Init, PoolInit
<1>3. \A i \in Shards, c \in Producers :
        DOMAIN sent[i][c] = {} /\ Range(started[i][c]) = {}
  BY <1>2 DEF Range
<1>4. BooksTyped /\ Others /\ BooksThere
  <2>1. /\ DOMAIN shards_ = Shards
        /\ \A i \in Shards : shards_[i] \in [{} -> [Handles -> Places]]
    BY DEF Init
  <2>2. BooksTyped
    BY <2>1 DEF BooksTyped
  <2>3. Others /\ BooksThere
    BY DEF Init, Others, BooksThere
  <2>4. QED
    BY <2>2, <2>3
<1>5. CallsRouted
  BY <1>3 DEF CallsRouted
<1>6. \A i \in Shards, symbol \in Symbols :
        ~HasBook(i, symbol) /\ BookOf(i, symbol) = EmptyBook
  BY DEF Init, HasBook, BookOf
<1>7. BooksAreOrdered /\ CancelWins
  BY <1>3, <1>6 DEF BooksAreOrdered, CancelWins
<1>8. OnceIsExact
  BY <1>6, ShardOf, EmptyIs DEF OnceIsExact, Absent
<1>9. QED
  BY <1>1, <1>4, <1>5, <1>7, <1>8, ExchangeParts DEF Relations

(* A step of the pool that leaves the calls, the tasks taken and the books *)
(* alone leaves what relates them.                                         *)
LEMMA RelationsSame ==
  ASSUME Relations, UNCHANGED <<sent, started, task, shards_>>
  PROVE  Relations'
<1>1. CallsRouted' /\ BooksAreOrdered'
  BY DEF Relations, CallsRouted, BooksAreOrdered, HasBook
<1>2. \A symbol, h : EnteredOnce(symbol, h)' <=> EnteredOnce(symbol, h)
  BY DEF EnteredOnce, Calls
<1>3. \A i, symbol : BookOf(i, symbol)' = BookOf(i, symbol)
  BY DEF BookOf, HasBook
<1>4. OnceIsExact'
  BY <1>2, <1>3 DEF Relations, OnceIsExact
<1>5. CancelWins'
  BY <1>2, <1>3 DEF Relations, CancelWins, OwnCancel
<1>6. QED
  BY <1>1, <1>4, <1>5 DEF Relations

(* An order that is entered once was entered once before.                  *)
LEMMA EnteredBefore ==
  ASSUME Calls \subseteq Calls'
  PROVE  \A symbol, h : EnteredOnce(symbol, h)' => EnteredOnce(symbol, h)
BY DEF EnteredOnce

(* OnceIsExact at the book of a shard,                                     *)
LEMMA ExactAt ==
  ASSUME OnceIsExact, NEW symbol \in Symbols, NEW h \in Handles, NEW i \in Shards,
         i = getShard(symbol), EnteredOnce(symbol, h)
  PROVE  /\ Exact(BookOf(i, symbol)[h])
         /\ BookOf(i, symbol)[h] # Absent =>
              \E c \in Producers : \E t \in Range(started[i][c]) :
                IsEntry(t, symbol, h) /\ task[i] # t
BY DEF OnceIsExact, Exact

(* and after a step.                                                       *)
LEMMA ExactAgain ==
  ASSUME \A symbol \in Symbols, h \in Handles, i \in Shards :
           i = getShard(symbol) /\ EnteredOnce(symbol, h)' =>
             /\ Exact(BookOf(i, symbol)'[h])
             /\ BookOf(i, symbol)'[h] # Absent =>
                  \E c \in Producers : \E t \in Range(started'[i][c]) :
                    IsEntry(t, symbol, h) /\ task'[i] # t
  PROVE  OnceIsExact'
BY ShardOf DEF OnceIsExact, Exact

(* A call that is made relates to nothing that was taken before: when it is*)
(* a cancel, it has not run.                                               *)
LEMMA CallKeeps ==
  ASSUME PoolInv, ExchangeInv, NEW t \in Tasks,
         t.nr = Len(sent[getShard(t.symbol)][t.by]) + 1,
         enqueue(t.by, t, getShard(t.symbol)),
         UNCHANGED <<shards_, alive, corrupt, reading>>, PoolInv'
  PROVE  ExchangeInv'
<1> DEFINE c == t.by
           i == getShard(t.symbol)
<1>1. c \in Producers /\ t.symbol \in Symbols /\ i \in Shards
  BY ShardOf DEF Tasks
<1>2. /\ BooksTyped /\ Others /\ CallsRouted /\ BooksAreOrdered /\ OnceIsExact
      /\ CancelWins /\ BooksThere
  BY ExchangeParts
<1>3. /\ t \notin Calls
      /\ sent[i][c] \in Seq(Tasks) /\ sent'[i][c] = Append(sent[i][c], t)
      /\ \A j \in Shards, d \in Producers : j # i \/ d # c => sent'[j][d] = sent[j][d]
      /\ Range(sent'[i][c]) = Range(sent[i][c]) \cup {t}
      /\ Calls' = Calls \cup {t}
      /\ UNCHANGED <<task, started>>
  BY <1>1, EnqueueAdds
<1>0. t.nr = Len(sent[i][c]) + 1
  OBVIOUS
<1> HIDE DEF c, i
<1>4. BooksTyped' /\ Others'
  BY <1>2 DEF BooksTyped, Others
<1>5. BooksThere'
  BY <1>2 DEF enqueue, BooksThere
<1>6. /\ DOMAIN sent'[i][c] = DOMAIN sent[i][c] \cup {Len(sent[i][c]) + 1}
      /\ \A k \in DOMAIN sent[i][c] : sent'[i][c][k] = sent[i][c][k]
      /\ sent'[i][c][Len(sent[i][c]) + 1] = t
      /\ DOMAIN sent[i][c] = 1 .. Len(sent[i][c]) /\ Len(sent[i][c]) \in Nat
  BY <1>3, TP!AppendAt
<1>7. CallsRouted'
  <2> SUFFICES ASSUME NEW j \in Shards, NEW d \in Producers, NEW n \in DOMAIN sent'[j][d]
               PROVE  /\ sent'[j][d][n].by = d /\ sent'[j][d][n].nr = n
                      /\ j = getShard(sent'[j][d][n].symbol)
    BY DEF CallsRouted
  <2>1. CASE j = i /\ d = c /\ n = Len(sent[i][c]) + 1
    BY <1>0, <1>6, <2>1 DEF c, i
  <2>2. CASE n \in DOMAIN sent[j][d] /\ sent'[j][d][n] = sent[j][d][n]
    BY <1>2, <2>2 DEF CallsRouted
  <2>3. CASE j # i \/ d # c
    BY <1>3, <2>2, <2>3
  <2>4. QED
    BY <1>6, <2>1, <2>2, <2>3
<1>8. BooksAreOrdered'
  BY <1>2, <1>3 DEF BooksAreOrdered, HasBook
<1>9. \A symbol, h : EnteredOnce(symbol, h)' => EnteredOnce(symbol, h)
  BY <1>3, EnteredBefore
<1>10. OnceIsExact'
  <2>1. \A j \in Shards, symbol \in Symbols : BookOf(j, symbol)' = BookOf(j, symbol)
    BY DEF BookOf, HasBook
  <2>2. QED
    BY <1>2, <1>3, <1>9, <2>1, ExactAt, ExactAgain
<1>11. CancelWins'
  <2> SUFFICES ASSUME NEW j \in Shards, NEW d \in Producers,
                      NEW u \in Range(started[j][d]), OwnCancel(d, u)', task[j] # u,
                      EnteredOnce(u.symbol, u.order)'
               PROVE  BookOf(j, u.symbol)[u.order].copies = 0
    BY <1>3 DEF CancelWins, BookOf, HasBook
  <2>1. u \in Range(sent[j][d])
    BY StartedAreSent
  <2>2. u # t /\ j = getShard(u.symbol)
    BY <1>2, <1>3, <2>1, CallsAre, SentAreRouted
  <2>3. PICK m, n \in DOMAIN sent'[j][d] :
          /\ m < n /\ sent'[j][d][n] = u
          /\ IsEntry(sent'[j][d][m], u.symbol, u.order)
    BY <2>2 DEF OwnCancel
  <2>4. m \in DOMAIN sent[j][d] /\ n \in DOMAIN sent[j][d]
        /\ sent[j][d][m] = sent'[j][d][m] /\ sent[j][d][n] = sent'[j][d][n]
    <3>1. CASE j = i /\ d = c
      <4>1. n \in DOMAIN sent[i][c]
        BY <1>6, <2>2, <2>3, <3>1
      <4>2. m \in DOMAIN sent[i][c]
        BY <1>6, <2>3, <3>1, <4>1
      <4>3. QED
        BY <1>6, <3>1, <4>1, <4>2
    <3>2. CASE j # i \/ d # c
      <4>1. sent'[j][d] = sent[j][d]
        BY <1>3, <3>2
      <4>2. QED
        BY <2>3, <4>1
    <3>3. QED
      BY <3>1, <3>2
  <2>5. OwnCancel(d, u)
    BY <2>2, <2>3, <2>4 DEF OwnCancel
  <2>6. QED
    BY <1>2, <1>9, <2>5 DEF CancelWins
<1>12. QED
  BY <1>4, <1>5, <1>7, <1>8, <1>10, <1>11, ExchangePartsNext DEF Relations

(* The call a worker takes is not the one that made a book or entered or   *)
(* removed an order.                                                       *)
LEMMA TakeTaskKeeps ==
  ASSUME PoolInv, PoolInv', ExchangeInv, NEW i \in Shards, TakeTask(i),
         UNCHANGED <<shards_, alive, corrupt, reading>>
  PROVE  ExchangeInv'
<1>1. /\ BooksTyped /\ Others /\ CallsRouted /\ BooksAreOrdered /\ OnceIsExact
      /\ CancelWins /\ BooksThere
  BY ExchangeParts
<1>2. /\ task[i] = NoTask /\ task'[i] \in Tasks
      /\ \A j \in Shards : j # i => task'[j] = task[j]
      /\ \A j \in Shards, d \in Producers : task'[i] \notin Range(started[j][d])
      /\ UNCHANGED sent
  BY TakeAdds
<1>3. PICK c \in Producers :
        /\ Range(started'[i][c]) = Range(started[i][c]) \cup {task'[i]}
        /\ \A j \in Shards, d \in Producers : j # i \/ d # c =>
             started'[j][d] = started[j][d]
  BY TakeAdds
<1>4. \A j \in Shards, d \in Producers : \A u :
        /\ u \in Range(started[j][d]) => u \in Range(started'[j][d]) /\ u \in Tasks
        /\ u \in Range(started'[j][d]) =>
             u \in Range(started[j][d]) \/ (j = i /\ u = task'[i])
  <2> SUFFICES ASSUME NEW j \in Shards, NEW d \in Producers, NEW u
               PROVE  /\ u \in Range(started[j][d]) =>
                           u \in Range(started'[j][d]) /\ u \in Tasks
                      /\ u \in Range(started'[j][d]) =>
                           u \in Range(started[j][d]) \/ (j = i /\ u = task'[i])
    OBVIOUS
  <2>1. started[j][d] \in Seq(Tasks)
    BY DEF PoolInv, PoolTypeOK
  <2>2. u \in Range(started[j][d]) => u \in Tasks
    BY <2>1 DEF Range
  <2>3. CASE j = i /\ d = c
    BY <1>3, <2>2, <2>3
  <2>4. CASE j # i \/ d # c
    <3>1. started'[j][d] = started[j][d]
      BY <1>3, <2>4
    <3>2. QED
      BY <2>2, <3>1
  <2>5. QED
    BY <2>3, <2>4
<1>5. \A j \in Shards, d \in Producers : \A u \in Range(started[j][d]) :
        task[j] # u => u \in Range(started'[j][d]) /\ task'[j] # u
  BY <1>2, <1>4
<1>6. BooksTyped' /\ Others'
  BY <1>1 DEF BooksTyped, Others
<1>7. BooksThere'
  BY <1>1 DEF TakeTask, BooksThere
<1>8. CallsRouted'
  BY <1>1, <1>2 DEF CallsRouted
<1>9. BooksAreOrdered'
  <2> SUFFICES ASSUME NEW j \in Shards, NEW symbol \in Symbols, HasBook(j, symbol)
               PROVE  /\ j = getShard(symbol)
                      /\ \E d \in Producers : \E u \in Range(started'[j][d]) :
                           u.op = "new" /\ u.symbol = symbol /\ task'[j] # u
    BY DEF BooksAreOrdered, HasBook
  <2>1. PICK d \in Producers : \E u \in Range(started[j][d]) :
          u.op = "new" /\ u.symbol = symbol /\ task[j] # u
    BY <1>1 DEF BooksAreOrdered
  <2>2. QED
    BY <1>1, <1>5, <2>1 DEF BooksAreOrdered
<1>10. \A symbol, h : EnteredOnce(symbol, h)' => EnteredOnce(symbol, h)
  BY <1>2 DEF EnteredOnce, Calls
<1>11. OnceIsExact'
  <2>1. \A j \in Shards, symbol \in Symbols : BookOf(j, symbol)' = BookOf(j, symbol)
    BY DEF BookOf, HasBook
  <2> SUFFICES ASSUME NEW symbol \in Symbols, NEW h \in Handles, NEW j \in Shards,
                      j = getShard(symbol), EnteredOnce(symbol, h)
               PROVE  /\ Exact(BookOf(j, symbol)[h])
                      /\ BookOf(j, symbol)[h] # Absent =>
                           \E d \in Producers : \E u \in Range(started'[j][d]) :
                             IsEntry(u, symbol, h) /\ task'[j] # u
    BY <1>10, <2>1, ExactAgain
  <2>2. BookOf(j, symbol)[h] # Absent =>
          \E d \in Producers : \E u \in Range(started[j][d]) :
            IsEntry(u, symbol, h) /\ task[j] # u
    BY <1>1, ExactAt
  <2>3. Exact(BookOf(j, symbol)[h])
    BY <1>1, ExactAt
  <2>4. QED
    BY <1>5, <2>2, <2>3
<1>12. CancelWins'
  <2> SUFFICES ASSUME NEW j \in Shards, NEW d \in Producers,
                      NEW u \in Range(started'[j][d]), OwnCancel(d, u), task'[j] # u,
                      EnteredOnce(u.symbol, u.order)
               PROVE  BookOf(j, u.symbol)[u.order].copies = 0
    BY <1>2, <1>10 DEF CancelWins, OwnCancel, BookOf, HasBook
  <2>1. u \in Range(started[j][d]) /\ u \in Tasks
    BY <1>4
  <2>2. task[j] # u
    BY <1>2, <2>1
  <2>3. QED
    BY <1>1, <2>1, <2>2 DEF CancelWins
<1>13. QED
  BY <1>6, <1>7, <1>8, <1>9, <1>11, <1>12, ExchangePartsNext DEF Relations

(* What a task that returns leaves: no task at its worker, the histories,  *)
(* and the books it says it left.                                          *)
LEMMA FinishKeepsOrdered ==
  ASSUME PoolInv, CallsRouted, BooksAreOrdered, NEW i \in Shards, FinishTask(i),
         task[i] # NoTask,
         \A j \in Shards, symbol \in Symbols : HasBook(j, symbol)' =>
           \/ HasBook(j, symbol)
           \/ j = i /\ symbol = task[i].symbol /\ task[i].op = "new"
  PROVE  /\ CallsRouted' /\ BooksAreOrdered'
         /\ task'[i] = NoTask /\ \A j \in Shards : j # i => task'[j] = task[j]
         /\ UNCHANGED <<sent, started, pool>>
         /\ \A j \in Shards, d \in Producers : \A u \in Range(started[j][d]) :
              task'[j] # u <=> task[j] # u \/ j = i
         /\ \A symbol, h : EnteredOnce(symbol, h)' <=> EnteredOnce(symbol, h)
<1>1. /\ UNCHANGED <<sent, started, pool>>
      /\ task'[i] = NoTask /\ \A j \in Shards : j # i => task'[j] = task[j]
  BY DEF PoolInv, PoolTypeOK, FinishTask
<1>2. CallsRouted' /\ \A symbol, h : EnteredOnce(symbol, h)' <=> EnteredOnce(symbol, h)
  BY <1>1 DEF CallsRouted, Calls, EnteredOnce
<1>3. ASSUME NEW j \in Shards, NEW d \in Producers, NEW u \in Range(started[j][d])
      PROVE  u \in Tasks /\ (task'[j] # u <=> task[j] # u \/ j = i)
  <2>1. u \in Tasks
    BY DEF PoolInv, PoolTypeOK, Range
  <2>2. u # NoTask
    BY <2>1
  <2>3. QED
    BY <1>1, <2>1, <2>2
<1>4. BooksAreOrdered'
  <2> SUFFICES ASSUME NEW j \in Shards, NEW symbol \in Symbols, HasBook(j, symbol)'
               PROVE  /\ j = getShard(symbol)
                      /\ \E d \in Producers : \E u \in Range(started[j][d]) :
                           u.op = "new" /\ u.symbol = symbol /\ task'[j] # u
    BY <1>1 DEF BooksAreOrdered
  <2>1. CASE HasBook(j, symbol)
    <3>1. PICK d \in Producers : \E u \in Range(started[j][d]) :
            u.op = "new" /\ u.symbol = symbol /\ task[j] # u
      BY <2>1 DEF BooksAreOrdered
    <3>2. PICK u \in Range(started[j][d]) :
            u.op = "new" /\ u.symbol = symbol /\ task[j] # u
      BY <3>1
    <3>3. task'[j] # u
      BY <1>3, <3>2
    <3>4. QED
      BY <2>1, <3>2, <3>3 DEF BooksAreOrdered
  <2>2. CASE j = i /\ symbol = task[i].symbol /\ task[i].op = "new"
    <3>1. i = getShard(task[i].symbol)
      BY RunningIsLast
    <3>2. task[i].by \in Producers /\ task[i] \in Range(started[i][task[i].by])
      BY RunningIsStarted
    <3>3. QED
      BY <1>3, <2>2, <3>1, <3>2
  <2>3. QED
    BY <2>1, <2>2
<1>5. QED
  BY <1>1, <1>2, <1>3, <1>4

(* A cancel that uses no freed node does to its book what HandleBook says, *)
(* nothing to others, and makes none.                                      *)
LEMMA RunCancelEffect ==
  ASSUME BooksTyped, NEW i \in Shards, NEW t \in Tasks, RunCancel(i, t)
  PROVE  /\ BooksTyped' /\ t.op = "cancel"
         /\ ~Dangling(BookOf(i, t.symbol), t.order)
         /\ BookOf(i, t.symbol)' = Cancelled(BookOf(i, t.symbol), t.order)
         /\ \A j \in Shards, s \in Symbols :
              /\ j # i \/ s # t.symbol => BookOf(j, s)' = BookOf(j, s)
              /\ HasBook(j, s)' => HasBook(j, s)
<1>1. t.symbol \in Symbols /\ t.order \in Handles
  BY DEF Tasks
<1>2. CASE ~HasBook(i, t.symbol) /\ UNCHANGED shards_
  <2>1. BookOf(i, t.symbol) = EmptyBook
    BY <1>2 DEF BookOf
  <2>2. BooksTyped' /\ \A j \in Shards, s \in Symbols :
          BookOf(j, s)' = BookOf(j, s) /\ HasBook(j, s)' = HasBook(j, s)
    BY <1>2 DEF BooksTyped, BookOf, HasBook
  <2>3. QED
    BY <1>1, <2>1, <2>2, EmptyIs DEF RunCancel
<1>3. CASE /\ HasBook(i, t.symbol) /\ ~Dangling(BookOf(i, t.symbol), t.order)
           /\ shards_' = WithBook(i, t.symbol, Cancelled(BookOf(i, t.symbol), t.order))
  <2>1. PICK b \in [Handles -> Places] : b = Cancelled(BookOf(i, t.symbol), t.order)
    BY <1>1, BookType, CancelledIs
  <2>2. shards_' = WithBook(i, t.symbol, b)
    BY <1>3, <2>1
  <2>3. /\ BooksTyped' /\ BookOf(i, t.symbol)' = b
        /\ \A j \in Shards, s \in Symbols : j # i \/ s # t.symbol =>
             BookOf(j, s)' = BookOf(j, s) /\ HasBook(j, s)' = HasBook(j, s)
    BY <1>1, <2>2, WithBookAt
  <2>4. QED
    BY <1>3, <2>1, <2>3 DEF RunCancel
<1>4. QED
  BY <1>2, <1>3 DEF RunCancel

(* A new order does to its book what HandleBook says, and nothing to the   *)
(* other books.                                                            *)
LEMMA RunNewEffect ==
  ASSUME BooksTyped, NEW i \in Shards, NEW t \in Tasks, RunNew(i, t)
  PROVE  /\ BooksTyped' /\ t.op = "new"
         /\ BookOf(i, t.symbol)' \in Entered(BookOf(i, t.symbol), t.order)
         /\ \A j \in Shards, s \in Symbols : j # i \/ s # t.symbol =>
              BookOf(j, s)' = BookOf(j, s) /\ HasBook(j, s)' = HasBook(j, s)
<1>1. t.symbol \in Symbols /\ t.order \in Handles
  BY DEF Tasks
<1>2. PICK b \in Entered(BookOf(i, t.symbol), t.order) :
        shards_' = WithBook(i, t.symbol, b)
  BY DEF RunNew
<1>3. b \in [Handles -> Places]
  BY <1>1, BookType, EnteredIs
<1>4. QED
  BY <1>1, <1>2, <1>3, WithBookAt DEF RunNew

(* When an order is entered once, a cancel that was made after it by the   *)
(* same client is behind it in the same queue, and cannot have been taken  *)
(* when the order runs.                                                    *)
LEMMA CancelIsBehind ==
  ASSUME PoolInv, CallsRouted, NEW i \in Shards, task[i] # NoTask,
         NEW c \in Producers, NEW t \in Range(started[i][c]), OwnCancel(c, t),
         EnteredOnce(t.symbol, t.order), IsEntry(task[i], t.symbol, t.order)
  PROVE  FALSE
<1> DEFINE u == task[i]
           m == Len(started[i][u.by])
<1>1. /\ u.by \in Producers /\ u \in Calls
      /\ m \in DOMAIN started[i][u.by] /\ u = started[i][u.by][m]
  BY RunningIsLast, RunningIsStarted
<1>2. m \in DOMAIN sent[i][u.by] /\ u = sent[i][u.by][m]
  BY <1>1 DEF PoolInv, Histories
<1>3. PICK k \in DOMAIN started[i][c] : t = started[i][c][k]
  BY DEF Range
<1>4. k \in DOMAIN sent[i][c] /\ t = sent[i][c][k]
  BY <1>3 DEF PoolInv, Histories
<1>5. i = getShard(t.symbol)
  BY <1>4, SentAreRouted DEF Range
<1>6. PICK a, b \in DOMAIN sent[i][c] :
        a < b /\ IsEntry(sent[i][c][a], t.symbol, t.order) /\ sent[i][c][b] = t
  BY <1>5 DEF OwnCancel
<1>7. sent[i][c][a] \in Calls
  BY <1>6, CallsAre DEF Range
<1>8. sent[i][c][a] = u
  BY <1>1, <1>6, <1>7 DEF EnteredOnce
<1>9. c = u.by /\ a = m /\ b = k
  BY <1>1, <1>2, <1>4, <1>6, <1>8 DEF PoolInv, Histories
<1>10. started[i][c] \in Seq(Tasks)
  BY DEF PoolInv, PoolTypeOK
<1> HIDE DEF u
<1>11. k <= m /\ m \in Nat /\ k \in Nat
  BY <1>3, <1>9, <1>10
<1>12. QED
  BY <1>6, <1>9, <1>11

(* What OnceIsExact says goes on for an order that the task does not       *)
(* enter, when its book has no more of it and the other books stay.        *)
LEMMA StaysExact ==
  ASSUME NEW old, NEW new, Exact(old) => Exact(new), old = Absent => new = Absent,
         NEW symbol, NEW h, NEW i \in Shards,
         Exact(old),
         old # Absent => \E c \in Producers : \E t \in Range(started[i][c]) :
                           IsEntry(t, symbol, h) /\ task[i] # t,
         \A c \in Producers : \A t \in Range(started[i][c]) :
           task[i] # t => t \in Range(started'[i][c]) /\ task'[i] # t
  PROVE  /\ Exact(new)
         /\ new # Absent => \E c \in Producers : \E t \in Range(started'[i][c]) :
                              IsEntry(t, symbol, h) /\ task'[i] # t
OBVIOUS

(* The closure of newOrder keeps ExchangeInv.                              *)
LEMMA FinishNewKeeps ==
  ASSUME PoolInv, PoolInv', ExchangeInv, NEW i \in Shards, FinishTask(i),
         RunNew(i, task[i]), UNCHANGED <<alive, corrupt, reading>>
  PROVE  ExchangeInv'
<1>1. /\ BooksTyped /\ Others /\ CallsRouted /\ BooksAreOrdered /\ OnceIsExact
      /\ CancelWins /\ BooksThere
  BY ExchangeParts
<1>2. task[i] # NoTask
  BY DEF FinishTask, PoolInv, Shutdown
<1> PICK u : u = task[i]
  OBVIOUS
<1>3. /\ u \in Tasks /\ u.symbol \in Symbols /\ u.order \in Handles
      /\ i = getShard(u.symbol) /\ u.by \in Producers
      /\ u \in Range(started[i][u.by]) /\ u \in Calls
  BY <1>1, <1>2, RunningIsLast, RunningIsStarted DEF Tasks
<1>4. /\ BooksTyped' /\ u.op = "new"
      /\ BookOf(i, u.symbol)' \in Entered(BookOf(i, u.symbol), u.order)
      /\ \A j \in Shards, s \in Symbols : j # i \/ s # u.symbol =>
           BookOf(j, s)' = BookOf(j, s) /\ HasBook(j, s)' = HasBook(j, s)
  BY <1>1, <1>3, RunNewEffect
<1>5. \A j \in Shards, s \in Symbols : HasBook(j, s)' =>
        HasBook(j, s) \/ (j = i /\ s = u.symbol /\ u.op = "new")
  BY <1>4
<1>6. /\ CallsRouted' /\ BooksAreOrdered'
      /\ task'[i] = NoTask /\ \A j \in Shards : j # i => task'[j] = task[j]
      /\ UNCHANGED <<sent, started, pool>>
      /\ \A j \in Shards, d \in Producers : \A t \in Range(started[j][d]) :
           task'[j] # t <=> task[j] # t \/ j = i
      /\ \A symbol, h : EnteredOnce(symbol, h)' <=> EnteredOnce(symbol, h)
  BY <1>1, <1>2, <1>5, FinishKeepsOrdered
<1>7. Others' /\ BooksThere'
  BY <1>1, <1>6 DEF Others, BooksThere
<1>8. PICK old \in [Handles -> Places] : old = BookOf(i, u.symbol)
  BY <1>1, <1>3, BookType
<1>9. PICK new \in [Handles -> Places] : new = BookOf(i, u.symbol)'
  BY <1>3, <1>4, BookType, <1>8, EnteredIs
<1>10. /\ new[u.order] \in AfterEntry(old[u.order])
       /\ \A g \in Handles : g # u.order => new[g] \in AfterFills(old[g])
  BY <1>3, <1>4, <1>8, <1>9, EnteredIs
<1>11. OnceIsExact'
  <2> SUFFICES ASSUME NEW symbol \in Symbols, NEW h \in Handles, NEW j \in Shards,
                      j = getShard(symbol), EnteredOnce(symbol, h)
               PROVE  /\ Exact(BookOf(j, symbol)'[h])
                      /\ BookOf(j, symbol)'[h] # Absent =>
                           \E d \in Producers : \E t \in Range(started'[j][d]) :
                             IsEntry(t, symbol, h) /\ task'[j] # t
    BY <1>6, ExactAgain
  <2>1. /\ Exact(BookOf(j, symbol)[h])
        /\ BookOf(j, symbol)[h] # Absent =>
             \E d \in Producers : \E t \in Range(started[j][d]) :
               IsEntry(t, symbol, h) /\ task[j] # t
    BY <1>1, ExactAt
  <2>2. \A d \in Producers : \A t \in Range(started[j][d]) :
          task[j] # t => t \in Range(started'[j][d]) /\ task'[j] # t
    BY <1>6
  <2>3. CASE symbol # u.symbol
    BY <1>4, <2>1, <2>2, <2>3, StaysExact
  <2>4. CASE symbol = u.symbol /\ h # u.order
    <3>1. new[h] \in AfterFills(old[h]) /\ old[h] \in Places
      BY <1>10, <2>4
    <3>2. (Exact(old[h]) => Exact(new[h])) /\ (old[h] = Absent => new[h] = Absent)
      BY <3>1, FillsAre
    <3>3. j = i
      BY <1>3, <2>4
    <3>4. QED
      BY <1>8, <1>9, <2>1, <2>2, <2>4, <3>2, <3>3, StaysExact
  <2>5. CASE symbol = u.symbol /\ h = u.order
    <3>1. j = i /\ IsEntry(u, symbol, h)
      BY <1>3, <1>4, <2>5 DEF IsEntry
    <3>2. old[h] = Absent
      <4> SUFFICES ASSUME old[h] # Absent PROVE FALSE
        OBVIOUS
      <4>1. PICK d \in Producers : \E t \in Range(started[i][d]) :
              IsEntry(t, symbol, h) /\ task[i] # t
        BY <1>8, <2>1, <2>5, <3>1
      <4>2. PICK t \in Range(started[i][d]) : IsEntry(t, symbol, h) /\ task[i] # t
        BY <4>1
      <4>3. t \in Calls
        BY <4>2, StartedAreSent, CallsAre
      <4>4. QED
        BY <1>3, <3>1, <4>2, <4>3 DEF EnteredOnce
    <3>3. new[h] = old[h] \/ (new[h].copies = old[h].copies + 1 /\ new[h].entry = "live")
      BY <1>10, <2>5, EntryIs
    <3>4. Exact(new[h])
      BY <3>2, <3>3 DEF Exact, Absent
    <3>5. u \in Range(started'[i][u.by]) /\ task'[i] # u
      BY <1>3, <1>6
    <3>6. QED
      BY <1>3, <1>9, <2>5, <3>1, <3>4, <3>5
  <2>6. QED
    BY <2>3, <2>4, <2>5
<1>12. CancelWins'
  <2> SUFFICES ASSUME NEW j \in Shards, NEW c \in Producers,
                      NEW t \in Range(started[j][c]), OwnCancel(c, t), task'[j] # t,
                      EnteredOnce(t.symbol, t.order)
               PROVE  BookOf(j, t.symbol)'[t.order].copies = 0
    BY <1>6 DEF CancelWins, OwnCancel
  <2>1. t \in Range(sent[j][c])
    BY StartedAreSent
  <2>2. t \in Tasks /\ j = getShard(t.symbol) /\ t.symbol \in Symbols /\ t.order \in Handles
    BY <1>1, <2>1, SentAreTasks, SentAreRouted DEF Tasks
  <2>3. task[j] # t
    BY <1>4, <1>6 DEF OwnCancel
  <2>4. BookOf(j, t.symbol)[t.order].copies = 0
    BY <1>1, <2>3 DEF CancelWins
  <2>5. CASE t.symbol # u.symbol
    BY <1>4, <2>2, <2>4, <2>5
  <2>6. CASE t.symbol = u.symbol
    <3>1. j = i
      BY <1>3, <2>2, <2>6
    <3>2. t.order # u.order
      BY <1>1, <1>2, <1>4, <2>6, <3>1, CancelIsBehind DEF IsEntry
    <3>3. new[t.order] \in AfterFills(old[t.order]) /\ old[t.order] \in Places
      BY <1>10, <2>2, <3>2
    <3>4. new[t.order].copies <= old[t.order].copies /\ new[t.order] \in Places
      BY <3>3, FillsAre
    <3>5. old[t.order].copies = 0
      BY <1>8, <2>4, <2>6, <3>1
    <3>6. new[t.order].copies = 0
      BY <3>4, <3>5 DEF Places
    <3>7. QED
      BY <1>9, <2>6, <3>1, <3>6
  <2>7. QED
    BY <2>5, <2>6
<1>13. QED
  BY <1>4, <1>6, <1>7, <1>11, <1>12, ExchangePartsNext DEF Relations

(* The closure of cancelOrder keeps ExchangeInv.                           *)
LEMMA FinishCancelKeeps ==
  ASSUME PoolInv, PoolInv', ExchangeInv, NEW i \in Shards, FinishTask(i),
         RunCancel(i, task[i]), UNCHANGED <<alive, corrupt, reading>>
  PROVE  ExchangeInv'
<1>1. /\ BooksTyped /\ Others /\ CallsRouted /\ BooksAreOrdered /\ OnceIsExact
      /\ CancelWins /\ BooksThere
  BY ExchangeParts
<1>2. task[i] # NoTask
  BY DEF FinishTask, PoolInv, Shutdown
<1> PICK u : u = task[i]
  OBVIOUS
<1>3. /\ u \in Tasks /\ u.symbol \in Symbols /\ u.order \in Handles
      /\ i = getShard(u.symbol)
  BY <1>1, <1>2, RunningIsLast DEF Tasks
<1>4. /\ BooksTyped'
      /\ BookOf(i, u.symbol)' = Cancelled(BookOf(i, u.symbol), u.order)
      /\ \A j \in Shards, s \in Symbols :
           /\ j # i \/ s # u.symbol => BookOf(j, s)' = BookOf(j, s)
           /\ HasBook(j, s)' => HasBook(j, s)
  BY <1>1, <1>3, RunCancelEffect
<1>5. /\ CallsRouted' /\ BooksAreOrdered'
      /\ task'[i] = NoTask /\ \A j \in Shards : j # i => task'[j] = task[j]
      /\ UNCHANGED <<sent, started, pool>>
      /\ \A j \in Shards, d \in Producers : \A t \in Range(started[j][d]) :
           task'[j] # t <=> task[j] # t \/ j = i
      /\ \A symbol, h : EnteredOnce(symbol, h)' <=> EnteredOnce(symbol, h)
  BY <1>1, <1>2, <1>4, FinishKeepsOrdered
<1>6. Others' /\ BooksThere'
  BY <1>1, <1>5 DEF Others, BooksThere
<1>7. PICK old \in [Handles -> Places] : old = BookOf(i, u.symbol)
  BY <1>1, <1>3, BookType
<1>8. PICK new \in [Handles -> Places] : new = BookOf(i, u.symbol)'
  BY <1>3, <1>4, <1>7, CancelledIs
<1>9. /\ Exact(old[u.order]) => Exact(new[u.order]) /\ new[u.order].copies = 0
      /\ old[u.order] = Absent => new[u.order] = Absent
      /\ \A g \in Handles : g # u.order => new[g] = old[g]
  <2>1. new = Cancelled(old, u.order)
    BY <1>4, <1>7, <1>8
  <2>2. QED
    BY <1>3, <2>1, CancelledIs
<1>10. OnceIsExact'
  <2> SUFFICES ASSUME NEW symbol \in Symbols, NEW h \in Handles, NEW j \in Shards,
                      j = getShard(symbol), EnteredOnce(symbol, h)
               PROVE  /\ Exact(BookOf(j, symbol)'[h])
                      /\ BookOf(j, symbol)'[h] # Absent =>
                           \E d \in Producers : \E t \in Range(started'[j][d]) :
                             IsEntry(t, symbol, h) /\ task'[j] # t
    BY <1>5, ExactAgain
  <2>1. /\ Exact(BookOf(j, symbol)[h])
        /\ BookOf(j, symbol)[h] # Absent =>
             \E d \in Producers : \E t \in Range(started[j][d]) :
               IsEntry(t, symbol, h) /\ task[j] # t
    BY <1>1, ExactAt
  <2>2. \A d \in Producers : \A t \in Range(started[j][d]) :
          task[j] # t => t \in Range(started'[j][d]) /\ task'[j] # t
    BY <1>5
  <2>3. CASE symbol # u.symbol
    BY <1>4, <2>1, <2>2, <2>3, StaysExact
  <2>4. CASE symbol = u.symbol
    <3>1. (Exact(old[h]) => Exact(new[h])) /\ (old[h] = Absent => new[h] = Absent)
      BY <1>9
    <3>2. j = i
      BY <1>3, <2>4
    <3>3. QED
      BY <1>7, <1>8, <2>1, <2>2, <2>4, <3>1, <3>2, StaysExact
  <2>5. QED
    BY <2>3, <2>4
<1>11. CancelWins'
  <2> SUFFICES ASSUME NEW j \in Shards, NEW c \in Producers,
                      NEW t \in Range(started[j][c]), OwnCancel(c, t), task'[j] # t,
                      EnteredOnce(t.symbol, t.order)
               PROVE  BookOf(j, t.symbol)'[t.order].copies = 0
    BY <1>5 DEF CancelWins, OwnCancel
  <2>1. t \in Range(sent[j][c])
    BY StartedAreSent
  <2>2. t \in Tasks /\ j = getShard(t.symbol) /\ t.symbol \in Symbols /\ t.order \in Handles
    BY <1>1, <2>1, SentAreTasks, SentAreRouted DEF Tasks
  <2>3. CASE t.symbol = u.symbol /\ t.order = u.order
    <3>1. j = i
      BY <1>3, <2>2, <2>3
    <3>2. Exact(old[u.order])
      BY <1>1, <1>3, <1>7, <2>3, ExactAt
    <3>3. QED
      BY <1>8, <1>9, <2>3, <3>1, <3>2
  <2>4. CASE t.symbol # u.symbol \/ t.order # u.order
    <3>1. task[j] # t
      BY <1>5, <2>4
    <3>2. BookOf(j, t.symbol)[t.order].copies = 0
      BY <1>1, <3>1 DEF CancelWins
    <3>3. CASE t.symbol # u.symbol
      BY <1>4, <2>2, <3>2, <3>3
    <3>4. CASE t.symbol = u.symbol /\ t.order # u.order
      <4>1. j = i /\ new[t.order] = old[t.order]
        BY <1>3, <1>9, <2>2, <3>4
      <4>2. QED
        BY <1>7, <1>8, <3>2, <3>4, <4>1
    <3>5. QED
      BY <2>4, <3>3, <3>4
  <2>5. QED
    BY <2>3, <2>4
<1>12. QED
  BY <1>4, <1>5, <1>6, <1>10, <1>11, ExchangePartsNext DEF Relations

(* What leaves the pool and the books alone keeps ExchangeInv.             *)
LEMMA SameKeeps ==
  ASSUME ExchangeInv, PoolInv', UNCHANGED <<sent, started, task, shards_>>,
         Others', BooksThere'
  PROVE  ExchangeInv'
<1>1. BooksTyped'
  BY ExchangeParts DEF BooksTyped
<1>2. Relations'
  BY ExchangeParts, RelationsSame
<1>3. QED
  BY <1>1, <1>2, ExchangePartsNext

(* Each step of a worker keeps ExchangeInv.                                *)
LEMMA WorkInv ==
  ASSUME PoolInv, PoolInv', ExchangeInv, NEW i \in Shards, Work(i)
  PROVE  ExchangeInv'
<1>1. CASE (TestStop(i) \/ Yield(i)) /\ UNCHANGED <<shards_, corrupt>>
  <2>1. UNCHANGED <<sent, started, task, pool, shards_, alive, corrupt, reading>>
    BY <1>1 DEF TestStop, Yield, Work
  <2>2. Others' /\ BooksThere'
    BY <2>1, ExchangeParts DEF Others, BooksThere
  <2>3. QED
    BY <2>1, <2>2, SameKeeps
<1>2. CASE TakeTask(i) /\ UNCHANGED <<shards_, corrupt>>
  BY <1>2, TakeTaskKeeps DEF Work
<1>3. CASE FinishTask(i) /\ (RunNew(i, task[i]) \/ RunCancel(i, task[i]))
           /\ UNCHANGED corrupt
  BY <1>3, FinishNewKeeps, FinishCancelKeeps DEF Work
<1>4. CASE UseFreed(i)
  <2>1. UNCHANGED <<sent, started, task, pool, shards_, alive, reading>> /\ corrupt' = TRUE
    BY <1>4 DEF UseFreed, Work, thread_pool_
  <2>2. Others' /\ BooksThere'
    BY <2>1, ExchangeParts DEF Others, BooksThere
  <2>3. QED
    BY <2>1, <2>2, SameKeeps
<1>5. QED
  BY <1>1, <1>2, <1>3, <1>4 DEF Work

(* Each call of a client keeps ExchangeInv.                                *)
LEMMA ClientInv ==
  ASSUME PoolInv, PoolInv', ExchangeInv, NEW c \in Producers, Client(c)
  PROVE  ExchangeInv'
<1>1. ASSUME NEW op \in {"new", "cancel"}, NEW symbol \in Symbols, NEW h \in Handles,
             Submit(c, op, symbol, h)
      PROVE  ExchangeInv'
  <2>1. PICK t \in Tasks :
          /\ t.symbol = symbol /\ t.by = c /\ t.nr = Len(sent[getShard(symbol)][c]) + 1
          /\ enqueue(c, t, getShard(symbol))
          /\ UNCHANGED <<shards_, alive, corrupt, reading>>
    BY <1>1, SubmitIsTask
  <2>2. QED
    BY <2>1, CallKeeps
<1>2. ASSUME (\E symbol \in Symbols : BeginGetOrder(c, symbol)) \/ EndGetOrder(c)
      PROVE  ExchangeInv'
  <2>1. UNCHANGED <<sent, started, task, pool, shards_, alive, corrupt>>
    BY <1>2 DEF BeginGetOrder, EndGetOrder, thread_pool_
  <2>2. reading' \in [Producers -> Symbols \cup {NoSymbol}]
    BY <1>2, ExchangeParts DEF BeginGetOrder, EndGetOrder, Others
  <2>3. Others' /\ BooksThere'
    BY <2>1, <2>2, ExchangeParts DEF Others, BooksThere
  <2>4. QED
    BY <2>1, <2>3, SameKeeps
<1>3. QED
  BY <1>1, <1>2 DEF Client, newOrder, cancelOrder

(* The destruction of the pool and of the books keeps ExchangeInv.         *)
LEMMA DestructionInv ==
  ASSUME PoolInv, PoolInv', ExchangeInv,
         DestroyPool \/ DestroyPoolStep \/ DestroyBooks
  PROVE  ExchangeInv'
<1>1. UNCHANGED <<sent, started, task, shards_, corrupt, reading>>
  BY DEF DestroyPool, DestroyPoolStep, DestroyBooks, Destroy, Destructor,
         RequestStop, Join, thread_pool_
<1>2. Others'
  BY <1>1, ExchangeParts DEF Others, DestroyPool, DestroyPoolStep, DestroyBooks
<1>3. BooksThere'
  BY ExchangeParts
     DEF BooksThere, DestroyPool, DestroyPoolStep, DestroyBooks, Destroy,
         Destructor, RequestStop, Join, thread_pool_
<1>4. QED
  BY <1>1, <1>2, <1>3, SameKeeps

(* Every step keeps ExchangeInv.                                           *)
LEMMA ExchangeStepInv ==
  PoolInv /\ PoolInv' /\ ExchangeInv /\ [Next]_vars => ExchangeInv'
<1> SUFFICES ASSUME PoolInv, PoolInv', ExchangeInv, [Next]_vars PROVE ExchangeInv'
  OBVIOUS
<1>1. CASE UNCHANGED vars
  <2>1. UNCHANGED <<sent, started, task, pool, shards_, alive, corrupt, reading>>
    BY <1>1 DEF vars, thread_pool_
  <2>2. Others' /\ BooksThere'
    BY <2>1, ExchangeParts DEF Others, BooksThere
  <2>3. QED
    BY <2>1, <2>2, SameKeeps
<1>2. CASE Next
  BY <1>2, ClientInv, WorkInv, DestructionInv DEF Next
<1>3. QED
  BY <1>1, <1>2

-----------------------------------------------------------------------------
(* The theorems.                                                           *)

(* The invariant the others are read off.                                  *)
THEOREM ExchangeInvariance == Spec => []ExchangeInv
BY PoolHolds, ExchangeInitInv, ExchangeStepInv, PTL DEF Spec

(* Every variable of the exchange and of its pool keeps to its type.       *)
THEOREM ExchangeTypeCorrect == Spec => []TypeOK
<1>1. ExchangeInv => TypeOK
  BY DEF ExchangeInv
<1>2. QED
  BY <1>1, ExchangeInvariance, PTL

(* An order that is entered once rests once at most, and while it rests its*)
(* entry leads to it: no cancel of it uses a freed node.                   *)
THEOREM OnceStaysExact == Spec => []OnceIsExact
<1>1. ExchangeInv => OnceIsExact
  BY DEF ExchangeInv
<1>2. QED
  BY <1>1, ExchangeInvariance, PTL

(* Once a client's own cancel has run, the order it is about does not rest,*)
(* if it was entered once; whatever is called for other orders, symbols and*)
(* shards in between.                                                      *)
THEOREM OwnCancelWins == Spec => []CancelWins
<1>1. ExchangeInv => CancelWins
  BY DEF ExchangeInv
<1>2. QED
  BY <1>1, ExchangeInvariance, PTL

(* A book exists only on the shard whose worker alone touches it, and only *)
(* after a newOrder for its symbol has run there.                          *)
THEOREM BooksStayOnShard == Spec => []BooksAreOrdered
<1>1. ExchangeInv => BooksAreOrdered
  BY DEF ExchangeInv
<1>2. QED
  BY <1>1, ExchangeInvariance, PTL

(* ~Exchange destroys the books after the last worker has left its loop.   *)
THEOREM BooksGoLast == Spec => []BooksOutliveTasks
<1>1. PoolInv /\ ExchangeInv => BooksOutliveTasks
  BY DEF ExchangeInv, PoolInv, Shutdown, Shards, BooksOutliveTasks
<1>2. QED
  BY <1>1, PoolHolds, ExchangeInvariance, PTL

-----------------------------------------------------------------------------
(* The calls that have not taken effect.                                   *)

View(t) == [op |-> t.op, order |-> t.order]

(* A task is one call of its client for its symbol, and none of others.    *)
LEMMA SeenIs ==
  ASSUME NEW symbol, NEW c, NEW t \in Tasks \cup {NoTask}
  PROVE  /\ Seen(symbol, c, t) \in Seq(V!Calls)
         /\ t = NoTask => Seen(symbol, c, t) = <<>>
         /\ t # NoTask /\ t.symbol = symbol /\ t.by = c =>
              Seen(symbol, c, t) = <<View(t)>> /\ View(t) \in V!Calls
         /\ t # NoTask /\ (t.symbol # symbol \/ t.by # c) =>
              Seen(symbol, c, t) = <<>>
<1>1. t # NoTask => View(t) \in V!Calls
  BY DEF Tasks, V!Calls, View
<1>2. <<>> \in Seq(V!Calls) /\ \A v \in V!Calls : <<v>> \in Seq(V!Calls)
  OBVIOUS
<1>3. QED
  BY <1>1, <1>2 DEF Seen, View

(* What a queue holds of the calls of c for symbol: one more when a task is*)
(* put at the end, one less when the head is taken.                        *)
LEMMA QueuedIs ==
  ASSUME NEW symbol, NEW c
  PROVE  \E f \in [Tasks -> Seq(V!Calls)] :
           /\ \A t \in Tasks : f[t] = Seen(symbol, c, t)
           /\ \A q \in Seq(Tasks) : Queued(symbol, c, q) = Image(f, q)
<1>1. \A t \in Tasks : Seen(symbol, c, t) \in Seq(V!Calls)
  BY SeenIs
<1>2. PICK f \in [Tasks -> Seq(V!Calls)] : f = [t \in Tasks |-> Seen(symbol, c, t)]
  BY <1>1
<1>3. ASSUME NEW q \in Seq(Tasks) PROVE Queued(symbol, c, q) = Image(f, q)
  <2>1. \A n \in DOMAIN q : Seen(symbol, c, q[n]) = f[q[n]]
    BY <1>2
  <2>2. [n \in DOMAIN q |-> Seen(symbol, c, q[n])] = [n \in DOMAIN q |-> f[q[n]]]
    BY <2>1
  <2>3. QED
    BY <2>2 DEF Queued, Image
<1>4. QED
  BY <1>2, <1>3

(* A queue is calls,                                                       *)
LEMMA QueuedType ==
  ASSUME NEW symbol, NEW c, NEW q \in Seq(Tasks)
  PROVE  Queued(symbol, c, q) \in Seq(V!Calls)
<1>1. PICK f \in [Tasks -> Seq(V!Calls)] :
        \A r \in Seq(Tasks) : Queued(symbol, c, r) = Image(f, r)
  BY QueuedIs
<1>2. Image(f, q) \in Seq(V!Calls)
  BY ImageType
<1>3. QED
  BY <1>1, <1>2

(* one more when a task is appended,                                       *)
LEMMA QueuedAppend ==
  ASSUME NEW symbol, NEW c, NEW q \in Seq(Tasks), NEW t \in Tasks
  PROVE  Queued(symbol, c, Append(q, t)) = Queued(symbol, c, q) \o Seen(symbol, c, t)
<1>1. PICK f \in [Tasks -> Seq(V!Calls)] :
        /\ \A u \in Tasks : f[u] = Seen(symbol, c, u)
        /\ \A r \in Seq(Tasks) : Queued(symbol, c, r) = Image(f, r)
  BY QueuedIs
<1>2. Extends(f, V!Calls, Tasks)
  BY ImageAppend
<1>3. Append(q, t) \in Seq(Tasks)
  OBVIOUS
<1>4. QED
  BY <1>1, <1>2, <1>3 DEF Extends

(* one less when the head is taken,                                        *)
LEMMA QueuedTail ==
  ASSUME NEW symbol, NEW c, NEW q \in Seq(Tasks), q # <<>>
  PROVE  Queued(symbol, c, q) = Seen(symbol, c, Head(q)) \o Queued(symbol, c, Tail(q))
<1>1. PICK f \in [Tasks -> Seq(V!Calls)] :
        /\ \A u \in Tasks : f[u] = Seen(symbol, c, u)
        /\ \A r \in Seq(Tasks) : Queued(symbol, c, r) = Image(f, r)
  BY QueuedIs
<1>2. Splits(f, V!Calls, Tasks)
  BY ImageTail
<1>3. Head(q) \in Tasks /\ Tail(q) \in Seq(Tasks)
  OBVIOUS
<1>4. QED
  BY <1>1, <1>2, <1>3 DEF Splits

(* and none when it is empty.                                              *)
LEMMA QueuedEmpty == \A symbol, c : Queued(symbol, c, <<>>) = <<>>
<1> TAKE symbol, c
<1>1. PICK f \in [Tasks -> Seq(V!Calls)] :
        \A q \in Seq(Tasks) : Queued(symbol, c, q) = Image(f, q)
  BY QueuedIs
<1>2. <<>> \in Seq(Tasks)
  OBVIOUS
<1>3. QED
  BY <1>1, <1>2, ImageEmpty

-----------------------------------------------------------------------------
(* The state of the venue.                                                 *)

Phase == CASE pool = "up" -> "open" [] pool = "closing" -> "closing"
           [] OTHER -> "closed"
Pending == [symbol \in Symbols |-> [c \in Producers |-> Unapplied(symbol, c)]]
Contents == [symbol \in Symbols |-> BookOf(getShard(symbol), symbol)]

(* The phases of the venue are those of the pool.                          *)
LEMMA PhaseIs ==
  ASSUME pool \in {"up", "closing", "down"}
  PROVE  /\ Phase = "open" <=> pool = "up"
         /\ Phase = "closing" <=> pool = "closing"
         /\ Phase = "closed" <=> pool = "down"
BY DEF Phase

(* The venue has the book of handles the exchange has.                     *)
LEMMA SameBook ==
  /\ V!EmptyBook = EmptyBook
  /\ \A book, h : /\ V!Entered(book, h) = Entered(book, h)
                  /\ V!Dangling(book, h) <=> Dangling(book, h)
                  /\ V!Cancelled(book, h) = Cancelled(book, h)
BY DEF EmptyBook, V!EmptyBook, Absent, V!Absent, Entered, V!Entered,
       AfterFills, V!AfterFills, AfterEntry, V!AfterEntry, Places, V!Places,
       Entries, V!Entries, Dangling, V!Dangling, Cancelled, V!Cancelled

(* The start of the venue, as the exchange has it.                         *)
LEMMA VenueInit ==
  V!Init <=> /\ Phase = "open" /\ Pending = V!Nothing
             /\ Contents = [symbol \in Symbols |-> EmptyBook] /\ corrupt = FALSE
BY SameBook DEF V!Init, Phase, Pending, Contents

(* What the venue does not see.                                            *)
LEMMA VenueSame ==
  UNCHANGED V!vars <=> UNCHANGED <<Phase, Pending, Contents, corrupt>>
BY DEF V!vars, Phase, Pending, Contents

(* A call made.                                                            *)
LEMMA VenueSubmit ==
  ASSUME NEW c \in Producers, NEW symbol \in Symbols, NEW call \in V!Calls,
         ~corrupt, Phase = "open", UNCHANGED <<Phase, Contents, corrupt>>,
         Pending' = [Pending EXCEPT ![symbol][c] = Append(@, call)]
  PROVE  V!Next
<1>1. V!Submit(c, symbol, call)
  BY DEF V!Submit, Phase, Pending, Contents
<1>2. QED
  BY <1>1 DEF V!Next

(* Closing begins,                                                         *)
LEMMA VenueClose ==
  ASSUME ~corrupt, Phase = "open", Phase' = "closing",
         UNCHANGED <<Pending, Contents, corrupt>>
  PROVE  V!Next
<1>1. V!Close
  BY DEF V!Close, Phase, Pending, Contents
<1>2. QED
  BY <1>1 DEF V!Next

(* and ends.                                                               *)
LEMMA VenueClosed ==
  ASSUME ~corrupt, Phase = "closing", Phase' = "closed", Pending' = V!Nothing,
         UNCHANGED <<Contents, corrupt>>
  PROVE  V!Next
<1>1. V!Closed
  BY DEF V!Closed, Phase, Pending, Contents
<1>2. QED
  BY <1>1 DEF V!Next

(* An order takes effect.                                                  *)
LEMMA VenueNew ==
  ASSUME NEW c \in Producers, NEW symbol \in Symbols, ~corrupt, Phase # "closed",
         Pending[symbol][c] # <<>>, Head(Pending[symbol][c]).op = "new",
         NEW b \in Entered(Contents[symbol], Head(Pending[symbol][c]).order),
         Contents' = [Contents EXCEPT ![symbol] = b],
         Pending' = [Pending EXCEPT ![symbol][c] = Tail(@)],
         UNCHANGED <<Phase, corrupt>>
  PROVE  V!Next
<1>1. V!New(symbol, Head(Pending[symbol][c]).order)
  BY SameBook DEF V!New, Contents
<1>2. V!TakeEffect(c, symbol)
  BY <1>1 DEF V!TakeEffect, V!Due, V!NextCall, Phase, Pending, Contents
<1>3. QED
  BY <1>2 DEF V!Next

(* A cancel takes effect.                                                  *)
LEMMA VenueCancel ==
  ASSUME NEW c \in Producers, NEW symbol \in Symbols, ~corrupt, Phase # "closed",
         Pending[symbol][c] # <<>>, Head(Pending[symbol][c]).op = "cancel",
         NEW h, h = Head(Pending[symbol][c]).order, ~Dangling(Contents[symbol], h),
         Contents' = [Contents EXCEPT ![symbol] = Cancelled(@, h)],
         Pending' = [Pending EXCEPT ![symbol][c] = Tail(@)],
         UNCHANGED <<Phase, corrupt>>
  PROVE  V!Next
<1>1. V!Cancel(symbol, h)
  BY SameBook DEF V!Cancel, Contents
<1>2. V!TakeEffect(c, symbol)
  BY <1>1 DEF V!TakeEffect, V!Due, V!NextCall, Phase, Pending, Contents
<1>3. QED
  BY <1>2 DEF V!Next

(* A cancel uses a freed node.                                             *)
LEMMA VenueUseFreed ==
  ASSUME NEW c \in Producers, NEW symbol \in Symbols, ~corrupt, Phase # "closed",
         Pending[symbol][c] # <<>>, Head(Pending[symbol][c]).op = "cancel",
         Dangling(Contents[symbol], Head(Pending[symbol][c]).order),
         corrupt' = TRUE, UNCHANGED <<Phase, Pending, Contents>>
  PROVE  V!Next
<1>1. V!UseFreed(c, symbol)
  BY SameBook DEF V!UseFreed, V!Due, V!NextCall, Phase, Pending, Contents
<1>2. QED
  BY <1>1 DEF V!Next

-----------------------------------------------------------------------------
(* The steps.                                                              *)

LEMMA PendingSame ==
  ASSUME \A s \in Symbols, d \in Producers : Unapplied(s, d)' = Unapplied(s, d)
  PROVE  UNCHANGED Pending
BY DEF Pending

(* The calls pending of a client for a symbol.                             *)
LEMMA PendingAt ==
  \A symbol \in Symbols, c \in Producers : Pending[symbol][c] = Unapplied(symbol, c)
BY DEF Pending

(* Books that stay show the same contents.                                 *)
LEMMA ContentsSame == UNCHANGED shards_ => UNCHANGED Contents
BY DEF Contents, BookOf, HasBook

(* A pool that stays shows the same phase.                                 *)
LEMMA PhaseSame == UNCHANGED pool => UNCHANGED Phase
BY DEF Phase

(* Queues hold tasks and symbols have a shard.                             *)
LEMMA QueuesTyped ==
  ASSUME PoolInv
  PROVE  /\ tasks_ \in [Shards -> [Producers -> Seq(Tasks)]]
         /\ task \in [Shards -> Tasks \cup {NoTask}]
         /\ pool \in {"up", "closing", "down"}
         /\ \A symbol \in Symbols : getShard(symbol) \in Shards
BY ShardOf DEF PoolInv, PoolTypeOK

(* What is pending is what runs and what is queued.                        *)
LEMMA UnappliedParts ==
  ASSUME PoolInv, NEW s \in Symbols, NEW d \in Producers
  PROVE  LET j == getShard(s) IN
         /\ j \in Shards
         /\ task[j] \in Tasks \cup {NoTask} /\ tasks_[j][d] \in Seq(Tasks)
         /\ Seen(s, d, task[j]) \in Seq(V!Calls)
         /\ Queued(s, d, tasks_[j][d]) \in Seq(V!Calls)
         /\ Unapplied(s, d) = Seen(s, d, task[j]) \o Queued(s, d, tasks_[j][d])
         /\ Unapplied(s, d) \in Seq(V!Calls)
<1>1. PICK j \in Shards : j = getShard(s)
  BY ShardOf
<1>2. task[j] \in Tasks \cup {NoTask} /\ tasks_[j][d] \in Seq(Tasks)
  BY QueuesTyped
<1>3. Seen(s, d, task[j]) \in Seq(V!Calls)
  BY <1>2, SeenIs
<1>4. Queued(s, d, tasks_[j][d]) \in Seq(V!Calls)
  BY <1>2, QueuedType
<1>5. QED
  BY <1>1, <1>2, <1>3, <1>4 DEF Unapplied

(* A call that is made is put behind those its client made for the symbol. *)
LEMMA CallMade ==
  ASSUME PoolInv, ~corrupt, NEW t \in Tasks, enqueue(t.by, t, getShard(t.symbol)),
         UNCHANGED <<shards_, corrupt>>
  PROVE  V!Next
<1> DEFINE c == t.by
           i == getShard(t.symbol)
<1>1. c \in Producers /\ t.symbol \in Symbols /\ i \in Shards
  BY ShardOf DEF Tasks
<1>2. /\ tasks_' = [tasks_ EXCEPT ![i][c] = Append(@, t)] /\ pool = "up"
      /\ UNCHANGED <<task, pool>>
  BY DEF enqueue
<1>3. tasks_[i][c] \in Seq(Tasks) /\ Append(tasks_[i][c], t) \in Seq(Tasks)
  BY <1>1, QueuesTyped
<1>4. /\ tasks_'[i][c] = Append(tasks_[i][c], t)
      /\ \A j \in Shards, d \in Producers : j # i \/ d # c =>
           tasks_'[j][d] = tasks_[j][d]
  BY <1>1, <1>2, <1>3, QueuesTyped, TP!UpdateAt
<1> HIDE DEF c, i
<1>5. ASSUME NEW s \in Symbols, NEW d \in Producers
      PROVE  Unapplied(s, d)' = Unapplied(s, d) \o
               (IF s = t.symbol /\ d = c THEN <<View(t)>> ELSE <<>>)
  <2>1. PICK j \in Shards : j = getShard(s)
    BY ShardOf
  <2>2. PICK a \in Seq(V!Calls), b \in Seq(V!Calls) :
          a = Seen(s, d, task[j]) /\ b = Queued(s, d, tasks_[j][d])
    BY <2>1, UnappliedParts
  <2>3. /\ Unapplied(s, d) = a \o b
        /\ Unapplied(s, d)' = a \o Queued(s, d, tasks_'[j][d])
    BY <1>2, <2>1, <2>2 DEF Unapplied
  <2>4. CASE j = i /\ d = c
    <3>1. PICK e \in Seq(V!Calls) : e = Seen(s, d, t)
      BY SeenIs
    <3>2. Queued(s, d, tasks_'[j][d]) = b \o e
      BY <1>3, <1>4, <2>2, <2>4, <3>1, QueuedAppend
    <3>3. e = IF s = t.symbol /\ d = c THEN <<View(t)>> ELSE <<>>
      <4>1. t # NoTask
        OBVIOUS
      <4>2. QED
        BY <3>1, <4>1, SeenIs DEF c
    <3>4. a \o (b \o e) = (a \o b) \o e
      OBVIOUS
    <3>5. QED
      BY <2>3, <3>2, <3>3, <3>4
  <2>5. CASE j # i \/ d # c
    <3>1. tasks_'[j][d] = tasks_[j][d]
      BY <1>4, <2>5
    <3>2. ~ (s = t.symbol /\ d = c)
      BY <2>1, <2>5 DEF i
    <3>3. (a \o b) \o <<>> = a \o b
      OBVIOUS
    <3>4. QED
      BY <2>2, <2>3, <3>1, <3>2, <3>3
  <2>6. QED
    BY <2>4, <2>5
<1>6. \A s \in Symbols, d \in Producers : Unapplied(s, d) \in Seq(V!Calls)
  BY UnappliedParts
<1>7. View(t) \in V!Calls
  BY DEF View, V!Calls, Tasks
<1>8. Unapplied(t.symbol, c)' = Append(Pending[t.symbol][c], View(t))
  BY <1>1, <1>5, <1>6, <1>7, PendingAt, AppendIsConcat
<1>9. \A s \in Symbols, d \in Producers : s # t.symbol \/ d # c =>
        Unapplied(s, d)' = Unapplied(s, d)
  BY <1>5, <1>6
<1>10. Pending' = [Pending EXCEPT ![t.symbol][c] = Append(@, View(t))]
  BY <1>1, <1>8, <1>9 DEF Pending
<1>11. Phase = "open" /\ UNCHANGED <<Phase, Contents, corrupt>>
  BY <1>2, QueuesTyped, PhaseIs, PhaseSame, ContentsSame
<1>12. QED
  BY <1>1, <1>7, <1>10, <1>11, VenueSubmit

(* A call that a worker takes keeps its place: the worker had none, and the*)
(* call was the head of the queue of the client who made it.               *)
LEMMA CallTaken ==
  ASSUME PoolInv, CallsRouted, NEW i \in Shards, TakeTask(i)
  PROVE  UNCHANGED Pending
<1>1. PICK c \in Producers :
        /\ tasks_[i][c] # <<>>
        /\ task' = [task EXCEPT ![i] = Head(tasks_[i][c])]
        /\ tasks_' = [tasks_ EXCEPT ![i][c] = Tail(@)]
  BY DEF TakeTask
<1>2. PICK q \in Seq(Tasks) : q = tasks_[i][c] /\ q # <<>>
  BY <1>1, QueuesTyped
<1>3. PICK t \in Tasks : t = Head(q)
  BY <1>2
<1>4. Tail(q) \in Seq(Tasks)
  BY <1>2
<1>5. /\ tasks_'[i][c] = Tail(q)
      /\ \A j \in Shards, d \in Producers : j # i \/ d # c =>
           tasks_'[j][d] = tasks_[j][d]
      /\ task'[i] = t /\ \A j \in Shards : j # i => task'[j] = task[j]
  <2>1. tasks_' = [tasks_ EXCEPT ![i][c] = Tail(q)]
    BY <1>1, <1>2
  <2>2. /\ tasks_'[i][c] = Tail(q)
        /\ \A j \in Shards, d \in Producers : j # i \/ d # c =>
             tasks_'[j][d] = tasks_[j][d]
    BY <1>4, <2>1, QueuesTyped, TP!UpdateAt
  <2>3. task'[i] = t /\ \A j \in Shards : j # i => task'[j] = task[j]
    BY <1>1, <1>2, <1>3, QueuesTyped
  <2>4. QED
    BY <2>2, <2>3
<1>6. task[i] = NoTask /\ pool # "down"
  BY DEF TakeTask, PoolInv, Shutdown, Shards
<1>7. t.by = c
  <2>1. sent[i][c] = started[i][c] \o q
    BY <1>2, <1>6 DEF PoolInv, InOrderOnce
  <2>2. PICK r \in Seq(Tasks) : r = started[i][c]
    BY DEF PoolInv, PoolTypeOK
  <2>3. PICK n : n = Len(r) + 1
    OBVIOUS
  <2>4. n \in DOMAIN (r \o q) /\ (r \o q)[n] = t
    BY <1>2, <1>3, <2>3
  <2>5. n \in DOMAIN sent[i][c] /\ sent[i][c][n] = t
    BY <2>1, <2>2, <2>4
  <2>6. t \in Range(sent[i][c])
    BY <2>5 DEF Range
  <2>7. QED
    BY <2>6, SentAreRouted
<1>8. ASSUME NEW s \in Symbols, NEW d \in Producers
      PROVE  Unapplied(s, d)' = Unapplied(s, d)
  <2>1. PICK j \in Shards : j = getShard(s)
    BY ShardOf
  <2>2. /\ Unapplied(s, d) = Seen(s, d, task[j]) \o Queued(s, d, tasks_[j][d])
        /\ Unapplied(s, d)' = Seen(s, d, task'[j]) \o Queued(s, d, tasks_'[j][d])
    BY <2>1 DEF Unapplied
  <2>3. CASE j # i
    BY <1>5, <2>2, <2>3
  <2>4. CASE j = i /\ d # c
    <3>1. Seen(s, d, task[j]) = <<>>
      BY <1>6, <2>4, SeenIs
    <3>2. Seen(s, d, t) = <<>>
      <4>1. t # NoTask /\ t.by # d
        BY <1>7, <2>4
      <4>2. QED
        BY <4>1, SeenIs
    <3>3. QED
      BY <1>5, <2>2, <2>4, <3>1, <3>2
  <2>5. CASE j = i /\ d = c
    <3>1. Seen(s, c, task[j]) = <<>>
      BY <1>6, <2>5, SeenIs
    <3>2. Queued(s, c, q) = Seen(s, c, t) \o Queued(s, c, Tail(q))
      BY <1>2, <1>3, QueuedTail
    <3>3. Queued(s, c, q) \in Seq(V!Calls)
      BY QueuedType
    <3>4. <<>> \o Queued(s, c, q) = Queued(s, c, q)
      BY <3>3
    <3>5. QED
      BY <1>2, <1>5, <2>2, <2>5, <3>1, <3>2, <3>4
  <2>6. QED
    BY <2>3, <2>4, <2>5
<1>9. QED
  BY <1>8, PendingSame

(* The call that a worker runs is the first of those its client made for   *)
(* the symbol.                                                             *)
LEMMA CallIsNext ==
  ASSUME PoolInv, CallsRouted, NEW i \in Shards, worker[i] = "run"
  PROVE  LET t == task[i] IN
         /\ t \in Tasks /\ t # NoTask /\ i = getShard(t.symbol) /\ Phase # "closed"
         /\ Pending[t.symbol][t.by] # <<>>
         /\ Head(Pending[t.symbol][t.by]) = View(t)
<1>1. task[i] # NoTask /\ pool # "down"
  BY DEF PoolInv, Shutdown, Shards
<1>2. PICK t \in Tasks : t = task[i]
  BY <1>1, QueuesTyped
<1>3. t # NoTask /\ i = getShard(t.symbol) /\ t.symbol \in Symbols /\ t.by \in Producers
  BY <1>1, <1>2, RunningIsLast DEF Tasks
<1>4. View(t) \in V!Calls
  BY DEF View, V!Calls, Tasks
<1>5. PICK b \in Seq(V!Calls) : b = Queued(t.symbol, t.by, tasks_[i][t.by])
  BY <1>3, UnappliedParts
<1>6. Unapplied(t.symbol, t.by) = <<View(t)>> \o b
  BY <1>2, <1>3, <1>5, SeenIs DEF Unapplied
<1>7. <<View(t)>> \o b # <<>> /\ Head(<<View(t)>> \o b) = View(t)
  BY <1>4
<1>8. Pending[t.symbol][t.by] = <<View(t)>> \o b
  BY <1>3, <1>6, PendingAt
<1>9. Phase # "closed"
  BY <1>1, QueuesTyped, PhaseIs
<1>10. QED
  BY <1>2, <1>3, <1>7, <1>8, <1>9

(* It takes effect when its task returns, and goes.                        *)
LEMMA CallRuns ==
  ASSUME PoolInv, CallsRouted, NEW i \in Shards, FinishTask(i)
  PROVE  LET t == task[i] IN
         /\ t \in Tasks /\ i = getShard(t.symbol)
         /\ Phase # "closed" /\ UNCHANGED Phase
         /\ Pending[t.symbol][t.by] # <<>>
         /\ Head(Pending[t.symbol][t.by]) = View(t)
         /\ Pending' = [Pending EXCEPT ![t.symbol][t.by] = Tail(@)]
<1>1. /\ worker[i] = "run" /\ task' = [task EXCEPT ![i] = NoTask]
      /\ UNCHANGED <<tasks_, pool>>
  BY DEF FinishTask
<1>2. PICK t \in Tasks : t = task[i]
  BY <1>1, CallIsNext
<1>3. /\ t # NoTask /\ i = getShard(t.symbol) /\ Phase # "closed"
      /\ Pending[t.symbol][t.by] # <<>> /\ Head(Pending[t.symbol][t.by]) = View(t)
  BY <1>1, <1>2, CallIsNext
<1>4. t.symbol \in Symbols /\ t.by \in Producers
  BY DEF Tasks
<1>5. task'[i] = NoTask /\ \A j \in Shards : j # i => task'[j] = task[j]
  BY <1>1, QueuesTyped
<1>6. View(t) \in V!Calls
  BY DEF View, V!Calls, Tasks
<1>7. ASSUME NEW s \in Symbols, NEW d \in Producers
      PROVE  /\ Unapplied(s, d)' \in Seq(V!Calls)
             /\ Unapplied(s, d) =
                  (IF s = t.symbol /\ d = t.by THEN <<View(t)>> ELSE <<>>)
                    \o Unapplied(s, d)'
  <2>1. PICK j \in Shards : j = getShard(s)
    BY ShardOf
  <2>2. PICK b \in Seq(V!Calls) : b = Queued(s, d, tasks_[j][d])
    BY <2>1, UnappliedParts
  <2>3. /\ Unapplied(s, d) = Seen(s, d, task[j]) \o b
        /\ Unapplied(s, d)' = Seen(s, d, task'[j]) \o b
    BY <1>1, <2>1, <2>2 DEF Unapplied
  <2>4. CASE j = i
    <3>1. Seen(s, d, task'[j]) = <<>>
      BY <1>5, <2>4, SeenIs
    <3>2. Seen(s, d, t) = IF s = t.symbol /\ d = t.by THEN <<View(t)>> ELSE <<>>
      BY <1>3, SeenIs
    <3>3. <<>> \o b = b
      OBVIOUS
    <3>4. QED
      BY <1>2, <2>2, <2>3, <2>4, <3>1, <3>2, <3>3
  <2>5. CASE j # i
    <3>1. s # t.symbol
      BY <1>3, <2>1, <2>5
    <3>2. Unapplied(s, d)' = Unapplied(s, d) /\ Unapplied(s, d) \in Seq(V!Calls)
      BY <1>5, <2>3, <2>5, UnappliedParts
    <3>3. <<>> \o Unapplied(s, d) = Unapplied(s, d)
      BY <3>2
    <3>4. QED
      BY <3>1, <3>2, <3>3
  <2>6. QED
    BY <2>4, <2>5
<1>8. PICK u \in Seq(V!Calls) : u = Unapplied(t.symbol, t.by)'
  BY <1>4, <1>7
<1>9. Pending[t.symbol][t.by] = <<View(t)>> \o u
  BY <1>4, <1>7, <1>8, PendingAt
<1>10. <<View(t)>> \o u # <<>> /\ Head(<<View(t)>> \o u) = View(t)
       /\ Tail(<<View(t)>> \o u) = u
  BY <1>6
<1>11. \A s \in Symbols, d \in Producers : s # t.symbol \/ d # t.by =>
         Unapplied(s, d)' = Unapplied(s, d)
  BY <1>7
<1>12. Pending' = [Pending EXCEPT ![t.symbol][t.by] = Tail(@)]
  BY <1>4, <1>8, <1>9, <1>10, <1>11 DEF Pending
<1>13. UNCHANGED Phase
  BY <1>1, PhaseSame
<1>14. QED
  BY <1>2, <1>3, <1>12, <1>13

(* The book of one symbol gets a new content, and no other book does.      *)
LEMMA ContentsChange ==
  ASSUME NEW i \in Shards, NEW symbol \in Symbols, i = getShard(symbol),
         \A j \in Shards, s \in Symbols : j # i \/ s # symbol =>
           BookOf(j, s)' = BookOf(j, s)
  PROVE  Contents' = [Contents EXCEPT ![symbol] = BookOf(i, symbol)']
<1>1. \A s \in Symbols : s # symbol =>
        BookOf(getShard(s), s)' = BookOf(getShard(s), s)
  BY ShardOf
<1>2. QED
  BY <1>1 DEF Contents

(* The end of newOrder's closure is an order that takes effect.            *)
LEMMA NewRuns ==
  ASSUME PoolInv, ExchangeInv, ~corrupt, UNCHANGED corrupt, NEW i \in Shards,
         FinishTask(i), RunNew(i, task[i])
  PROVE  V!Next
<1>1. CallsRouted /\ BooksTyped
  BY ExchangeParts
<1>2. PICK t \in Tasks : t = task[i]
  BY <1>1, CallRuns
<1>3. /\ i = getShard(t.symbol) /\ Phase # "closed" /\ UNCHANGED Phase
      /\ Pending[t.symbol][t.by] # <<>>
      /\ Head(Pending[t.symbol][t.by]) = View(t)
      /\ Pending' = [Pending EXCEPT ![t.symbol][t.by] = Tail(@)]
  BY <1>1, <1>2, CallRuns
<1>4. t.symbol \in Symbols /\ t.by \in Producers
  BY DEF Tasks
<1>5. /\ t.op = "new"
      /\ BookOf(i, t.symbol)' \in Entered(BookOf(i, t.symbol), t.order)
      /\ \A j \in Shards, s \in Symbols : j # i \/ s # t.symbol =>
           BookOf(j, s)' = BookOf(j, s)
  BY <1>1, <1>2, RunNewEffect
<1>6. PICK b \in Entered(Contents[t.symbol], t.order) : b = BookOf(i, t.symbol)'
  BY <1>3, <1>4, <1>5 DEF Contents
<1>7. Contents' = [Contents EXCEPT ![t.symbol] = b]
  BY <1>3, <1>4, <1>5, <1>6, ContentsChange
<1>8. View(t).op = "new" /\ View(t).order = t.order
  BY <1>5 DEF View
<1>9. QED
  BY <1>3, <1>4, <1>6, <1>7, <1>8, VenueNew

(* The end of cancelOrder's closure is a cancel that takes effect.         *)
LEMMA CancelRuns ==
  ASSUME PoolInv, ExchangeInv, ~corrupt, UNCHANGED corrupt, NEW i \in Shards,
         FinishTask(i), RunCancel(i, task[i])
  PROVE  V!Next
<1>1. CallsRouted /\ BooksTyped
  BY ExchangeParts
<1>2. PICK t \in Tasks : t = task[i]
  BY <1>1, CallRuns
<1>3. /\ i = getShard(t.symbol) /\ Phase # "closed" /\ UNCHANGED Phase
      /\ Pending[t.symbol][t.by] # <<>>
      /\ Head(Pending[t.symbol][t.by]) = View(t)
      /\ Pending' = [Pending EXCEPT ![t.symbol][t.by] = Tail(@)]
  BY <1>1, <1>2, CallRuns
<1>4. t.symbol \in Symbols /\ t.by \in Producers
  BY DEF Tasks
<1>5. /\ t.op = "cancel" /\ ~Dangling(BookOf(i, t.symbol), t.order)
      /\ BookOf(i, t.symbol)' = Cancelled(BookOf(i, t.symbol), t.order)
      /\ \A j \in Shards, s \in Symbols : j # i \/ s # t.symbol =>
           BookOf(j, s)' = BookOf(j, s)
  BY <1>1, <1>2, RunCancelEffect
<1>6. Contents[t.symbol] = BookOf(i, t.symbol)
  BY <1>3, <1>4 DEF Contents
<1>7. Contents' = [Contents EXCEPT ![t.symbol] = BookOf(i, t.symbol)']
  BY <1>3, <1>4, <1>5, ContentsChange
<1>8. Contents' = [Contents EXCEPT ![t.symbol] = Cancelled(@, t.order)]
  BY <1>5, <1>6, <1>7
<1>9. View(t).op = "cancel" /\ View(t).order = t.order
  BY <1>5 DEF View
<1>10. QED
  BY <1>3, <1>4, <1>5, <1>6, <1>8, <1>9, VenueCancel

(* A closure that uses a freed node ends the venue's promise.              *)
LEMMA CorruptRuns ==
  ASSUME PoolInv, ExchangeInv, ~corrupt, NEW i \in Shards, UseFreed(i)
  PROVE  V!Next
<1>1. CallsRouted /\ worker[i] = "run"
  BY ExchangeParts DEF UseFreed
<1>2. PICK t \in Tasks : t = task[i]
  BY <1>1, CallIsNext
<1>3. /\ i = getShard(t.symbol) /\ Phase # "closed"
      /\ Pending[t.symbol][t.by] # <<>>
      /\ Head(Pending[t.symbol][t.by]) = View(t)
  BY <1>1, <1>2, CallIsNext
<1>4. t.symbol \in Symbols /\ t.by \in Producers
  BY DEF Tasks
<1>5. /\ t.op = "cancel" /\ Dangling(BookOf(i, t.symbol), t.order)
      /\ corrupt' = TRUE /\ UNCHANGED <<tasks_, task, pool, shards_>>
  BY <1>2 DEF UseFreed, thread_pool_
<1>6. Contents[t.symbol] = BookOf(i, t.symbol)
  BY <1>3, <1>4 DEF Contents
<1>7. UNCHANGED <<Phase, Pending, Contents>>
  BY <1>5, PhaseSame, ContentsSame DEF Pending, Unapplied
<1>8. View(t).op = "cancel" /\ View(t).order = t.order
  BY <1>5 DEF View
<1>9. QED
  BY <1>3, <1>4, <1>5, <1>6, <1>7, <1>8, VenueUseFreed

(* Only the last join drops what is queued, and it closes the venue.       *)
LEMMA PoolCloses ==
  ASSUME PoolInv, PoolInv', ~corrupt, Join, UNCHANGED <<shards_, corrupt>>
  PROVE  V!Next \/ UNCHANGED V!vars
<1>1. UNCHANGED <<Contents, corrupt, task>>
  BY ContentsSame DEF Join
<1>2. CASE joining # 0
  <2>1. UNCHANGED <<pool, tasks_>>
    BY <1>2 DEF Join
  <2>2. UNCHANGED Pending
    BY <1>1, <2>1 DEF Pending, Unapplied
  <2>3. QED
    BY <1>1, <2>1, <2>2, PhaseSame, VenueSame
<1>3. CASE joining = 0
  <2>1. /\ pool = "closing" /\ pool' = "down"
        /\ tasks_' = [i \in Shards |-> [p \in Producers |-> <<>>]]
    BY <1>3 DEF Join
  <2>2. Phase = "closing" /\ Phase' = "closed"
    BY <2>1 DEF Phase
  <2>3. \A i \in Shards : task'[i] = NoTask
    BY <2>1 DEF PoolInv, Shutdown, Shards
  <2>4. ASSUME NEW s \in Symbols, NEW d \in Producers
        PROVE  Unapplied(s, d)' = <<>>
    <3>1. PICK j \in Shards : j = getShard(s)
      BY ShardOf
    <3>2. Unapplied(s, d)' = Seen(s, d, task'[j]) \o Queued(s, d, tasks_'[j][d])
      BY <3>1 DEF Unapplied
    <3>3. Seen(s, d, task'[j]) = <<>>
      BY <2>3, SeenIs
    <3>4. Queued(s, d, tasks_'[j][d]) = <<>>
      BY <2>1, QueuedEmpty
    <3>5. QED
      BY <3>2, <3>3, <3>4
  <2>5. Pending' = V!Nothing
    BY <2>4 DEF Pending, V!Nothing
  <2>6. QED
    BY <1>1, <2>2, <2>5, VenueClosed
<1>4. QED
  BY <1>2, <1>3

-----------------------------------------------------------------------------
(* The refinement.                                                         *)

LEMMA StartsOpen == Init => V!Init
<1> SUFFICES ASSUME Init PROVE V!Init
  OBVIOUS
<1>1. Phase = "open" /\ corrupt = FALSE
  BY DEF Init, PoolInit, Phase
<1>2. Contents = [symbol \in Symbols |-> EmptyBook]
  BY ShardOf DEF Init, Contents, BookOf, HasBook
<1>3. ASSUME NEW s \in Symbols, NEW d \in Producers PROVE Unapplied(s, d) = <<>>
  <2>1. task[getShard(s)] = NoTask /\ tasks_[getShard(s)][d] = <<>>
    BY ShardOf DEF Init, PoolInit
  <2>2. Seen(s, d, NoTask) = <<>> /\ Queued(s, d, <<>>) = <<>>
    BY SeenIs, QueuedEmpty
  <2>3. QED
    BY <2>1, <2>2 DEF Unapplied
<1>4. Pending = V!Nothing
  BY <1>3 DEF Pending, V!Nothing
<1>5. QED
  BY <1>1, <1>2, <1>4, VenueInit

(* What changes neither the pool's queues and tasks nor the books is not   *)
(* seen.                                                                   *)
LEMMA Unseen ==
  UNCHANGED <<tasks_, task, pool, shards_, corrupt>> => UNCHANGED V!vars
<1> SUFFICES ASSUME UNCHANGED <<tasks_, task, pool, shards_, corrupt>>
             PROVE  UNCHANGED V!vars
  OBVIOUS
<1>1. UNCHANGED Pending
  BY DEF Pending, Unapplied
<1>2. QED
  BY <1>1, PhaseSame, ContentsSame, VenueSame

(* Every step of the exchange is one of the venue, or none.                *)
LEMMA VenueSteps ==
  PoolInv /\ PoolInv' /\ ExchangeInv /\ [Next]_vars => V!Next \/ UNCHANGED V!vars
<1> SUFFICES ASSUME PoolInv, PoolInv', ExchangeInv, [Next]_vars
             PROVE  V!Next \/ UNCHANGED V!vars
  OBVIOUS
<1>1. CASE UNCHANGED vars
  <2>1. UNCHANGED <<tasks_, task, pool, shards_, corrupt>>
    BY <1>1 DEF vars, thread_pool_
  <2>2. QED
    BY <2>1, Unseen
<1> SUFFICES ASSUME Next PROVE V!Next \/ UNCHANGED V!vars
  BY <1>1
<1>0. ~corrupt
  BY DEF Next
<1>2. ASSUME NEW c \in Producers, Client(c) PROVE V!Next \/ UNCHANGED V!vars
  <2>1. ASSUME NEW op \in {"new", "cancel"}, NEW symbol \in Symbols,
               NEW h \in Handles, Submit(c, op, symbol, h)
        PROVE  V!Next
    <3>1. PICK t \in Tasks :
            /\ t.symbol = symbol /\ t.by = c /\ enqueue(c, t, getShard(symbol))
            /\ UNCHANGED <<shards_, corrupt>>
      BY <2>1, SubmitIsTask
    <3>2. QED
      BY <1>0, <3>1, CallMade
  <2>3. ASSUME NEW symbol \in Symbols, BeginGetOrder(c, symbol) \/ EndGetOrder(c)
        PROVE  UNCHANGED V!vars
    BY <2>3, Unseen DEF BeginGetOrder, EndGetOrder, thread_pool_
  <2>4. CASE EndGetOrder(c)
    BY <2>4, Unseen DEF EndGetOrder, thread_pool_
  <2>5. QED
    BY <1>2, <2>1, <2>3, <2>4 DEF Client, newOrder, cancelOrder
<1>3. ASSUME NEW i \in Shards, Work(i) PROVE V!Next \/ UNCHANGED V!vars
  <2>1. CASE (TestStop(i) \/ Yield(i)) /\ UNCHANGED <<shards_, corrupt>>
    BY <2>1, Unseen DEF TestStop, Yield
  <2>2. CASE TakeTask(i) /\ UNCHANGED <<shards_, corrupt>>
    <3>1. UNCHANGED pool /\ CallsRouted
      BY <2>2 DEF TakeTask, ExchangeInv
    <3>2. UNCHANGED Pending
      BY <2>2, <3>1, CallTaken
    <3>3. QED
      BY <2>2, <3>1, <3>2, PhaseSame, ContentsSame, VenueSame
  <2>3. CASE FinishTask(i) /\ RunNew(i, task[i]) /\ UNCHANGED corrupt
    BY <1>0, <2>3, NewRuns
  <2>4. CASE FinishTask(i) /\ RunCancel(i, task[i]) /\ UNCHANGED corrupt
    BY <1>0, <2>4, CancelRuns
  <2>5. CASE UseFreed(i)
    BY <1>0, <2>5, CorruptRuns
  <2>6. QED
    BY <1>3, <2>1, <2>2, <2>3, <2>4, <2>5 DEF Work
<1>4. CASE DestroyPool
  <2>1. /\ pool = "up" /\ pool' = "closing"
        /\ UNCHANGED <<tasks_, task, shards_, corrupt>>
    BY <1>4 DEF DestroyPool, Destroy
  <2>2. UNCHANGED Pending /\ Phase = "open" /\ Phase' = "closing"
    BY <2>1 DEF Pending, Unapplied, Phase
  <2>3. QED
    BY <1>0, <2>1, <2>2, ContentsSame, VenueClose
<1>5. CASE DestroyPoolStep
  <2>1. CASE RequestStop /\ UNCHANGED <<shards_, corrupt>>
    BY <2>1, Unseen DEF RequestStop
  <2>2. CASE Join /\ UNCHANGED <<shards_, corrupt>>
    BY <1>0, <2>2, PoolCloses
  <2>3. QED
    BY <1>5, <2>1, <2>2 DEF DestroyPoolStep, Destructor
<1>6. CASE DestroyBooks
  BY <1>6, Unseen DEF DestroyBooks, thread_pool_
<1>7. QED
  BY <1>2, <1>3, <1>4, <1>5, <1>6 DEF Next

(* Until a cancel uses a freed node, the calls of one client for one symbol*)
(* take effect one at a time, each once and in the order they were made, on*)
(* the book of that symbol; only closing drops a call: the exchange is a   *)
(* venue.                                                                  *)
THEOREM IsAVenue == Spec => ImplementsVenue
<1>1. PoolInv /\ PoolInv' /\ ExchangeInv /\ [Next]_vars
        => [V!vars' # V!vars /\ V!Next]_V!vars
  BY VenueSteps
<1>2. QED
  BY <1>1, StartsOpen, PoolHolds, ExchangeInvariance, PTL
     DEF Spec, ImplementsVenue, V!Spec
=============================================================================

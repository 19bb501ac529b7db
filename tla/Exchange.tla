------------------------------ MODULE Exchange ------------------------------
(***************************************************************************)
(* The exchange (core/Exchange.cpp, Exchange.hpp): client threads submit   *)
(* orders and cancels for a symbol, the thread pool runs them on the shard *)
(* of the symbol, and getOrder reads a book from the client's own thread.  *)
(*                                                                         *)
(* The pool is the one of ThreadPool, and a book is the one HandleBook has *)
(* of OrderBook.  A cancel that OrderBook does not survive, of an order    *)
(* whose entry leads to a freed node, ends the model: the node may be of   *)
(* any book by then, or the process is lost.                               *)
(***************************************************************************)
EXTENDS Integers, FiniteSets, SequencesExt, HandleBook

CONSTANTS
  NUM_SHARDS, Producers, NoTask,  \* of the pool; Producers are the clients
  Symbols,    \* symbols, each standing for its std::hash
  NoSymbol,   \* the client is not in getOrder
  Readers,    \* bound: the clients that call getOrder
  MaxCalls    \* bound: calls of newOrder and cancelOrder

ASSUME SymbolAssumption == Symbols \subseteq Nat

(* The lambdas newOrder and cancelOrder enqueue, with what they capture:   *)
(* each call makes one of its own, and nr is the number of the call among  *)
(* those its client made for the shard.                                    *)
Tasks == [op: {"new", "cancel"}, symbol: Symbols, order: Handles,
          by: Producers, nr: Nat]

(* What ThreadPool assumes of the constants it is given.                   *)
ASSUME PoolAssumption == NUM_SHARDS \in Nat \ {0} /\ NoTask \notin Tasks

VARIABLES
  tasks_, worker, task, stop, pool, joining, sent, started,  \* of ThreadPool
  shards_,   \* shard -> its map: symbol -> book
  alive,     \* shards_ has not been destroyed
  corrupt,   \* a worker used a freed node
  reading    \* client -> the symbol its getOrder call looks at

INSTANCE ThreadPool

thread_pool_ == <<tasks_, worker, task, stop, pool, joining, sent, started>>
vars == <<thread_pool_, shards_, alive, corrupt, reading>>

(* std::hash of the symbol, modulo the number of shards.                   *)
getShard(symbol) == symbol % NUM_SHARDS

Init ==
  /\ PoolInit
  /\ shards_ = [i \in Shards |-> [symbol \in {} |-> EmptyBook]]
  /\ alive = TRUE
  /\ corrupt = FALSE
  /\ reading = [c \in Producers |-> NoSymbol]

Calls == UNION {Range(sent[i][c]) : i \in Shards, c \in Producers}

(* enqueue, on the shard of the symbol.                                    *)
Submit(c, op, symbol, h) ==
  LET i == getShard(symbol) IN
  /\ reading[c] = NoSymbol /\ Cardinality(Calls) < MaxCalls
  /\ enqueue(c, [op |-> op, symbol |-> symbol, order |-> h, by |-> c,
                 nr |-> Len(sent[i][c]) + 1], i)
  /\ UNCHANGED <<shards_, alive, corrupt, reading>>

(* Any order for any symbol, an order that was entered before among them.  *)
newOrder(c, symbol, h) == Submit(c, "new", symbol, h)

(* Any handle, one that was never entered or cancelled before among them.  *)
cancelOrder(c, symbol, h) == Submit(c, "cancel", symbol, h)

HasBook(i, symbol) == symbol \in DOMAIN shards_[i]
BookOf(i, symbol) == IF HasBook(i, symbol) THEN shards_[i][symbol] ELSE EmptyBook

(* Mutant of WithBook: the other books of the shard are lost.              *)
WithOnlyBook(i, symbol, book) ==
  [shards_ EXCEPT ![i] = [s \in {symbol} |-> book]]

(* The map of shard i with a new content for one book.                     *)
WithBook(i, symbol, book) ==
  [shards_ EXCEPT ![i] = [s \in DOMAIN @ \cup {symbol} |->
                            IF s = symbol THEN book ELSE @[s]]]

(* The lambda of newOrder: operator[] makes the book when there is none.   *)
RunNew(i, t) ==
  /\ t.op = "new"
  /\ \E b \in Entered(BookOf(i, t.symbol), t.order) :
       shards_' = WithBook(i, t.symbol, b)

(* Mutants of RunCancel: the order is not found; operator[] in place of    *)
(* find.                                                                   *)
RunCancelMisses(i, t) == t.op = "cancel" /\ UNCHANGED shards_
RunCancelMakesBook(i, t) ==
  /\ t.op = "cancel" /\ ~Dangling(BookOf(i, t.symbol), t.order)
  /\ shards_' = WithBook(i, t.symbol, Cancelled(BookOf(i, t.symbol), t.order))

(* The lambda of cancelOrder: find, and nothing when there is no book.     *)
RunCancel(i, t) ==
  /\ t.op = "cancel"
  /\ \/ ~HasBook(i, t.symbol) /\ UNCHANGED shards_
     \/ /\ HasBook(i, t.symbol) /\ ~Dangling(BookOf(i, t.symbol), t.order)
        /\ shards_' = WithBook(i, t.symbol, Cancelled(BookOf(i, t.symbol), t.order))

(* The same lambda, when the entry of the order leads to a freed node.     *)
UseFreed(i) ==
  /\ worker[i] = "run" /\ task[i].op = "cancel"
  /\ Dangling(BookOf(i, task[i].symbol), task[i].order)
  /\ corrupt' = TRUE /\ UNCHANGED <<thread_pool_, shards_>>

(* A worker's step; the effect of a task is there when it returns.         *)
Work(i) ==
  /\ ~corrupt
  /\ \/ (TestStop(i) \/ TakeTask(i) \/ Yield(i)) /\ UNCHANGED <<shards_, corrupt>>
     \/ /\ FinishTask(i) /\ (RunNew(i, task[i]) \/ RunCancel(i, task[i]))
        /\ UNCHANGED corrupt
     \/ UseFreed(i)
  /\ UNCHANGED <<alive, reading>>

(* getOrder reads the map, the index and the node with no lock.            *)
BeginGetOrder(c, symbol) ==
  /\ c \in Readers /\ pool = "up" /\ reading[c] = NoSymbol
  /\ reading' = [reading EXCEPT ![c] = symbol]
  /\ UNCHANGED <<thread_pool_, shards_, alive, corrupt>>

EndGetOrder(c) ==
  /\ reading[c] # NoSymbol
  /\ reading' = [reading EXCEPT ![c] = NoSymbol]
  /\ UNCHANGED <<thread_pool_, shards_, alive, corrupt>>

(* ~Exchange: thread_pool_ was declared last and goes first, then shards_. *)
DestroyPool ==
  /\ Destroy /\ \A c \in Producers : reading[c] = NoSymbol
  /\ UNCHANGED <<shards_, alive, corrupt, reading>>

DestroyPoolStep == Destructor /\ UNCHANGED <<shards_, alive, corrupt, reading>>

(* Mutant of DestroyBooks: shards_ declared after thread_pool_.            *)
DestroyBooksFirst ==
  /\ pool = "up" /\ alive /\ alive' = FALSE
  /\ UNCHANGED <<thread_pool_, shards_, corrupt, reading>>

DestroyBooks ==
  /\ pool = "down" /\ alive /\ alive' = FALSE
  /\ UNCHANGED <<thread_pool_, shards_, corrupt, reading>>

Client(c) ==
  \/ \E symbol \in Symbols, h \in Handles :
        newOrder(c, symbol, h) \/ cancelOrder(c, symbol, h)
  \/ \E symbol \in Symbols : BeginGetOrder(c, symbol)
  \/ EndGetOrder(c)

Next == /\ ~corrupt
        /\ \/ \E c \in Producers : Client(c)
           \/ \E i \in Shards : Work(i)
           \/ DestroyPool \/ DestroyPoolStep \/ DestroyBooks

Spec == Init /\ [][Next]_vars

(* Each worker thread runs; clients call when they like.                   *)
FairSpec == Spec /\ \A i \in Shards : WF_vars(Work(i))

-----------------------------------------------------------------------------
(* Properties                                                              *)

TypeOK ==
  /\ PoolTypeOK
  /\ DOMAIN shards_ = Shards
  /\ \A i \in Shards : \E S \in SUBSET Symbols :
       shards_[i] \in [S -> [Handles -> Places]]
  /\ alive \in BOOLEAN
  /\ corrupt \in BOOLEAN
  /\ reading \in [Producers -> Symbols \cup {NoSymbol}]

(* One call at most enters order h for symbol.                             *)
IsEntry(t, symbol, h) == t.op = "new" /\ t.symbol = symbol /\ t.order = h
EnteredOnce(symbol, h) ==
  \A t, u \in Calls : IsEntry(t, symbol, h) /\ IsEntry(u, symbol, h) => t = u

(* An order that is entered once rests once at most, and only when the call*)
(* has run; while it rests its entry leads to it, whatever it was matched  *)
(* with: a cancel of it never uses a freed node.                           *)
OnceIsExact ==
  \A symbol \in Symbols, h \in Handles :
    LET i == getShard(symbol)
        x == BookOf(i, symbol)[h]
    IN  EnteredOnce(symbol, h) =>
          /\ x.copies <= 1 /\ (x.copies = 1 => x.entry = "live")
          /\ x # Absent => \E c \in Producers : \E t \in Range(started[i][c]) :
                             IsEntry(t, symbol, h) /\ task[i] # t

(* Client c enqueued the cancel t, and before it the order t is about.     *)
OwnCancel(c, t) ==
  /\ t.op = "cancel"
  /\ LET calls == sent[getShard(t.symbol)][c] IN
     \E m, n \in DOMAIN calls :
        m < n /\ IsEntry(calls[m], t.symbol, t.order) /\ calls[n] = t

(* A client that submits an order and then cancels it is obeyed if nobody  *)
(* else submits that order: once the cancel ran, the order does not rest,  *)
(* and the submission cannot arrive afterwards.  (An order that is entered *)
(* twice rests twice, a cancel removes the second copy and the first can no*)
(* longer be found; the cancel of another client can come too early.)      *)
CancelWins ==
  \A i \in Shards, c \in Producers : \A t \in Range(started[i][c]) :
     OwnCancel(c, t) /\ task[i] # t /\ EnteredOnce(t.symbol, t.order) =>
       BookOf(i, t.symbol)[t.order].copies = 0

(* ... and the cancel does run, so the order is gone in the end (for good, *)
(* by CancelWins), unless the pool is destroyed, a freed node is used or   *)
(* the order is entered again.                                             *)
CancelIsFinal ==
  \A symbol \in Symbols, h \in Handles :
    LET i == getShard(symbol)
        Asks(c, t) == OwnCancel(c, t) /\ t.symbol = symbol /\ t.order = h
    IN  (\E c \in Producers : \E t \in Range(sent[i][c]) : Asks(c, t))
          ~> \/ pool # "up" \/ corrupt \/ ~EnteredOnce(symbol, h)
             \/ /\ BookOf(i, symbol)[h].copies = 0
                /\ \E c \in Producers : \E t \in Range(started[i][c]) :
                      Asks(c, t) /\ task[i] # t

(* No worker runs a task, or can take one, when the books are destroyed:   *)
(* shards_ is declared before thread_pool_.                                *)
BooksOutliveTasks == ~alive => \A i \in Shards : worker[i] = "exited"

(* A book is in the map of the shard whose worker alone may touch it, and  *)
(* only because an order was submitted for it: a cancel makes no book.     *)
BooksAreOrdered ==
  \A i \in Shards, symbol \in Symbols :
     HasBook(i, symbol) =>
       /\ i = getShard(symbol)
       /\ \E c \in Producers : \E t \in Range(started[i][c]) :
             t.op = "new" /\ t.symbol = symbol /\ task[i] # t

(* What a call is recognised by: its client, its number in the queue of   *)
(* that client, and the queue is on the shard of its symbol.               *)
CallsRouted ==
  \A i \in Shards, c \in Producers : \A n \in DOMAIN sent[i][c] :
     LET t == sent[i][c][n] IN t.by = c /\ t.nr = n /\ i = getShard(t.symbol)

(* The inductive invariant of the exchange: its own invariants, and books  *)
(* that are destroyed only when the pool is down.                          *)
ExchangeInv == /\ TypeOK /\ CallsRouted /\ BooksAreOrdered /\ OnceIsExact
               /\ CancelWins /\ (~alive => pool = "down")

(* A task as one of the calls of c for symbol: the call, or nothing.       *)
Seen(symbol, c, t) ==
  IF t # NoTask /\ t.symbol = symbol /\ t.by = c
  THEN <<[op |-> t.op, order |-> t.order]>> ELSE <<>>

(* Calls of c for symbol that have not taken effect: the one the worker of *)
(* the shard runs, then those in its queue.                                *)
Queued(symbol, c, q) == FlattenSeq([n \in DOMAIN q |-> Seen(symbol, c, q[n])])
Unapplied(symbol, c) ==
  LET i == getShard(symbol)
  IN  Seen(symbol, c, task[i]) \o Queued(symbol, c, tasks_[i][c])

(* Seen by its clients, the exchange is the one of Venue: shards, queues   *)
(* and workers neither lose, repeat nor overtake a call, and the calls for *)
(* a symbol reach its book and no other, until one uses a freed node.      *)
V == INSTANCE Venue WITH
       Clients <- Producers,
       phase <- CASE pool = "up" -> "open" [] pool = "closing" -> "closing"
                  [] OTHER -> "closed",
       pending <- [symbol \in Symbols |->
                     [c \in Producers |-> Unapplied(symbol, c)]],
       books <- [symbol \in Symbols |-> BookOf(getShard(symbol), symbol)],
       undefined <- corrupt
ImplementsVenue == V!Spec

-----------------------------------------------------------------------------
(* A statement of the repository that the code does not keep               *)

(* The task of worker i writes what a getOrder for symbol reads: the book, *)
(* or the map when the task makes a book for another symbol.               *)
Writes(i, symbol) ==
  /\ worker[i] = "run" /\ i = getShard(symbol)
  /\ \/ task[i].symbol = symbol
     \/ task[i].op = "new" /\ ~HasBook(i, task[i].symbol)

(* test_Exchange.cpp: no data race occurs under concurrent access.         *)
NoDataRace ==
  \A c \in Producers, i \in Shards :
     reading[c] # NoSymbol => ~Writes(i, reading[c])
=============================================================================

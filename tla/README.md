# FastLittleMarket: TLA+ models

FastLittleMarket is a small exchange in C++20: a FIX message parser and builder, a sharded exchange
with one worker thread per shard, and a limit order book per symbol. This directory holds
TLA+ modules translated from `src/core`, TLC configurations that check them on small instances, and
TLAPS proofs about the order book, the thread pool, the exchange, the parser and the builder for every instance.
`PROJECT.json` maps each definition to the lines it models.

Run, in this directory: `tlc -workers 2 -config MCOrderBook.cfg MCOrderBook` (the other runs are in
the table below), and `tlapm OrderBookProofs.tla` (the other proof modules are in section 2).

## 1. Inventory

| component | state | operations | correct when |
|---|---|---|---|
| Order book, `OrderBook.{hpp,cpp}`, `Order.hpp` | two `PriorityQueueAdapter`s, each a multiset of orders and an index from handle (`id_ns_`) to iterator; `volumes_` | constructing an order, `newOrder`, `cancelOrder`, `modifyOrder`, `getOrder`, `getTopOfBook` | never crossed; volume neither lost nor made; every resting order can be found by its handle; the better price trades first |
| Sequencer, `GlobalSequencer.hpp` | an atomic counter | `nextTimestampNs` | no two orders share a timestamp |
| Thread pool, `ThreadPool.{hpp,cpp}` | per shard a `moodycamel::ConcurrentQueue` and a `jthread` | `enqueue`, the worker loop, the destructor | a submitter's tasks run once each and in order; destruction ends, and nothing runs after it |
| Exchange, `Exchange.{hpp,cpp}` | per shard a map from symbol to book; the pool | `newOrder`, `cancelOrder` (enqueue a closure), `getOrder` (on the caller's thread), destruction | each call takes effect once, in its client's order and on its symbol's book; a book is touched by its shard's worker only; books outlive the tasks |
| FIX parser, `Parser.{hpp,cpp}` | the message's bytes, its root map, the stack of open groups | `parse` over an `istream` | a message is read as it was written; the parser stays in step with the stream |
| Fields and groups, `Field*.hpp`, `FieldMap.{hpp,cpp}`, `FieldList.hpp` | fields with a list of groups each | `set`, `addGroup`, accessors | the groups are a tree, the list ends are right |
| Arena, `Alloc.hpp` | one buffer, a stack pointer | `allocate`, `reset`, `deallocate` | a full arena is noticed |
| FIX builder, `Builder.hpp` | a fixed buffer, the position, `body_length_` | `addField`, `addTime`, `append`, `build`, `reset` | never past the buffer; BodyLength is right; a parser gets the fields back |
| Tags and message types, `common/*.hpp` | constant tables | look-up of tags and types | a tag on the wire and in the code are the same |
| Logger, `ExchangeLogger*.hpp` | the quill library's | macros | |
| Benchmarks, scripts, build | | | |

Who calls whom: a client thread calls `Exchange`, which hashes the symbol to a shard and hands
`ThreadPool` a closure; the shard's worker runs it on the `OrderBook` of the symbol. `getOrder` goes
around the pool and reads the book directly. An order draws its timestamp from the one sequencer when
it is constructed, on the client's thread.
Parser and builder are joined by bytes only; no code of the repository yet connects them to the
exchange.

What is hard here, and where a unit test hardly gets:

- **Stale iterators.** The index of the order book holds iterators into a multiset; what pops, pushes
  again or removes must keep it right, and `pop` does so with a key it has cut to an `int`.
- **A long-running call.** Matching pops the best opposite order, changes a copy and pushes it again;
  between the steps volume is in local variables, and `getOrder` can look at any time.
- **Compositions.** `modifyOrder` is a cancel and a new order, and may match, or lose the order.
- **Order across threads.** The queue keeps the order of one producer and no other; timestamps are
  drawn before an order is queued, so they arrive in any sequence, and an `Order` may be entered again; destruction
  happens while workers still take tasks; the order of two member declarations keeps it safe.
- **A stream that arrives in pieces and may end anywhere**, with counts and a body length that may
  lie; an arena and field lists that may be full.
- **A builder whose calls can throw in the middle** and be mixed in any order.

`PROJECT.json` lists these as 39 hazards, each at its line, with the properties aimed at it.

## 2. Modules

| module | models | composes |
|---|---|---|
| `LimitBook` | abstract: a book whose calls are atomic, allocation of volume by a formula | |
| `HandleBook` | abstract: a book as those see it who hold the handles of its orders | |
| `OrderBook` | the order book down to iterators and heap nodes, orders, sequencer | refines `LimitBook` and `HandleBook` |
| `ThreadPool` | the pool, its workers and its destructor | |
| `Venue` | abstract: an exchange without shards, queues and threads | `HandleBook` |
| `Exchange` | the exchange | instantiates `ThreadPool`, refines `Venue`; its books are those of `HandleBook` |
| `FixWire` | the bytes of messages | |
| `GroupTree` | abstract: what parsing makes of any fields, a tree | |
| `FixParser` | `parse`, field maps, groups, accessors, arena | `FixWire`; refines `GroupTree` |
| `FixFeed` | the parser and a peer that may lie about lengths and hang up | `FixParser` |
| `FixBuilder` | builders | `FixWire` |
| `FixStream` | builders whose messages are parsed | `FixBuilder`, `FixParser` |
| `MC*` | small instances | |
| `FoldTheorems` | induction over numbers and finite sets; what `MapThenSumSet` and `FlattenSeq` compute | |
| `OrderBookProofs` | theorems about `OrderBook` | `FoldTheorems` |
| `LimitBookProofs` | `OrderBook` implements `LimitBook` | `OrderBookProofs` |
| `ThreadPoolProofs` | theorems about `ThreadPool` | |
| `ExchangeProofs` | theorems about `Exchange`, which implements `Venue` | `FoldTheorems`; instantiates `ThreadPoolProofs` |
| `ParserProofs` | lemmas about `FixParser`, for any stream | `FoldTheorems` |
| `FeedProofs` | theorems about `FixFeed` | `ParserProofs` |
| `BuilderProofs` | theorems about `FixStream` | `ParserProofs` |

### OrderBook

`price_sorted_[s]` is the set of heap nodes the multiset of side `s` holds, `node` what they contain,
`id_to_iter_[s]` the index. A node that is freed may be given to another order, so an index entry that
was left behind may lead to nothing or to somebody else's order; both happen in the model. A call of
`newOrder` runs through `pc`:

| action | code |
|---|---|
| `BuildOrder` | a caller constructs an `Order`, which draws a timestamp; any call may be running meanwhile |
| `NewOrder` | a call of `newOrder` with one of the orders made, in any sequence, and with the same one up to `MaxSubmits` times |
| `Reject`, `Rest`, `BeginMatch` | the three branches of `newOrder` |
| `TakeBest` | one turn of the loop of `matchOrder` up to the arithmetic of the trade |
| `PutBack` | the rest of the turn: the opposite order is pushed again if volume is left |
| `Filled`, `RestRemainder` | the end of `matchOrder` |
| `CancelOrder` | `cancelOrder` |
| `ModifyOrder` | `modifyOrder` up to the `newOrder` it makes, which then runs as above; `carry` is the flag of its cancel |

`Push`, `Pop` and `RemoveOrder` are the methods of `PriorityQueueAdapter`, with `Truncated` the key `pop`
erases. `Push` refuses what is not valid, as the code does, and `Insert` is what it does otherwise. An id and a timestamp are words of `Word` values (2^32 in the code); `Key` is the pair of them.
An iterator to a node of no queue, or of the other one, is undefined behaviour: `Corrupt` stops
the model, `ub` records it, as it does the removal of somebody else's order. `entered`, `cancelled`,
`traded` and `before` are history.

### LimitBook

The book is a set of orders, of which `top` shows one best on either side, as `getTopOfBook` does; one
step per call. What an order trades is not computed by a loop but
characterised by `Allocation`: as much as is there, a worse price only when a better one is used up, at most one
order cut. Among orders of one price any may come first, so time priority is no part of the promise
(see finding 2). `spent` holds the handles whose use is undefined (finding 1). The refinement
mapping shows the book of `before` while a call runs, and after `ub` an undefined book.

### HandleBook

The other abstraction, for those who hold handles and see neither prices nor volumes: how many copies of
an order rest, and where its index entry leads: nowhere, to one of the copies, or to a node that was freed.
`Entered` is `newOrder`: any order may lose copies, and its entry may then be gone, be left to the freed node or lead to a
copy that was cut; the order that came in rests or not, and if it rests its entry leads to the new copy, whatever
it led to. `Cancelled` removes the copy the entry leads to, and the entry; `Dangling` is where `cancelOrder`
would erase a node that was freed. Unlike `LimitBook` it says what becomes of an order that is entered twice:
it rests twice, a cancel removes the copy that was pushed last, and the other can be found no more.
`ImplementsHandleBook` says that `OrderBook` behaves so.

### ThreadPool and Exchange

The queue is a library and is modelled from its use: a sequence per producer, from any of which
`try_dequeue` may take the head. A worker is at `test` (the stop token), `poll` (`try_dequeue`), `run`
(the task) or `exited`. The destructor is the compiler's: threads from the last to the first, each
asked to stop (`RequestStop`) and joined (`Join`), then the queues with what they hold.

`Exchange` runs the same pool with closures as tasks. `RunNew` and `RunCancel` are the bodies of its
lambdas, and a book is one of `HandleBook`, which `OrderBook` implements (run `book_live`). Clients may enter any order for any symbol and
cancel any handle, as often as they like; `nr` tells the closures of equal calls apart. When a cancel's entry leads to a
freed node, the worker takes `UseFreed` in place of `RunCancel`: the node may belong to a book of another symbol or shard by then,
or the process is lost, so the model stops, and `corrupt` records it. `reading` is a
client between the begin and the end of its `getOrder`.

`Venue` has, per symbol and client, the calls that have not taken effect, and applies the first of any
client's in one step. Its promise ends with the first cancel that uses a freed node (`undefined`). `Exchange` implements it: `pending` is what the worker runs and what its queue holds of a
symbol, `books` the book in the symbol's shard. A shard that mixed up its books, a queue that lost, repeated
or reordered a client's calls, or a worker outliving the pool would not.

### FixParser and FixFeed

The parser is sequential and shares only the stream, so a turn of its loop, which reads one field, is one
step; the stream may grow or end between two. `CheckSumField`, `CutShort`, `PlainField`, `OpenGroup`,
`NextGroup` and `CloseGroup` are the outcomes of a turn, `EndOfInput` the early return when the stream
ends in a field, `Undefined` what the code leaves to an assert or does not check: the 65th field of a
map, the null map a full arena gives, more bytes than `msg_bytes_` holds. Field maps are
numbered by allocation and take `SizeOfFieldMap` bytes of the arena each, groups are the linked lists of
the code, and a field is an offset and a length of 16 bits (`Word16`) into the message's bytes. `ReadTo`
is the read-ahead after BodyLength. `parseInt` reads numbers, negative ones too, as they were written, and makes of any other text the
number `OtherNumbers` gives for it, since the code adds up the distances of the bytes from `'0'` whatever they are.
In `FixFeed` the peer sends messages of a given set, with a
BodyLength that is right, too small (negative even), too large or no number, whole or cut at any byte.

The properties look at a message through its accessors: `getString`, `getInt`, `tags`, `getGroup` by index.
`GroupTree` says what they may show, for any message: a tree, in which a field goes to the node where
parsing stands, and that grows only by a group after the last one of its list. Its nodes are named by
paths, so no pointer is part of the promise.

### FixBuilder and FixStream

`WithField`, `WithMessage`, `Backfilled`, `Built` and `WasReset` are the methods as functions on the
state of one builder. A throw leaves what was written before. `added`, `intact` and `clean` are history: the
fields a message was given, whether nothing was thrown or built since `reset`, and whether it was used as the
comments ask, too. `FixStream` sends what `build`
returns to the parser.

## 3. Runs

| run | instance | states | shows |
|---|---|---|---|
| `book` | 3 orders of any side, price 1-2, volume 0-2, 2 ids, cancels and modifies of every handle between | 139,089 | `TypeOK`, `QueuesValid`, `BookUncrossed`, `Conservation`, `FindInv`, `Findable`, `AtomicInv`, `AggregatesExactUntilTrade`, and that the calls implement `LimitBook` |
| `book_live` | 2 orders built before either is entered, each entered up to twice; one id and timestamps at the upper end of a word, price 0 and a missing client included | 185,902 | `IInv` and `VolumeInv`, the invariants of the proofs, `VolumeInv` with two copies of an order; every call returns; that the calls implement `HandleBook` |
| `pool` | 2 shards, 2 producers, 3 tasks, destructor at any time | 37,652 | `PoolInv`, `InOrderOnce`, `JoinedIsOver`, `EnqueuedStarts`, `DestructorReturns` |
| `exchange` | 2 clients, one of which reads, 2 shards, 2 symbols in one of them, 2 orders, 3 calls, which may be equal | 244,944 | `OnceIsExact`, `CancelWins`, `CancelIsFinal`, `BooksOutliveTasks`, `BooksAreOrdered`, and that the exchange implements `Venue` |
| `fix_feed` | 2 messages out of 38: two group types nested and alone, with right and wrong counts, too many groups, fields and bytes, seven body lengths, any cut of two of them | 49,282 | `GroupsAreATree`, `ParsedIsSent`, `InStep`, `EveryParseReturns`, and that the parser implements `GroupTree` |
| `fix_stream` | 2 builders, 7 calls, 2 messages sent and parsed, buffers of 24 bytes | 1,289,369 | `WithinBuffer`, `LengthIsOfFields`, `BodiesArrive` |
| `book_cancel_unknown` ... `fix_checksum` | the same instances | | one violated statement each, see Findings |

What the properties say:

- `BookUncrossed`: no resting bid reaches a resting ask, also in the middle of a match and after a
  modify. `QueuesValid`: the assertions of `newOrder` and `matchOrder` hold.
- `Conservation`: volume accepted on a side rests, is in flight, was traded or was cancelled, even of
  an order that rests twice, of which only one copy has an index entry.
- `Findable`: `getOrder` returns every resting order as it is now. It is not obvious: `pop` erases a
  truncated key, which has to miss every live order. It does, because the timestamp half of the key
  survives and no two orders share one (`book`, where an order is entered once).
- `AggregatesExactUntilTrade`: `volumes_` is right until the first trade; from then on `matchOrder`
  leaves it stale (nothing reads it).
- `InOrderOnce`, `JoinedIsOver`: what a producer enqueues for a shard is started in order with no gap;
  a joined shard runs nothing.
- `ImplementsHandleBook`: whatever `pop`, `push` and `remove` make of the two queues and the index, also of an order that is entered
  twice, shows at the handles as `HandleBook` says; in particular only a handle whose order was filled while it rested, and was not
  entered since, leads to a freed node.
- `OnceIsExact`: the entry of an order that is entered once leads to it while it rests, whatever came in after it, so
  a cancel of a resting order never uses a freed node, with every interleaving of clients and workers.
- `CancelWins`, `CancelIsFinal`: once the cancel a client sent after its own order ran, the
  order does not rest and does not come back, if nobody enters it again; and the cancel does run, unless the exchange is
  destroyed or a freed node is used. Of an order entered twice that is false, in the code as well: the copy
  that came first rests on.
- `ParsedIsSent`: a proper message that fits is read as it was written, each group where it belongs,
  with nothing of the message that was in the buffers before, also when the length it announces is too small.
  `InStep`: after any message, sensible or not, the parser stands at its end, until a length was too large by
  two or more (one too many is harmless: the read-ahead stops before the last SOH). `GroupsAreATree` and the
  refinement of `GroupTree` hold for any message and any length.
- `LengthIsOfFields`, `BodiesArrive`: the two ways the builder counts agree, also when `append` puts a
  second header into a message, and what a client adds
  comes out of the parser, although the checksum field is broken (finding 6): the BodyLength of the next message repairs it.

### Bounds, and why they are enough

- *Order book.* Three orders give every shape of a match: an incoming order over two resting ones,
  the first used up and the second cut; a remainder that rests; two orders at one price. Two ids
  separate handles from timestamps. `Word = 4` is the least width at which the sign bit `pop` extends
  and the wrap occur inside three timestamps (`Epoch` sets the phase); `MaxOrders <= Word` is an
  assumption, beyond it 2^32 orders would share timestamps. `Addrs` has one node per order entered, each copy counted.
  `MaxMade` is how many orders callers hold that may still be entered: 1 in `book`, where timestamps then come in
  sequence, 2 in `book_live`, where they need not. Volumes are natural numbers: nothing adds them except
  `volumes_`. `SYMMETRY` permutes the nodes, which are only compared.
- *Pool and exchange.* The two symbols share a shard: books are then mixed up if ever, and the other shard has a
  worker that must find nothing to do; in `pool` either shard may be given any task. Two producers and two shards
  suffice for reordering and the order of joins; the third task lets one be queued, one run and one enqueued. `MaxCalls`
  bounds calls, of all clients: three are enough for an order, the one that fills it and the cancel that then uses a freed
  node, or for an order entered twice and its cancel. `Readers` is who reads: readers change
  nothing but `reading`, so one is enough to find out whether it disturbs anybody. Symbols, orders and clients are only
  compared, so the first call may be of any of them: the constraint `FirstCall` fixes it, in place of a `SYMMETRY`,
  which would not be sound for `CancelIsFinal`. The one thing it leaves out is a first call by the client that does not read.
- *FIX.* A tag, number or value is one byte, so BodyLength's six digits and the checksum's three are
  one each and `CHECKSUM_WIDTH` is 4 and not 7. The relations that matter are kept: the length counts from after the SOH of
  BodyLength to the start of the checksum, and the checksum's last digit falls on its SOH. The arena
  has four times `MaxMessage` bytes: `FixMessage(2048)` has 8192, of which 2048 hold the message and the rest
  maps of 1568 bytes, room for the message's own and two more. With `SizeOfFieldMap = 32` there is room
  for five, so that nested groups fit and the largest bodies do not; with
  `MaxMessage = 54` the longest body does not; with `MaxFields = 6` (64 in the code) one body has a field too many.
  `Word16 = 64` is more than a message has bytes, as 2^16 is for the sizes in use. `max_message_size = 24` is a header and three to four
  fields, so that both a field and the checksum meet the limit. Two messages, because what may be left over is of one message.

### Fairness, and why the code justifies it

- `OrderBook!FairSpec`: weak fairness of `Step`. A worker that runs a call has nothing to wait
  for: there are no locks. Nobody is obliged to call.
- `ThreadPool!FairPoolSpec`: weak fairness of each worker and of the destructor. They are OS threads in
  busy loops with `yield`; a task, being a call on a book, returns (`EveryCallReturns`). `EnqueuedStarts`
  needs no stronger fairness although a worker may prefer one producer, because the tasks are finite
  in number; for an endless stream of one producer it rests on the library's rotation over producers,
  which is not modelled.
- `Exchange!FairSpec`: the workers only. Clients and destruction may or may not happen.
- `FixFeed!FairSpec`: weak fairness of `ParserStep`, which is enabled only when the stream has a
  whole field or has ended: `istream` blocks otherwise.

`CHECK_DEADLOCK FALSE` is set where the system may stop: a bound reached, a destroyed pool, a process
lost to undefined behaviour, a stream that has ended.

### Findings

1. *Code.* `pop` (`OrderBook.hpp:95`) keeps the handle in an `int`, so the index keeps an entry to the freed
   node of every order filled while it rested; cancelling it is not `REJECTED` but undefined
   (`book_cancel_unknown`).
2. *Comment.* At one price the newer order trades first; the comment says FIFO (`book_time_priority`).
3. *Test.* `modifyOrder` matches when the new price crosses; the test's comment says it does not, and
   passes because its handle is outdated (`book_modify_matches`).
4. *Comment.* `REJECTED` is not exclusive: a modify to an invalid order returns it with `CANCELLED`, and the
   order is gone (`book_rejected_exclusive`).
5. *Code.* `getOrder` reads a book with no synchronisation while its worker writes
   (`exchange_race`). The test whose comment excludes data races makes no `getOrder` while its threads run, and a TODO in
   `Exchange.hpp` wants such reads made safe.
6. *Code.* `writeChecksum` writes the three digits one place too far to the right, over the SOH
   (`fix_checksum`).

## 4. Proofs

Each theorem holds for every value of the constants that satisfies the named assumptions of its module.

| theorem | states | module |
|---|---|---|
| `Invariance` | `Spec => []IInv` | `OrderBookProofs` |
| `TypeCorrect`, `AssertionsHold`, `NeverCrossed` | `TypeOK`, `QueuesValid`, `BookUncrossed` | |
| `VolumeInvariance` | `Spec => []VolumeInv` | |
| `VolumeConserved`, `AggregatesExact` | `Conservation`, `AggregatesExactUntilTrade` | |
| `IndexInvariance` | `MaxSubmits = 1 => (Spec => []FindInv)` | |
| `OrdersFindable` | `MaxSubmits = 1 => (Spec => []Findable)` | |
| `AtomicInvariance` | `MaxSubmits = 1 => (Spec => []AtomicInv)` | `LimitBookProofs` |
| `BookImplementsLimitBook` | `MaxSubmits = 1 => (Spec => ImplementsLimitBook)` | |
| `PoolInvariance` | `PoolSpec => []PoolInv` | `ThreadPoolProofs` |
| `PoolTypeCorrect`, `StartedInOrder`, `NoTaskOutlivesPool` | `PoolTypeOK`, `InOrderOnce`, `JoinedIsOver` | |
| `RunsThePool` | `Spec => PoolSpec` | `ExchangeProofs` |
| `ExchangeInvariance` | `Spec => []ExchangeInv` | |
| `ExchangeTypeCorrect`, `OnceStaysExact`, `OwnCancelWins` | `TypeOK`, `OnceIsExact`, `CancelWins` | |
| `BooksStayOnShard`, `BooksGoLast` | `BooksAreOrdered`, `BooksOutliveTasks` | |
| `IsAVenue` | `Spec => ImplementsVenue` | |
| `FeedInvariance` | `Spec => []StreamInv` | `FeedProofs` |
| `ParserTypeCorrect`, `GroupsStayATree` | `ParserTypeOK`, `GroupsAreATree` | |
| `ParserStaysInStep` | `Spec => []InStep` | |
| `FeedImplementsGroupTree` | `Spec => ImplementsGroupTree` | |
| `BuilderInvariance` | `Spec => []BuilderInv` | `BuilderProofs` |
| `NoBufferOverrun`, `LengthIsRight` | `WithinBuffer`, `LengthIsOfFields` | |
| `ReceiverInvariance`, `ReceiverTypeCorrect` | `[]StreamInv`, `[](ParserTypeOK /\ GroupsAreATree)` | |
| `BodiesAlwaysArrive` | `NoGroups => (Spec => []BodiesArrive)` | |

Every invariant theorem has the same shape: `Init` gives the invariant, one lemma per action keeps it, and the
last lemma puts them together over `Next`.

### Order book

*`IInv`.* None of `TypeOK`, `QueuesValid`, `BookUncrossed` is inductive: a state in the middle of a match, taken alone, could hold a popped
order that crosses its own queue or an invalid incoming one. `IInv` adds `CallInv`: while a call
matches, its order came in valid and, between `TakeBest` and `PutBack`, the popped order does not cross the
queue the incoming order would rest in. Why it holds: the popped order rested, so it did not cross.
`NothingCrosses` is the lemma the argument turns on: `canCross` looks at the top of a queue only, and when
the top does not cross, nothing behind it does, which needs that the comparator and `priceCrosses` agree
on either side. `PushKeeps` and `TakeOutKeeps` say what insertion and removal do to the book, whatever the
index says, so an outdated iterator into the same queue does no harm to these invariants.

*`FindInv`.* That `getOrder` finds an order needs its entry to survive every `pop` of another one, whose truncated key
keeps the timestamp only. So `StampsUnique` says that no two orders, resting, in a caller's hands or in a
running call, share a timestamp, and `IndexExact` that the entry of an order that rests leads to its node, that
the index of the other side has none under its key (`find` looks at the bids first), and that every entry,
left behind ones too, has a timestamp already drawn, so that an order yet to be made
cannot meet one. Timestamps are distinct because `MaxOrders <= Word`. The theorem asks for `MaxSubmits = 1`, an
order entered once: an order entered twice has the key of its own copy, and then `Findable` is false of one of
the two, in the code as well.

*`VolumeInv`.* Volume is conserved without any such hypothesis: by what the queues hold and not by what the index leads to. To the invariants
the runs check it adds that queues are finite (a sum over an infinite set means nothing) and `MatchTrades`: a match that has begun
trades something before it ends, which is why an aggregate can be wrong only after a trade. The sums are `MapThenSumSet`
of the community modules; `FoldTheorems` proves, by its definition, that the sum over a set is that over
the set without one element and that element, whichever (`SigmaAdds`).

*`AtomicInv`* is what the refinement of `LimitBook` needs. The mapping shows the book of `before` while a call runs, so
all steps of a call but its return are stutters, and the return has to be explained by `before` alone. `SeenInv` says where the
running call stands: it was to enter an order `o` into orders that rested when it began (all of them, or all but the bid
a modify has taken out), and what rests now, with the popped order, is what `left` leaves of the orders `o` crosses (`Remaining`). `Fills`
is the loop invariant of `matchOrder`: the volume gone from the crossing orders is the volume gone from `o`, nothing of a
worse price is touched while a better one has volume left, and an order is cut only when `o` is used up. `TopIsMaker` is the step of the argument: the top
of the opposite queue, if it crosses, is one of the orders of `before`, whole, and all better ones are used up. When the loop
ends `Fills` is an `Allocation` (`FillsAllocates`), because either `o` is used up or nothing that crosses is left (`NoMakerLeft`, from `NothingCrosses`).
`StaleInv` accounts for `spent`: the entries that `pop` leaves behind have timestamps no live order and no order yet to be entered has,
so `Spent` is exactly their keys (`SpentIs`), a trade adds at most the key of the order it took, and putting a cut order back removes it again. `TopsShown` is
the rest: what `getTopOfBook` shows is a best order of each side (`FirstExists`: a finite queue has a first node).
The theorem asks for `MaxSubmits = 1`, as `FindInv` does: an order entered twice is two orders with one handle, of which `LimitBook` makes no promise.

### Pool, exchange and venue

*`PoolInv`* adds to the types and `InOrderOnce` where threads and destructor can be together (`Shutdown`: a worker holds a task
just while it runs one, leaves only when asked to, and is asked only when all threads after it are joined) and what the
histories say (`Histories`: a task is enqueued once, started tasks are a prefix of those sent). Without `Shutdown` a joined shard
could hold a task; without `Histories` a task that runs need not have been sent, which the exchange needs.

*`ExchangeInv`.* A behaviour of the exchange is one of the pool with closures as tasks (`RunsThePool`), so `PoolInv` holds
in it. The pool asks that a task is enqueued once; here that is no assumption but follows, although calls may be equal, because a
closure carries its client and its number in that client's queue (`CallsRouted`, `SubmitIsTask`). `OnceIsExact` is kept because a book changes only when a closure for its
symbol ends: that of another order takes copies of an order away, and then its entry does not outlive the last of them unless it dangles (`FillsAre`); that of its own is the one call that
enters it. With `InOrderOnce` it gives `CancelWins`: the submission is before the cancel in one queue, so it has run, the entry leads to the one copy there is,
and no other call can enter the order. Both are claimed of orders entered once (`EnteredOnce`), and need it. `BooksGoLast` follows from `Shutdown`,
since books are destroyed when the pool is down.

*`IsAVenue`.* The refinement mapping shows as pending calls what the worker runs and what its queue holds of a client and symbol.
Enqueueing appends a call (`QueuedAppend`), `TakeTask` moves one from the queue to the worker and leaves the pending ones as they were, of its own and of
all other symbols in the shard (`QueuedTail`), and `FinishTask` with the closure's body is the venue's step. That needs that `Queued`,
a `FlattenSeq`, is a homomorphism, which `FoldTheorems` proves (`ImageAppend`, `ImageTail`). A closure that uses a freed node is the venue's `UseFreed`, after which neither takes a step:
the theorem says nothing of what the process does then.

### Parser and builder

*`ParserInv`*, for any stream: positions are in order and within the stream (`Positions`), the maps fit the arena and
their fields their slots, and each map but the first belongs to one field of one map. That `Owners` has one element is not inductive: it is
computed by walking lists, and what a step changes of a walk depends on all lists being apart. So `Groups` says that there are two functions,
the map and the field each map belongs to, such that a field's first map and the successor of a map belong to the same field, that links
lead to younger maps only, and that the last map of a list is the field's tail. `DownFrom` says that the stack and the current map go
down from the root along the same functions. `AddGroupIs` and `PutIs` are what the two operations on this structure keep, also a count that comes
twice and a full arena. `ListIs` leads back from the functions to `group` and `groupCount`: links that lead to younger maps end, so
the recursive functions count (by induction from the youngest map).

*`TreeInv`*, with `StreamInv`, is what the refinement of `GroupTree` needs. The mapping shows what a reader finds: `TreeRead` has a node for every map
that `getGroup` leads to from the root, with the path of tags and indices taken, and `PlaceRead` is the path to the current map. `Nodes` is a
recursive function over maps and lists, which says nothing of a step by itself. So `TreeInv` says that beside the functions of `Groups`
there are two more, the index of a map in its list (`Indexed`) and the path to it (`Paths`: the root's is empty, any other is the owner's and one step, no
two are alike, and every beginning of one is one), and that no tag comes twice in a map (`Distinct`); `Shape` is all of it. `IndexIs` and `GetGroupIs` lead from these functions
to what `group` and `getGroup` return, `PathGoesOn` and `PathFromOwner` from paths to what is found one step down. So `Descent`, which gives each map
the maps below it with what their paths add to its own, satisfies the recursion of `Nodes` (`DescentIsNodes`), and nothing else does (`NodesUnique`, by
induction from the youngest map). `PictureHolds` is the result: `TreeRead` is the `Picture` of the maps, one node each. With it a put is the exchange of one node
(`PictureAfterPut`), a group added is one node more, with a new path (`PictureAfterGrowth`, `NewPathIsNew`), and what `groupCount` returns is the number of nodes `GroupTree` counts (`CountIsUnder`, `GroupsAreUnder`),
also when the count field is the one being stored. There remain one lemma for each way a turn can go (`StayStep`, `DownStep`, `AcrossStep`, `UpStep`), where `EndsInNode`
finds the parent node and the counting field from the top of the stack, and `QuietStep`: bytes that arrive change nothing,
because no field reaches beyond the stream there is (`InStream`).

*`BuilderInv`*: a builder's buffer holds no more than `max_message_size` bytes, and while it is intact `body_length_` is that of what follows the header, which is the
fields added. Every throw is in it: `addField` fails with the tag, the value or the SOH written. `AllBytesAppend` and `AllBytesConcat` carry the
bytes of several fields.

*`StepInv`*, for `InStep`: no position by itself says where in a message the parser is. So the invariant relates the parser to what was written. `Wire`: message
`k` is on the stream from where the one before it ended, its fields' bytes one after the other, as far as the stream goes.
`Step`: unless a length was too large or the stream ended (`Lost`), the parser is in message number `parses`, at the end of its
first `j` fields (`Within`), and has read no further than its end; or it has read all of it (`Done`). That a turn of the loop keeps `Within` rests on two
lemmas about bytes. `NextIs`: where a field stands whose tag and value hold no delimiter, that field is what the two scans of the loop find,
and before all of it is there they find nothing. `ReadToSeen`: the read-ahead that BodyLength asks for ends within the message when the length is
at most one too many, since the last SOH is left to the scan. `TurnIs` puts them together: field `j + 1` of a message that can be
read (`Readable`), or its checksum and the end, or the end of the stream. Its hypothesis says nothing of groups, of an arena that is full or of
what the fields mean, so whatever is in a message, the position is right.

*`BodiesInv`*, for `BodiesArrive`, is about messages that builders wrote, whose checksum is not ended: the parser
takes the next message's version field for the rest of it. `Text(k)` is what parse number `k` reads: the fields of message `k`, without the version for all but the first, and one last
field, the checksum with the next version in it (`LEFTOVER`). `BuiltIs` derives from `BuilderInv` what a builder's message consists of, `Line` places the messages on
the stream, and `TextIs` shows that such a text can be read, so that `TurnIs` applies again. On the way `Kept` says that the map holds the fields read so far, each
with the offset and the length of its value, which needs that no tag comes twice and that they are at most `MaxFields`; `WrittenIs` leads from there to
what the accessors return: `find` meets the field itself, `ValueOf` its bytes (`ValueIs`), and `FlattenSeq` of single fields is
their sequence. The theorem asks for `NoGroups`: no field that clients add counts the groups of a message type, so the message's own map is the only one.
`MCFixStream` has such fields, and a group needs `ParsedIsSent`, which TLC checks. Proving it showed that the property, as it stood, was false
of larger instances: a message whose length has more digits than the header has room for, or more bytes or fields than the parser has room for, does not arrive
(`FitsParser`), nor one whose successor is not proper, whose version field then is not the rest of its checksum (`AllProper`).

### Assumptions

`WordAssumption`, `InputAssumption`, `AddrAssumption`: the types of the code's fields, finitely many heap nodes, and a null pointer that is none of them. `BoundAssumption`
(`OrderBook`): no more orders than timestamps; (`FixParser`) a number of messages. `ShardAssumption`, `TaskAssumption`, `PoolAssumption`,
`SymbolAssumption`: at least one shard, no task that is none, symbols are numbers. `RoomAssumption`: the constructor of `FixMessage` has room for
the message and its root map, and 16 bits address it. `SizeAssumption`: a builder has room for what `reset` writes and a checksum.
`FieldAssumption`, `BodyAssumption`: fields are a tag and bytes. `NumberAssumption`, `OtherAssumption`: numbers up to `MaxNumber`, the largest that fits the
digits of a length, are written differently, and other texts stand for some numbers, whichever. `TagAssumption`: what `FieldTag` names has tags, which do not include the one for unknown ones, and a tag is not `=`.
`FramingAssumption` (`FixFeed`) and `ClientAssumption` (`FixStream`): no value that is sent holds a SOH and no tag an `=`, without which FIX has no fields, and
BodyLength and CheckSum stand around a body only; a client adds what `FieldTag` names. TLC evaluates each of them in a run.

### Only model-checked

- Liveness (`EveryCallReturns`, `EnqueuedStarts`, `DestructorReturns`, `CancelIsFinal`, `EveryParseReturns`): out of the prover's reach.
- `ImplementsHandleBook`: that a book is what `Exchange` takes it to be. It would need of orders entered twice what `FindInv` says of
  those entered once. So the theorems of `ExchangeProofs` hold for every exchange whose books are those of `HandleBook`.
- `ParsedIsSent`, the groups of a message that is in step (`ParserStaysInStep`): which map a field
  goes to depends on the definitions of its message type, to which `proper` in the runs' constants is fitted, and on counts that
  an invariant would have to follow.

## 5. Not modelled

- The logger (macros over the quill library; no component reads what it writes), benchmarks, scripts and build.
- The tables of `FieldTag.hpp` and `MsgType.hpp`: constants guarded by `static_assert`. The look-up of a tag is
  in `FixParser` (`stoft`); no code in `core` looks up a message type.
- `Allocator` and `Buffer::deallocate` (only tests use them).
- Messages of more than 65,535 bytes, whose 16-bit offsets would be cut (`RoomAssumption`), and an accessor that is
  kept while its message is parsed into again (its comment forbids it).
- The width of `volumes_`, which is never read, and of `trade_volume`: the subtraction from a 32-bit word
  gives the same word whatever its sign.
- `type_` and `tim_` of an order: nothing sets or uses them.
- A number of more digits than an `int` holds: `parseInt` overflows.
- Failing allocations, of the heap and in the queue, whose result `enqueue` ignores; the flags the exchange's
  closures drop, which nothing observes.
- The value of the checksum, the format of times. That `build` reserves the checksum twice is in the model
  (`CanBuild`); nothing promises that it succeeds.
- `getChar` and `getLong`: they read the same bytes as `getInt`.

## 6. Plan

The order in which the parts were taken up: the order book with its abstract specification and first
proofs, since that is what the program is for; the pool and the exchange over it; the parser; the builder; the
two joined; then the proofs. What comes next:

1. `ImplementsHandleBook` as a theorem, from an invariant of the index for orders entered any number of times.
2. `ParsedIsSent`, from `ParserStaysInStep`, `FeedImplementsGroupTree` and a definition of `proper` in the module, by the group definitions of a type.
3. `Alloc` as a module of its own, with the alignment and the `deallocate` its tests use, should the
   code start to use it.

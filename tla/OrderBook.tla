----------------------------- MODULE OrderBook -----------------------------
(***************************************************************************)
(* The limit order book of one symbol (core/OrderBook.cpp, OrderBook.hpp), *)
(* with the orders it stores (core/Order.hpp) and the sequencer that stamps*)
(* them (core/GlobalSequencer.hpp).                                        *)
(*                                                                         *)
(* newOrder and modifyOrder are split at the points between which a reader *)
(* on another thread can look (Exchange::getOrder takes no lock): the pop  *)
(* of the best opposite order, its re-insertion, the insertion of what is  *)
(* left of the incoming one.  pc says where the running call stands.       *)
(*                                                                         *)
(* price_sorted_ is a multiset of heap nodes and id_to_iter_ an index of   *)
(* iterators into it.  Nodes are therefore addresses here, because the     *)
(* index can keep the address of a node that was freed and used again.     *)
(***************************************************************************)
EXTENDS Integers, FiniteSets, FiniteSetsExt

CONSTANTS
  Word,        \* stands for 2^32: ids and timestamps are 32-bit words
  Epoch,       \* epoch_ns_ of the sequencer
  MaxOrders,   \* bound: how many timestamps are drawn
  MaxMade,     \* bound: how many orders callers hold at once
  MaxSubmits,  \* bound: how often one order is entered
  OrderIds,    \* the 32-bit patterns of the ids clients choose
  Prices,      \* price_q4_ values offered, 0 included: it is an input
  Volumes,     \* volume_ values offered, 0 included
  Clients,     \* client names given; the empty one may be among them
  NoClient,    \* the empty client name
  Addrs,       \* heap nodes of the two multisets
  NoAddr,      \* id_to_iter_ has no entry
  Freed,       \* content of a node that no queue holds
  NoOrder,     \* no order in flight
  NoSnapshot   \* no call is running

ASSUME WordAssumption == Word \in Nat \ {0} /\ Epoch \in Nat
ASSUME InputAssumption == /\ OrderIds \subseteq 0 .. Word - 1
                          /\ Prices \subseteq Nat
                          /\ Volumes \subseteq Nat
(* More timestamps than Word would make two orders share one.              *)
ASSUME BoundAssumption == /\ MaxOrders \in Nat /\ MaxOrders <= Word
                          /\ MaxMade \in Nat /\ MaxSubmits \in Nat \ {0}
(* Memory is finite.                                                       *)
ASSUME AddrAssumption == IsFiniteSet(Addrs) /\ NoAddr \notin Addrs

VARIABLES
  seq_counter_,   \* GlobalSequencer: timestamps drawn so far
  made,           \* orders callers hold, each with how often it was entered
  node,           \* heap: the order each node holds
  price_sorted_,  \* per side: the nodes the multiset holds
  id_to_iter_,    \* per side: key -> node
  volumes_,       \* (price, side) -> aggregate kept by newOrder/cancelOrder
  pc,             \* where the running call stands
  incoming,       \* the order being entered
  popped,         \* best_opposite between its pop and its re-insertion
  carry,          \* flags modifyOrder got from its cancelOrder
  ret,            \* flags the last call returned
  ub,             \* history: an iterator to a freed node was used
  entered,        \* history, per side: volume accepted
  cancelled,      \* history, per side: volume cancelled
  traded,         \* history: volume traded
  before          \* history: the book when the running call began

callerVars == <<seq_counter_, made>>
bookVars == <<node, price_sorted_, id_to_iter_>>
flowVars == <<entered, cancelled, traded>>
vars == <<callerVars, bookVars, volumes_, pc, incoming, popped, carry, ret,
          ub, flowVars, before>>

-----------------------------------------------------------------------------
(* Order.hpp                                                               *)

BUY_SIDE == 1
SELL_SIDE == 0
Sides == {BUY_SIDE, SELL_SIDE}
Opposite(s) == IF s = BUY_SIDE THEN SELL_SIDE ELSE BUY_SIDE

Words == 0 .. Word - 1
Keys == Words \X Words                  \* id_ns_: <<id, low 32 bits of ts>>

Orders == [id: Words, ts: Words, price: Prices, volume: Nat, side: Sides,
           client: Clients]

Key(o) == <<o.id, o.ts>>

(* Order's constructor: the 64-bit timestamp is cut to its low word.       *)
MakeOrder(id, p, v, s, c) ==
  [id |-> id, ts |-> (Epoch + seq_counter_) % Word, price |-> p, volume |-> v,
   side |-> s, client |-> c]

isValid(o) == o.volume # 0 /\ o.price # 0 /\ o.client # NoClient

-----------------------------------------------------------------------------
(* PriorityQueueAdapter                                                    *)

(* Mutant of BetterPrice: the comparator of one side used for both.        *)
SameComparator(s, p, q) == p > q

BetterPrice(s, p, q) == IF s = BUY_SIDE THEN p > q ELSE p < q

(* BuyOrderComparator and SellOrderComparator.                             *)
Precedes(s, a, b) ==
  IF a.price = b.price THEN a.ts > b.ts ELSE BetterPrice(s, a.price, b.price)

Empty(s) == price_sorted_[s] = {}

IsTop(s, n) == /\ n \in price_sorted_[s]
               /\ \A m \in price_sorted_[s] : ~Precedes(s, node[m], node[n])

Live == price_sorted_[BUY_SIDE] \cup price_sorted_[SELL_SIDE]

(* Mutant of Insert: emplace, which leaves an entry that is there.         *)
InsertEmplace(s, o) ==
  \E a \in Addrs \ Live :
    /\ node' = [node EXCEPT ![a] = o]
    /\ price_sorted_' = [price_sorted_ EXCEPT ![s] = @ \cup {a}]
    /\ id_to_iter_' = [id_to_iter_ EXCEPT ![s][Key(o)] =
                         IF @ = NoAddr THEN a ELSE @]

(* Mutant of Insert: an order whose key is there replaces the one it finds.*)
InsertAssigns(s, o) ==
  \E a \in Addrs :
    /\ IF id_to_iter_[s][Key(o)] \in price_sorted_[s]
         THEN a = id_to_iter_[s][Key(o)] ELSE a \notin Live
    /\ node' = [node EXCEPT ![a] = o]
    /\ price_sorted_' = [price_sorted_ EXCEPT ![s] = @ \cup {a}]
    /\ id_to_iter_' = [id_to_iter_ EXCEPT ![s][Key(o)] = a]

(* The insertion of push: the allocator returns any node that no queue     *)
(* holds.                                                                  *)
Insert(s, o) ==
  \E a \in Addrs \ Live :
    /\ node' = [node EXCEPT ![a] = o]
    /\ price_sorted_' = [price_sorted_ EXCEPT ![s] = @ \cup {a}]
    /\ id_to_iter_' = [id_to_iter_ EXCEPT ![s][Key(o)] = a]

(* push refuses an order that is not valid.                                *)
Push(s, o) == \/ isValid(o) /\ Insert(s, o)
              \/ ~isValid(o) /\ UNCHANGED bookVars

(* pop keeps the key in an int: the id is lost, and the sign bit of the    *)
(* timestamp fills the upper word when the int is widened again.           *)
Truncated(k) == <<IF 2 * k[2] < Word THEN 0 ELSE Word - 1, k[2]>>

Pop(s, n) ==
  /\ price_sorted_' = [price_sorted_ EXCEPT ![s] = @ \ {n}]
  /\ id_to_iter_' = [id_to_iter_ EXCEPT ![s][Truncated(Key(node[n]))] = NoAddr]
  /\ node' = [node EXCEPT ![n] = Freed]

(* Mutant of RemoveOrder: the entry stays.                                 *)
RemoveKeepsEntry(s, k) ==
  LET n == id_to_iter_[s][k] IN
  /\ price_sorted_' = [price_sorted_ EXCEPT ![s] = @ \ {n}]
  /\ node' = [node EXCEPT ![n] = Freed]
  /\ UNCHANGED id_to_iter_

(* remove, when the iterator the index gives is a node of this queue.      *)
RemoveOrder(s, k) ==
  LET n == id_to_iter_[s][k] IN
  /\ price_sorted_' = [price_sorted_ EXCEPT ![s] = @ \ {n}]
  /\ id_to_iter_' = [id_to_iter_ EXCEPT ![s][k] = NoAddr]
  /\ node' = [node EXCEPT ![n] = Freed]

Indexed(s, k) == id_to_iter_[s][k] # NoAddr

(* The entry of k leads to a node that does not hold the order of k.       *)
Dangling(s, k) == /\ Indexed(s, k)
                  /\ \/ id_to_iter_[s][k] \notin price_sorted_[s]
                     \/ Key(node[id_to_iter_[s][k]]) # k

-----------------------------------------------------------------------------
(* OrderBook: questions                                                    *)

(* Mutant of priceCrosses: orders at the same price do not trade.          *)
CrossesStrictly(o, opp) == IF o.side = BUY_SIDE THEN opp.price < o.price
                                                ELSE opp.price > o.price

priceCrosses(o, opp) == IF o.side = BUY_SIDE THEN opp.price <= o.price
                                             ELSE opp.price >= o.price

canCross(o) == \E n \in price_sorted_[Opposite(o.side)] :
                  IsTop(Opposite(o.side), n) /\ priceCrosses(o, node[n])

(* The other outcome of the same test.                                     *)
cannotCross(o) ==
  \/ Empty(Opposite(o.side))
  \/ \E n \in price_sorted_[Opposite(o.side)] :
        IsTop(Opposite(o.side), n) /\ ~priceCrosses(o, node[n])

(* Where find looks: buy_orders_ first, then sell_orders_.                 *)
SideOf(k) == IF Indexed(BUY_SIDE, k) THEN BUY_SIDE ELSE SELL_SIDE

getOrder(k) == IF Indexed(SideOf(k), k) THEN node[id_to_iter_[SideOf(k)][k]]
                                        ELSE NoOrder

Book == {node[n] : n \in Live}
Spent == {k \in Keys : Dangling(SideOf(k), k)}

(* top: the first of the multiset; of equal orders any one may be first.   *)
Top(s) == {node[n] : n \in {m \in price_sorted_[s] : IsTop(s, m)}}
getTopOfBook == [bid_ |-> Top(BUY_SIDE), ask_ |-> Top(SELL_SIDE)]

(* The book by handles: how often an order rests, and where its entry leads*)
EntryOf(k) == CASE ~Indexed(SideOf(k), k) -> "none"
                [] Dangling(SideOf(k), k) -> "freed"
                [] OTHER -> "live"
ByHandle == [k \in Keys |-> [copies |-> Cardinality({n \in Live : Key(node[n]) = k}),
                            entry |-> EntryOf(k)]]

Snapshot == [book |-> Book, spent |-> Spent, top |-> getTopOfBook,
             handles |-> ByHandle]

-----------------------------------------------------------------------------
(* OrderBook: calls and their steps                                        *)

Init ==
  /\ seq_counter_ = 0 /\ made = {}
  /\ node = [a \in Addrs |-> Freed]
  /\ price_sorted_ = [s \in Sides |-> {}]
  /\ id_to_iter_ = [s \in Sides |-> [k \in Keys |-> NoAddr]]
  /\ volumes_ = [l \in Prices \X Sides |-> 0]
  /\ pc = "idle" /\ incoming = NoOrder /\ popped = NoOrder /\ carry = {}
  /\ ret = {} /\ ub = FALSE
  /\ entered = [s \in Sides |-> 0] /\ cancelled = [s \in Sides |-> 0]
  /\ traded = 0 /\ before = NoSnapshot

(* The sequencer's fetch_add, once per constructed order.                  *)
nextTimestampNs == seq_counter_ < MaxOrders /\ seq_counter_' = seq_counter_ + 1

Return(flags) ==
  /\ pc' = "idle" /\ ret' = flags
  /\ incoming' = NoOrder /\ popped' = NoOrder /\ carry' = {}
  /\ before' = NoSnapshot

Enter(o, flags) == /\ pc' = "enter" /\ incoming' = o /\ carry' = flags
                   /\ before' = Snapshot
                   /\ UNCHANGED <<popped, ret>>

(* A caller constructs an order: its timestamp is drawn here, on the       *)
(* caller's thread, and orders may be entered in another sequence.         *)
BuildOrder(id, p, v, s, c) ==
  /\ pc # "corrupt" /\ Cardinality(made) < MaxMade
  /\ nextTimestampNs
  /\ made' = made \cup {<<MakeOrder(id, p, v, s, c), 0>>}
  /\ UNCHANGED <<bookVars, volumes_, pc, incoming, popped, carry, ret, ub,
                 flowVars, before>>

(* newOrder, with an order a caller holds; it may be entered again.        *)
NewOrder(o, n) ==
  /\ pc = "idle" /\ <<o, n>> \in made
  /\ made' = (made \ {<<o, n>>})
                \cup (IF n + 1 < MaxSubmits THEN {<<o, n + 1>>} ELSE {})
  /\ Enter(o, {})
  /\ UNCHANGED <<seq_counter_, bookVars, volumes_, ub, flowVars>>

Reject ==
  /\ pc = "enter" /\ ~isValid(incoming)
  /\ Return(carry \cup {"REJECTED"})
  /\ UNCHANGED <<callerVars, bookVars, volumes_, ub, flowVars>>

(* Mutant of Rest: newOrder does not look whether the order crosses.       *)
RestUnmatched ==
  /\ pc = "enter" /\ isValid(incoming)
  /\ Push(incoming.side, incoming)
  /\ volumes_' = [volumes_ EXCEPT ![<<incoming.price, incoming.side>>] =
                    @ + incoming.volume]
  /\ entered' = [entered EXCEPT ![incoming.side] = @ + incoming.volume]
  /\ Return(carry \cup {"ACCEPTED"})
  /\ UNCHANGED <<callerVars, ub, cancelled, traded>>

Rest ==
  /\ pc = "enter" /\ isValid(incoming) /\ cannotCross(incoming)
  /\ Push(incoming.side, incoming)
  /\ volumes_' = [volumes_ EXCEPT ![<<incoming.price, incoming.side>>] =
                    @ + incoming.volume]
  /\ entered' = [entered EXCEPT ![incoming.side] = @ + incoming.volume]
  /\ Return(carry \cup {"ACCEPTED"})
  /\ UNCHANGED <<callerVars, ub, cancelled, traded>>

BeginMatch ==
  /\ pc = "enter" /\ isValid(incoming) /\ canCross(incoming)
  /\ pc' = "match"
  /\ entered' = [entered EXCEPT ![incoming.side] = @ + incoming.volume]
  /\ UNCHANGED <<callerVars, bookVars, volumes_, incoming, popped, carry, ret,
                 ub, cancelled, traded, before>>

(* Mutants of TradeVolume: the larger volume; one short of the smaller.    *)
LargerVolume(o, opp) == IF o.volume < opp.volume THEN opp.volume ELSE o.volume
OneShort(o, opp) == IF o.volume < opp.volume THEN o.volume ELSE opp.volume - 1

(* The volume of one trade.                                                *)
TradeVolume(o, opp) == IF o.volume < opp.volume THEN o.volume ELSE opp.volume

(* The matching loop, up to the pop and the arithmetic of one trade.       *)
TakeBest ==
  /\ pc = "match" /\ isValid(incoming)
  /\ \E n \in price_sorted_[Opposite(incoming.side)] :
       LET t == TradeVolume(incoming, node[n]) IN
       /\ IsTop(Opposite(incoming.side), n) /\ priceCrosses(incoming, node[n])
       /\ Pop(Opposite(incoming.side), n)
       /\ incoming' = [incoming EXCEPT !.volume = @ - t]
       /\ popped' = [node[n] EXCEPT !.volume = @ - t]
       /\ traded' = traded + t
  /\ pc' = "repush"
  /\ UNCHANGED <<callerVars, volumes_, carry, ret, ub, entered, cancelled,
                 before>>

(* Mutant of PutBack: not at all.                                          *)
NoPutBack ==
  /\ pc = "repush" /\ pc' = "match" /\ popped' = NoOrder
  /\ UNCHANGED <<callerVars, bookVars, volumes_, incoming, carry, ret, ub,
                 flowVars, before>>

(* ... and from there to the next iteration.                               *)
PutBack ==
  /\ pc = "repush"
  /\ IF isValid(popped) THEN Push(Opposite(incoming.side), popped)
                        ELSE UNCHANGED bookVars
  /\ pc' = "match" /\ popped' = NoOrder
  /\ UNCHANGED <<callerVars, volumes_, incoming, carry, ret, ub, flowVars,
                 before>>

Filled ==
  /\ pc = "match" /\ incoming.volume = 0
  /\ Return(carry \cup {"FULLY_FILLED", "ACCEPTED"})
  /\ UNCHANGED <<callerVars, bookVars, volumes_, ub, flowVars>>

(* Mutant of RestRemainder: into the queue the order was matched with.     *)
RestOpposite ==
  /\ pc = "match" /\ incoming.volume # 0 /\ cannotCross(incoming)
  /\ Push(Opposite(incoming.side), incoming)
  /\ Return(carry \cup {"PARTIALLY_FILLED", "ACCEPTED"})
  /\ UNCHANGED <<callerVars, volumes_, ub, flowVars>>

(* matchOrder leaves volumes_ as it is.                                    *)
RestRemainder ==
  /\ pc = "match" /\ incoming.volume # 0 /\ cannotCross(incoming)
  /\ Push(incoming.side, incoming)
  /\ Return(carry \cup {"PARTIALLY_FILLED", "ACCEPTED"})
  /\ UNCHANGED <<callerVars, volumes_, ub, flowVars>>

(* An entry whose node is free, or is a node of the other queue: erasing   *)
(* it corrupts the heap or the tree, and nothing is promised from there on.*)
Corrupt(s, k) ==
  /\ Indexed(s, k) /\ id_to_iter_[s][k] \notin price_sorted_[s]
  /\ pc' = "corrupt" /\ ub' = TRUE
  /\ UNCHANGED <<callerVars, bookVars, volumes_, incoming, popped, carry, ret,
                 flowVars, before>>

(* Mutant of Take: the aggregate is not reduced.                           *)
TakeKeepsAggregate(s, k) ==
  LET o == node[id_to_iter_[s][k]] IN
  /\ Indexed(s, k) /\ id_to_iter_[s][k] \in price_sorted_[s]
  /\ RemoveOrder(s, k)
  /\ cancelled' = [cancelled EXCEPT ![s] = @ + o.volume]
  /\ ub' = (ub \/ Key(o) # k)
  /\ UNCHANGED <<volumes_, entered, traded>>

(* An entry whose node is in the queue: its order goes, even when it is    *)
(* the order of somebody else that was given the freed node.               *)
Take(s, k) ==
  LET o == node[id_to_iter_[s][k]] IN
  /\ Indexed(s, k) /\ id_to_iter_[s][k] \in price_sorted_[s]
  /\ RemoveOrder(s, k)
  /\ volumes_' = [volumes_ EXCEPT ![<<o.price, s>>] = @ - o.volume]
  /\ cancelled' = [cancelled EXCEPT ![s] = @ + o.volume]
  /\ ub' = (ub \/ Key(o) # k)
  /\ UNCHANGED <<entered, traded>>

RejectCall ==
  /\ Return({"REJECTED"})
  /\ UNCHANGED <<callerVars, bookVars, volumes_, ub, flowVars>>

CancelOrder(k) ==
  /\ pc = "idle"
  /\ \/ ~Indexed(SideOf(k), k) /\ RejectCall
     \/ Take(SideOf(k), k) /\ Return({"CANCELLED"}) /\ UNCHANGED callerVars
     \/ Corrupt(SideOf(k), k)

(* Only buy_orders_ is searched.  The id, side and client come from the    *)
(* order found, the timestamp is new.                                      *)
ModifyOrder(k) ==
  /\ pc = "idle"
  /\ \/ ~Indexed(BUY_SIDE, k) /\ RejectCall
     \/ \E p \in Prices, v \in Volumes :
        LET o == node[id_to_iter_[BUY_SIDE][k]] IN
        /\ Take(BUY_SIDE, k)
        /\ nextTimestampNs /\ UNCHANGED made
        /\ Enter(MakeOrder(o.id, p, v, o.side, o.client), {"CANCELLED"})
     \/ Corrupt(BUY_SIDE, k)

Call == \/ \E id \in OrderIds, p \in Prices, v \in Volumes, s \in Sides,
              c \in Clients : BuildOrder(id, p, v, s, c)
        \/ \E m \in made : NewOrder(m[1], m[2])
        \/ \E k \in Keys : CancelOrder(k) \/ ModifyOrder(k)

Step == Reject \/ Rest \/ BeginMatch \/ TakeBest \/ PutBack \/ Filled
          \/ RestRemainder

Next == Call \/ Step

Spec == Init /\ [][Next]_vars

(* The worker that runs a call runs it to its return; nobody has to call.  *)
FairSpec == Spec /\ WF_vars(Step)

-----------------------------------------------------------------------------
(* Properties                                                              *)

ExecFlags == {"ACCEPTED", "PARTIALLY_FILLED", "FULLY_FILLED", "CANCELLED",
              "REJECTED"}

HB == INSTANCE HandleBook WITH Handles <- Keys

Snapshots == [book: SUBSET Orders, spent: SUBSET Keys,
              top: [bid_: SUBSET Orders, ask_: SUBSET Orders],
              handles: [Keys -> HB!Places]]

TypeOK ==
  /\ seq_counter_ \in 0 .. MaxOrders
  /\ made \in SUBSET (Orders \X (0 .. MaxSubmits - 1))
  /\ node \in [Addrs -> Orders \cup {Freed}]
  /\ price_sorted_ \in [Sides -> SUBSET Addrs]
  /\ id_to_iter_ \in [Sides -> [Keys -> Addrs \cup {NoAddr}]]
  /\ volumes_ \in [Prices \X Sides -> Int]
  /\ pc \in {"idle", "enter", "match", "repush", "corrupt"}
  /\ incoming \in Orders \cup {NoOrder}
  /\ popped \in Orders \cup {NoOrder}
  /\ carry \in SUBSET ExecFlags
  /\ ret \in SUBSET ExecFlags
  /\ ub \in BOOLEAN
  /\ entered \in [Sides -> Nat]
  /\ cancelled \in [Sides -> Nat]
  /\ traded \in Nat
  /\ before \in Snapshots \cup {NoSnapshot}

(* The assertions of newOrder and matchOrder, own_queue->isValid() and     *)
(* opposite_queue->isValid(), never fail, and a queue holds orders of its  *)
(* side only: a partially filled order is put back only with volume left,  *)
(* and what is left of an incoming order is valid again.                   *)
QueuesValid ==
  \A s \in Sides : \A n \in price_sorted_[s] :
     node[n] \in Orders /\ isValid(node[n]) /\ node[n].side = s

(* No resting bid ever reaches a resting ask: matchOrder trades as long as *)
(* the tops cross, and rests only what is left after that; modifyOrder and *)
(* a cancel through a stale handle do not get around it, and a reader in   *)
(* the middle of a match does not see a crossed book either.               *)
BookUncrossed ==
  \A b \in price_sorted_[BUY_SIDE], a \in price_sorted_[SELL_SIDE] :
     node[b].price < node[a].price

(* What a running call holds between two steps: its order came in valid,   *)
(* and the order it popped is of the other side and may go back next to    *)
(* the queue the incoming order will rest in.  With it the invariants      *)
(* above are inductive.                                                    *)
CallInv ==
  /\ pc \in {"enter", "match", "repush"} => incoming \in Orders
  /\ pc \in {"match", "repush"} =>
       incoming.price # 0 /\ incoming.client # NoClient
  /\ pc = "repush" =>
       /\ popped \in Orders /\ popped.side = Opposite(incoming.side)
       /\ popped.price # 0 /\ popped.client # NoClient
       /\ \A n \in price_sorted_[incoming.side] :
            ~priceCrosses(popped, node[n])

IInv == TypeOK /\ QueuesValid /\ BookUncrossed /\ CallInv

(* The volume of the nodes ns of a heap.                                   *)
VolumeIn(heap, ns) == MapThenSumSet(LAMBDA n : heap[n].volume, ns)

Volume(s) == VolumeIn(node, price_sorted_[s])

(* What the running call holds in its own variables.                       *)
InFlight(s) ==
  (IF pc \in {"match", "repush"} /\ incoming.side = s THEN incoming.volume ELSE 0)
  + (IF pc = "repush" /\ popped.side = s THEN popped.volume ELSE 0)

(* Volume accepted on a side rests, is being matched, was traded or was    *)
(* cancelled: the copies newOrder and matchOrder make of an order neither  *)
(* lose volume nor count it twice, whatever is cancelled or modified.      *)
Conservation ==
  \A s \in Sides :
     entered[s] = Volume(s) + InFlight(s) + traded + cancelled[s]

(* getOrder finds every order that rests, with the volume it has now: the  *)
(* erasure by a truncated key in pop never hits the entry of a live order, *)
(* re-inserting a partially filled order mends its entry, and no entry of  *)
(* buy_orders_ hides a sell order.                                         *)
Findable == ~ub => \A n \in Live : getOrder(Key(node[n])) = node[n]

(* The orders outside the queues: callers hold them or the running call    *)
(* does.                                                                   *)
InHand == {m[1] : m \in made}
            \cup (IF pc \in {"enter", "match", "repush"} THEN {incoming} ELSE {})
            \cup (IF pc = "repush" THEN {popped} ELSE {})

(* No two orders share a timestamp, wherever they are.                     *)
StampsUnique ==
  /\ \A m, n \in Live : node[m].ts = node[n].ts => m = n
  /\ \A o \in InHand, n \in Live : o.ts # node[n].ts
  /\ \A m, n \in made : m[1].ts = n[1].ts => m = n
  /\ pc \in {"enter", "match", "repush"} =>
       \A m \in made : m[1].ts # incoming.ts
  /\ pc = "repush" => /\ popped.ts # incoming.ts
                      /\ \A m \in made : m[1].ts # popped.ts

Drawn == {(Epoch + q) % Word : q \in 0 .. seq_counter_ - 1}

(* The entry of an order that rests leads to its node, and there is none   *)
(* in the index of the other side; an order not yet in a queue will find   *)
(* none there either, because entries have timestamps that were drawn.     *)
IndexExact ==
  /\ \A s \in Sides : \A n \in price_sorted_[s] :
       /\ id_to_iter_[s][Key(node[n])] = n
       /\ id_to_iter_[Opposite(s)][Key(node[n])] = NoAddr
       /\ node[n].ts \in Drawn
  /\ \A o \in InHand :
       id_to_iter_[Opposite(o.side)][Key(o)] = NoAddr /\ o.ts \in Drawn
  /\ \A s \in Sides, k \in Keys : Indexed(s, k) => k[2] \in Drawn

(* No two orders share a timestamp, and the index leads to every order     *)
(* that rests: with what IInv says, inductive when an order is entered     *)
(* once.                                                                   *)
FindInv == StampsUnique /\ IndexExact

Level(p, s) == {n \in price_sorted_[s] : node[n].price = p}
LevelVolume(p, s) == VolumeIn(node, Level(p, s))

(* volumes_ is the resting volume of each level as long as nothing traded: *)
(* newOrder, cancelOrder and modifyOrder keep it together.  (matchOrder    *)
(* does not touch it, so from the first trade on it says nothing.)         *)
AggregatesExactUntilTrade ==
  traded = 0 =>
    \A p \in Prices, s \in Sides : volumes_[<<p, s>>] = LevelVolume(p, s)

(* Once the loop is entered something trades: nothing leaves it untraded,  *)
(* because the order is still valid and the top still crosses it.          *)
MatchTrades ==
  /\ pc = "repush" => traded > 0
  /\ pc = "match" /\ traded = 0 => isValid(incoming) /\ canCross(incoming)

QueuesFinite == \A s \in Sides : IsFiniteSet(price_sorted_[s])

(* Volume is conserved, aggregates are exact until the first trade, and a  *)
(* match that has begun trades: with what IInv says, inductive.            *)
VolumeInv ==
  QueuesFinite /\ Conservation /\ AggregatesExactUntilTrade /\ MatchTrades

(* Every call returns, whatever it has to match with (or the process is    *)
(* lost to a freed node): the matching loop ends.                          *)
EveryCallReturns == pc # "idle" ~> pc \in {"idle", "corrupt"}

(* The calls, seen from outside, are the atomic ones of LimitBook: flags   *)
(* returned, orders that rest afterwards, allocation by price, and the top *)
(* getTopOfBook shows between two calls.                                   *)
LB == INSTANCE LimitBook WITH
        book <- IF ub THEN {} ELSE IF pc = "idle" THEN Book ELSE before.book,
        spent <- IF ub THEN {} ELSE IF pc = "idle" THEN Spent ELSE before.spent,
        top <- IF ub THEN [bid_ |-> {}, ask_ |-> {}]
               ELSE IF pc = "idle" THEN getTopOfBook ELSE before.top,
        ret <- IF ub THEN {} ELSE ret,
        undefined <- ub
ImplementsLimitBook == LB!Spec

(* The book by handles, between two calls.                                 *)
Handled == IF pc = "idle" THEN ByHandle ELSE before.handles

(* To those who hold handles the book is one of HandleBook, however often  *)
(* an order is entered: an order that comes in makes others lose copies,   *)
(* and their entries, as HandleBook says, a cancel removes the copy its    *)
(* entry leads to, a modify cancels and enters, and only a handle whose    *)
(* entry dangles leads to undefined behaviour.                             *)
EntersHandle(book) == Handled' \in HB!Entered(book, Key(incoming))
ImplementsHandleBook ==
  /\ Handled = HB!EmptyBook
  /\ [][ub \/ LET old == Handled IN
        \/ ub' /\ \E k \in Keys : HB!Dangling(old, k)
        \/ pc # "idle" /\ carry = {} /\ EntersHandle(old)
        \/ pc # "idle" /\ carry # {} /\ \E k \in Keys :
             ~HB!Dangling(old, k) /\ EntersHandle(HB!Cancelled(old, k))
        \/ pc = "idle" /\ \E k \in Keys :
             ~HB!Dangling(old, k) /\ Handled' = HB!Cancelled(old, k)
       ]_<<Handled, ub>>

(* An entry of an order that rests no more.                                *)
Stale(s, k) == Indexed(s, k) /\ \A n \in price_sorted_[s] : Key(node[n]) # k

Clear(o) == \A s \in Sides, k \in Keys : Stale(s, k) => k[2] # o.ts
OwnEntry(o) == \A s \in Sides, k \in Keys :
                  Stale(s, k) /\ k[2] = o.ts => s = o.side /\ k = Key(o)

(* No entry of an order that is gone has the timestamp of one that is not, *)
(* except that of the order the running call holds, which may rest again.  *)
StaleInv ==
  /\ \A o \in Book \cup {m[1] : m \in made} : Clear(o)
  /\ \A m \in made : m[1] \in LB!Offers
  /\ pc \in {"enter", "match", "repush"} => Clear(incoming)
  /\ pc = "repush" => OwnEntry(popped)

(* The running call has o to enter into orders.                            *)
Asked(orders, o) ==
  /\ \A m \in before.book : m.ts # o.ts
  /\ \/ carry = {} /\ orders = before.book /\ o \in LB!Offers
     \/ /\ carry = {"CANCELLED"}
        /\ \E c \in before.book \cap Orders :
             /\ c.side = BUY_SIDE /\ orders = before.book \ {c}
             /\ o = [c EXCEPT !.ts = o.ts, !.price = o.price, !.volume = o.volume]

(* orders rested when the call began, each with a handle of its own.       *)
Rested(orders) ==
  /\ IsFiniteSet(orders) /\ orders \subseteq Orders
  /\ \A m, w \in orders : m.volume > 0 /\ (m.ts = w.ts => m = w)
  /\ \A m \in orders, k \in before.spent : k[2] # m.ts

(* o has traded with makers down to rest, the best first: left is left of  *)
(* them, and one is cut only if nothing is left of o.                      *)
Fills(o, rest, makers, left) ==
  /\ left \in LB!Left(makers) /\ \A m \in makers : left[m] <= m.volume
  /\ o.volume - rest = LB!Sum(makers) - LB!Total(left)
  /\ \A m, w \in makers :
       LB!Better(m.side, m.price, w.price) /\ left[m] > 0 => left[w] = w.volume
  /\ \A m, w \in makers : left[m] \notin {0, m.volume} =>
       rest = 0 /\ (left[w] \notin {0, w.volume} => m = w)

Remaining(orders, makers, left) ==
  (orders \ makers) \cup {[m EXCEPT !.volume = left[m]] : m \in {w \in makers : left[w] > 0}}

(* With the order the call has popped, if anything is left of it.          *)
Held == Book \cup (IF pc = "repush" /\ popped.volume > 0 THEN {popped} ELSE {})

(* The match of o with makers stands where left is left of them.           *)
Matched(orders, o, makers, left) ==
  /\ makers # {} /\ isValid(o) /\ Fills(o, incoming.volume, makers, left)
  /\ Held = Remaining(orders, makers, left)
  /\ pc = "repush" => \E m \in makers : popped = [m EXCEPT !.volume = left[m]]
  /\ before.spent \subseteq Spent
  /\ \A k \in Spent \ before.spent : \E m \in makers :
       k = Key(m) /\ (left[m] = 0 \/ (pc = "repush" /\ k = Key(popped)))

(* The steps of the running call so far are those of entering o into orders*)
Seen(orders, o) ==
  /\ Asked(orders, o) /\ Rested(orders)
  /\ pc = "enter" => incoming = o /\ Book = orders /\ Spent = before.spent
  /\ pc \in {"match", "repush"} =>
       LET makers == LB!Crossing(orders, o)
       IN  \E left \in LB!Left(makers) : Matched(orders, o, makers, left)

SeenInv ==
  pc \in {"enter", "match", "repush"} /\ ~ub =>
    \E orders \in SUBSET before.book, v \in Volumes :
       Seen(orders, [incoming EXCEPT !.volume = v])

(* Between two steps a call stands where the atomic one of LimitBook can be*)
(* cut: with what IInv, FindInv and QueuesFinite say, inductive.           *)
AtomicInv == StaleInv /\ SeenInv

-----------------------------------------------------------------------------
(* Statements of the repository that the code does not keep                *)

(* test_OrderBook.cpp: cancelling an order that does not exist is REJECTED.*)
CancelUnknownRejected ==
  [][\A k \in Keys :
       CancelOrder(k) /\ (\A n \in Live : Key(node[n]) # k)
         => ret' = {"REJECTED"}]_vars

(* OrderBook.hpp: at one price, FIFO by timestamp.                         *)
TimePriority ==
  pc = "repush" =>
    \A n \in price_sorted_[Opposite(incoming.side)] :
       node[n].price = popped.price => popped.ts < node[n].ts

(* test_OrderBook.cpp: the engine does not match on modify.                *)
NoMatchOnModify == pc = "match" => carry = {}

(* OrderBook.hpp, isValid(ExecFlags): REJECTED is exclusive.               *)
RejectedIsExclusive == "REJECTED" \in ret => ret = {"REJECTED"}
=============================================================================

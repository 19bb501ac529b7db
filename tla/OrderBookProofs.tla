-------------------------- MODULE OrderBookProofs --------------------------
(***************************************************************************)
(* Safety of OrderBook for every word size, every set of ids, prices,      *)
(* volumes, clients and heap nodes, and any number of orders up to Word.   *)
(***************************************************************************)
EXTENDS OrderBook, FoldTheorems

USE WordAssumption, InputAssumption, BoundAssumption, AddrAssumption

(* A word never leaves its range: the low half of a 64-bit timestamp.      *)
LEMMA LowWord == ASSUME NEW n \in Nat PROVE n % Word \in Words
BY DEF Words

(* What canCross says of the top holds of the queue: when the top does not *)
(* cross, nothing behind it does.                                          *)
LEMMA NothingCrosses ==
  ASSUME QueuesValid, NEW o \in Orders, cannotCross(o),
         NEW n \in price_sorted_[Opposite(o.side)]
  PROVE  ~priceCrosses(o, node[n])
<1>1. o.side \in Sides /\ o.price \in Nat /\ Opposite(o.side) \in Sides
  BY DEF Orders, Sides, Opposite
<1>2. PICK t \in price_sorted_[Opposite(o.side)] :
         IsTop(Opposite(o.side), t) /\ ~priceCrosses(o, node[t])
  BY DEF cannotCross, Empty
<1>3. node[t].price \in Nat /\ node[n].price \in Nat
  BY <1>1 DEF QueuesValid, Orders
<1>4. ~Precedes(Opposite(o.side), node[n], node[t])
  BY <1>2 DEF IsTop
<1>5. CASE o.side = BUY_SIDE
  BY <1>1, <1>2, <1>3, <1>4, <1>5
     DEF Precedes, BetterPrice, priceCrosses, Opposite, BUY_SIDE, SELL_SIDE
<1>6. CASE o.side = SELL_SIDE
  BY <1>1, <1>2, <1>3, <1>4, <1>6
     DEF Precedes, BetterPrice, priceCrosses, Opposite, BUY_SIDE, SELL_SIDE
<1>7. QED
  BY <1>1, <1>5, <1>6 DEF Sides

-----------------------------------------------------------------------------
(* The two multisets and their index.                                      *)

BookTyped == /\ node \in [Addrs -> Orders \cup {Freed}]
             /\ price_sorted_ \in [Sides -> SUBSET Addrs]
             /\ id_to_iter_ \in [Sides -> [Keys -> Addrs \cup {NoAddr}]]

BookInv == BookTyped /\ QueuesValid /\ BookUncrossed

(* A node is in one queue only: its order has one side.                    *)
LEMMA OneQueue ==
  ASSUME QueuesValid, NEW s \in Sides, NEW r \in Sides,
         NEW n \in price_sorted_[s], n \in price_sorted_[r]
  PROVE  s = r
BY DEF QueuesValid

(* push keeps the book valid and uncrossed when the order does not cross.  *)
LEMMA PushKeeps ==
  ASSUME BookInv, NEW s \in Sides, NEW o \in Orders,
         isValid(o), o.side = s, Push(s, o),
         \A n \in price_sorted_[Opposite(s)] : ~priceCrosses(o, node[n])
  PROVE  BookInv'
<1>1. PICK a \in Addrs \ Live :
        /\ node' = [node EXCEPT ![a] = o]
        /\ price_sorted_' = [price_sorted_ EXCEPT ![s] = @ \cup {a}]
        /\ id_to_iter_' = [id_to_iter_ EXCEPT ![s][Key(o)] = a]
  BY DEF Push, Insert
<1>2. Key(o) \in Keys
  BY DEF Key, Keys, Orders
<1>3. BookTyped'
  BY <1>1, <1>2 DEF BookInv, BookTyped
<1>4. \A r \in Sides : \A n \in price_sorted_[r] : n # a /\ node'[n] = node[n]
  BY <1>1 DEF Live, Sides, BookInv, BookTyped
<1>5. node'[a] = o
  BY <1>1 DEF BookInv, BookTyped
<1>6. \A r \in Sides : \A n \in price_sorted_'[r] :
         (n \in price_sorted_[r] /\ node'[n] = node[n]) \/ (n = a /\ r = s)
  BY <1>1, <1>4 DEF BookInv, BookTyped
<1>7. QueuesValid'
  BY <1>5, <1>6 DEF BookInv, QueuesValid, isValid
<1>8. BookUncrossed'
  <2> SUFFICES ASSUME NEW b \in price_sorted_'[BUY_SIDE],
                      NEW c \in price_sorted_'[SELL_SIDE]
               PROVE  node'[b].price < node'[c].price
    BY DEF BookUncrossed
  <2>1. BUY_SIDE \in Sides /\ SELL_SIDE \in Sides /\ BUY_SIDE # SELL_SIDE
    BY DEF Sides, BUY_SIDE, SELL_SIDE
  <2>2. CASE b \in price_sorted_[BUY_SIDE] /\ node'[b] = node[b]
             /\ c \in price_sorted_[SELL_SIDE] /\ node'[c] = node[c]
    BY <2>2 DEF BookInv, BookUncrossed
  <2>3. CASE b = a /\ s = BUY_SIDE
    <3>1. c \in price_sorted_[SELL_SIDE] /\ node'[c] = node[c]
      BY <1>6, <2>1, <2>3
    <3>2. node[c] \in Orders /\ ~priceCrosses(o, node[c])
      BY <3>1, <2>1, <2>3 DEF BookInv, QueuesValid, Opposite
    <3>3. node[c].price \in Nat /\ o.price \in Nat
      BY <3>2 DEF Orders
    <3>4. QED
      BY <1>5, <2>3, <3>1, <3>2, <3>3 DEF priceCrosses
  <2>4. CASE c = a /\ s = SELL_SIDE
    <3>1. b \in price_sorted_[BUY_SIDE] /\ node'[b] = node[b]
      BY <1>6, <2>1, <2>4
    <3>2. node[b] \in Orders /\ ~priceCrosses(o, node[b])
      BY <3>1, <2>1, <2>4 DEF BookInv, QueuesValid, Opposite
    <3>3. node[b].price \in Nat /\ o.price \in Nat
      BY <3>2 DEF Orders
    <3>4. QED
      BY <1>5, <2>1, <2>4, <3>1, <3>2, <3>3 DEF priceCrosses
  <2>5. QED
    BY <1>6, <2>1, <2>2, <2>3, <2>4
<1>9. QED
  BY <1>3, <1>7, <1>8 DEF BookInv

(* Taking a node out of its queue and freeing it: pop, and remove.         *)
LEMMA TakeOutKeeps ==
  ASSUME BookInv, NEW s \in Sides, NEW n \in price_sorted_[s], NEW k \in Keys,
         price_sorted_' = [price_sorted_ EXCEPT ![s] = @ \ {n}],
         id_to_iter_' = [id_to_iter_ EXCEPT ![s][k] = NoAddr],
         node' = [node EXCEPT ![n] = Freed]
  PROVE  /\ BookInv'
         /\ \A r \in Sides : \A m \in price_sorted_'[r] :
              m \in price_sorted_[r] /\ node'[m] = node[m]
<1>1. BookTyped'
  BY DEF BookInv, BookTyped
<1>2. \A r \in Sides : \A m \in price_sorted_'[r] :
        m \in price_sorted_[r] /\ node'[m] = node[m]
  <2> SUFFICES ASSUME NEW r \in Sides, NEW m \in price_sorted_'[r]
               PROVE  m \in price_sorted_[r] /\ node'[m] = node[m]
    OBVIOUS
  <2>1. m \in price_sorted_[r] /\ (r = s => m # n)
    BY DEF BookInv, BookTyped
  <2>2. m # n
    BY <2>1, OneQueue DEF BookInv
  <2>3. QED
    BY <2>1, <2>2 DEF BookInv, BookTyped
<1>3. QueuesValid'
  BY <1>2 DEF BookInv, QueuesValid, isValid
<1>4. BookUncrossed'
  BY <1>2 DEF BookInv, BookUncrossed, Sides
<1>5. QED
  BY <1>1, <1>2, <1>3, <1>4 DEF BookInv

-----------------------------------------------------------------------------
(* The calls and their steps keep the invariant.                           *)

(* What TypeOK says besides the book.                                      *)
CallTyped ==
  /\ seq_counter_ \in 0 .. MaxOrders
  /\ made \in SUBSET (Orders \X (0 .. MaxSubmits - 1))
  /\ volumes_ \in [Prices \X Sides -> Int]
  /\ pc \in {"idle", "enter", "match", "repush", "corrupt"}
  /\ incoming \in Orders \cup {NoOrder}
  /\ popped \in Orders \cup {NoOrder}
  /\ carry \in SUBSET ExecFlags
  /\ ret \in SUBSET ExecFlags
  /\ ub \in BOOLEAN
  /\ entered \in [Sides -> Nat]
  /\ cancelled \in [Sides -> Nat]
  /\ traded \in Nat
  /\ before \in Snapshots \cup {NoSnapshot}

(* IInv, part by part,                                                     *)
LEMMA Parts == IInv <=> BookInv /\ CallTyped /\ CallInv
BY DEF IInv, TypeOK, BookInv, BookTyped, CallTyped

(* and so after a step.                                                    *)
LEMMA PartsNext == BookInv' /\ CallTyped' /\ CallInv' => IInv'
BY DEF IInv, TypeOK, BookInv, BookTyped, CallTyped

(* IInv holds at the start.                                                *)
LEMMA InitInv == Init => IInv
<1> SUFFICES ASSUME Init PROVE BookInv /\ CallTyped /\ CallInv
  BY Parts
<1>1. BookInv
  BY DEF Init, BookInv, BookTyped, QueuesValid, BookUncrossed, Sides
<1>2. CallTyped
  <2>1. ub \in BOOLEAN
    BY DEF Init
  <2>2. seq_counter_ \in 0 .. MaxOrders /\ volumes_ \in [Prices \X Sides -> Int]
    BY DEF Init
  <2>3. entered \in [Sides -> Nat] /\ cancelled \in [Sides -> Nat] /\ traded \in Nat
    BY DEF Init
  <2>4. carry \in SUBSET ExecFlags /\ ret \in SUBSET ExecFlags
    BY DEF Init
  <2>5. QED
    BY <2>1, <2>2, <2>3, <2>4 DEF Init, CallTyped
<1>3. CallInv
  BY DEF Init, CallInv
<1>4. QED
  BY <1>1, <1>2, <1>3

(* The constructor and the snapshot build values of their types.           *)
LEMMA MakeOrderType ==
  ASSUME seq_counter_ \in 0 .. MaxOrders, NEW id \in Words, NEW p \in Prices,
         NEW v \in Nat, NEW s \in Sides, NEW c \in Clients
  PROVE  MakeOrder(id, p, v, s, c) \in Orders
<1>1. Epoch + seq_counter_ \in Nat
  OBVIOUS
<1>2. (Epoch + seq_counter_) % Word \in Words
  BY <1>1, LowWord
<1>3. QED
  BY <1>2 DEF MakeOrder, Orders

(* An order has a number of copies, and its entry leads somewhere or not.  *)
LEMMA HandlesTyped == ASSUME BookInv PROVE ByHandle \in [Keys -> HB!Places]
<1>1. IsFiniteSet(Live)
  <2>1. Live \subseteq Addrs
    BY DEF BookInv, BookTyped, Live, Sides
  <2>2. QED
    BY <2>1, FS_Subset
<1>2. SUFFICES ASSUME NEW k \in Keys
               PROVE  [copies |-> Cardinality({n \in Live : Key(node[n]) = k}),
                       entry |-> EntryOf(k)] \in HB!Places
  BY DEF ByHandle
<1>3. Cardinality({n \in Live : Key(node[n]) = k}) \in Nat
  <2>1. IsFiniteSet({n \in Live : Key(node[n]) = k})
    BY <1>1, FS_Subset
  <2>2. QED
    BY <2>1, FS_CardinalityType
<1>4. EntryOf(k) \in HB!Entries
  BY DEF EntryOf, HB!Entries
<1>5. ASSUME EntryOf(k) = "live" PROVE Cardinality({n \in Live : Key(node[n]) = k}) > 0
  <2>1. SideOf(k) \in Sides /\ ~Dangling(SideOf(k), k) /\ Indexed(SideOf(k), k)
    BY <1>5 DEF EntryOf, SideOf, Sides
  <2>2. \E n \in Live : Key(node[n]) = k
    BY <2>1 DEF Dangling, Live, Sides
  <2>3. IsFiniteSet({n \in Live : Key(node[n]) = k}) /\ {n \in Live : Key(node[n]) = k} # {}
    BY <1>1, <2>2, FS_Subset
  <2>4. Cardinality({n \in Live : Key(node[n]) = k}) # 0
    BY <2>3, FS_EmptySet
  <2>5. QED
    BY <1>3, <2>4
<1>6. QED
  BY <1>3, <1>4, <1>5 DEF HB!Places

(* before is a snapshot of the book.                                       *)
LEMMA SnapshotType ==
  ASSUME BookInv PROVE Snapshot \in Snapshots
<1>1. \A n \in Live : node[n] \in Orders
  BY DEF BookInv, QueuesValid, Live, Sides
<1>2. Top(BUY_SIDE) \in SUBSET Orders /\ Top(SELL_SIDE) \in SUBSET Orders
  BY <1>1 DEF Top, Live
<1>3. ByHandle \in [Keys -> HB!Places]
  BY HandlesTyped
<1>4. QED
  BY <1>1, <1>2, <1>3 DEF Snapshot, Snapshots, Book, Spent, getTopOfBook

(* A call that returns leaves nothing behind of itself.                    *)
LEMMA ReturnKeeps ==
  ASSUME CallTyped, NEW flags \in SUBSET ExecFlags, Return(flags)
  PROVE  /\ CallInv' /\ pc' = "idle" /\ ret' \in SUBSET ExecFlags
         /\ incoming' = NoOrder /\ popped' = NoOrder /\ carry' = {}
         /\ before' = NoSnapshot
BY DEF Return, CallInv

(* What does not touch the book keeps BookInv.                             *)
LEMMA BookSame == ASSUME BookInv, UNCHANGED bookVars PROVE BookInv'
BY DEF BookInv, BookTyped, QueuesValid, BookUncrossed, bookVars, isValid

(* BuildOrder keeps IInv.                                                  *)
LEMMA BuildOrderInv ==
  ASSUME IInv, NEW id \in OrderIds, NEW p \in Prices, NEW v \in Volumes,
         NEW s \in Sides, NEW c \in Clients, BuildOrder(id, p, v, s, c)
  PROVE  IInv'
<1> DEFINE o == MakeOrder(id, p, v, s, c)
<1>1. BookInv /\ CallTyped /\ CallInv
  BY Parts
<1>2. <<o, 0>> \in Orders \X (0 .. MaxSubmits - 1)
  <2>1. o \in Orders
    BY <1>1, MakeOrderType DEF CallTyped, Words
  <2>2. QED
    BY <2>1
<1> HIDE DEF o
<1>3. /\ nextTimestampNs /\ made' = made \cup {<<o, 0>>}
      /\ UNCHANGED <<bookVars, volumes_, pc, incoming, popped, carry, ret, ub,
                     flowVars, before>>
  BY DEF BuildOrder, o
<1>4. BookInv'
  BY <1>1, <1>3, BookSame
<1>5. CallTyped'
  BY <1>1, <1>2, <1>3 DEF CallTyped, nextTimestampNs, flowVars
<1>6. CallInv'
  BY <1>1, <1>3 DEF CallInv, bookVars, priceCrosses
<1>7. QED
  BY <1>4, <1>5, <1>6, PartsNext

(* NewOrder keeps IInv.                                                    *)
LEMMA NewOrderInv ==
  ASSUME IInv, NEW m \in made, NewOrder(m[1], m[2]) PROVE IInv'
<1>1. BookInv /\ CallTyped /\ CallInv
  BY Parts
<1>2. m[1] \in Orders /\ m[2] \in 0 .. MaxSubmits - 1
  BY <1>1 DEF CallTyped
<1>3. Snapshot \in Snapshots
  BY <1>1, SnapshotType
<1>4. made' \in SUBSET (Orders \X (0 .. MaxSubmits - 1))
  <2>1. m[2] + 1 < MaxSubmits => m[2] + 1 \in 0 .. MaxSubmits - 1
    BY <1>2
  <2>2. QED
    BY <1>1, <1>2, <2>1 DEF NewOrder, CallTyped
<1>5. BookInv'
  BY <1>1, BookSame DEF NewOrder
<1>6. CallTyped'
  BY <1>1, <1>2, <1>3, <1>4 DEF NewOrder, CallTyped, Enter, flowVars
<1>7. CallInv'
  BY <1>2 DEF NewOrder, CallInv, Enter
<1>8. QED
  BY <1>5, <1>6, <1>7, PartsNext

(* Reject keeps IInv.                                                      *)
LEMMA RejectInv == ASSUME IInv, Reject PROVE IInv'
<1>1. BookInv /\ CallTyped /\ CallInv
  BY Parts
<1>2. carry \cup {"REJECTED"} \in SUBSET ExecFlags
  BY <1>1 DEF CallTyped, ExecFlags
<1>3. BookInv'
  BY <1>1, BookSame DEF Reject
<1>4. CallTyped' /\ CallInv'
  BY <1>1, <1>2, ReturnKeeps DEF Reject, CallTyped, callerVars, flowVars
<1>5. QED
  BY <1>3, <1>4, PartsNext

(* Rest keeps IInv.                                                        *)
LEMMA RestInv == ASSUME IInv, Rest PROVE IInv'
<1>1. BookInv /\ CallTyped /\ CallInv
  BY Parts
<1>2. incoming \in Orders /\ incoming.side \in Sides
  BY <1>1 DEF Rest, CallInv, Orders
<1>3. carry \cup {"ACCEPTED"} \in SUBSET ExecFlags
  BY <1>1 DEF CallTyped, ExecFlags
<1>4. \A n \in price_sorted_[Opposite(incoming.side)] :
         ~priceCrosses(incoming, node[n])
  BY <1>1, <1>2, NothingCrosses DEF Rest, BookInv
<1>5. BookInv'
  BY <1>1, <1>2, <1>4, PushKeeps DEF Rest
<1>6. volumes_' \in [Prices \X Sides -> Int] /\ entered' \in [Sides -> Nat]
  BY <1>1, <1>2 DEF Rest, CallTyped, callerVars, Orders
<1>7. CallTyped' /\ CallInv'
  BY <1>1, <1>3, <1>6, ReturnKeeps DEF Rest, CallTyped, callerVars
<1>8. QED
  BY <1>5, <1>7, PartsNext

(* BeginMatch keeps IInv.                                                  *)
LEMMA BeginMatchInv == ASSUME IInv, BeginMatch PROVE IInv'
<1>1. BookInv /\ CallTyped /\ CallInv
  BY Parts
<1>2. incoming \in Orders
  BY <1>1 DEF BeginMatch, CallInv
<1>3. BookInv'
  BY <1>1, BookSame DEF BeginMatch
<1>4. CallTyped'
  BY <1>1, <1>2 DEF BeginMatch, CallTyped, callerVars, Orders
<1>5. CallInv'
  BY <1>1, <1>2 DEF BeginMatch, CallInv, isValid
<1>6. QED
  BY <1>3, <1>4, <1>5, PartsNext

(* One trade: the volumes left are natural numbers, and the popped order   *)
(* did not cross anything on the side the incoming order will rest on.     *)
LEMMA TakeBestInv == ASSUME IInv, TakeBest PROVE IInv'
<1>1. BookInv /\ CallTyped /\ CallInv
  BY Parts
<1>2. incoming \in Orders /\ incoming.side \in Sides /\ isValid(incoming)
  BY <1>1 DEF TakeBest, CallInv, Orders
<1> DEFINE opp == Opposite(incoming.side)
<1>3. opp \in Sides /\ Opposite(opp) = incoming.side
  BY <1>2 DEF Opposite, Sides
<1>4. PICK n \in price_sorted_[opp] :
        /\ Pop(opp, n)
        /\ incoming' = [incoming EXCEPT !.volume =
                          @ - TradeVolume(incoming, node[n])]
        /\ popped' = [node[n] EXCEPT !.volume =
                        @ - TradeVolume(incoming, node[n])]
        /\ traded' = traded + TradeVolume(incoming, node[n])
  BY DEF TakeBest
<1>5. node[n] \in Orders /\ isValid(node[n]) /\ node[n].side = opp
  BY <1>1, <1>3, <1>4 DEF BookInv, QueuesValid
<1>6. /\ TradeVolume(incoming, node[n]) \in Nat
      /\ incoming.volume - TradeVolume(incoming, node[n]) \in Nat
      /\ node[n].volume - TradeVolume(incoming, node[n]) \in Nat
  BY <1>2, <1>5 DEF TradeVolume, Orders
<1>7. Truncated(Key(node[n])) \in Keys
  BY <1>5 DEF Truncated, Key, Keys, Words, Orders
<1>8. /\ BookInv'
      /\ \A r \in Sides : \A m \in price_sorted_'[r] :
           m \in price_sorted_[r] /\ node'[m] = node[m]
  BY <1>1, <1>3, <1>4, <1>7, TakeOutKeeps DEF Pop
<1>9. /\ incoming' \in Orders /\ incoming'.side = incoming.side
      /\ incoming'.price = incoming.price /\ incoming'.client = incoming.client
      /\ popped' \in Orders /\ popped'.side = opp
      /\ popped'.price = node[n].price /\ popped'.client = node[n].client
  BY <1>2, <1>4, <1>5, <1>6 DEF Orders
<1>10. CallTyped'
  BY <1>1, <1>4, <1>6, <1>9 DEF TakeBest, CallTyped, callerVars
<1>11. \A m \in price_sorted_'[incoming.side] : ~priceCrosses(popped', node'[m])
  <2> SUFFICES ASSUME NEW m \in price_sorted_'[incoming.side]
               PROVE  ~priceCrosses(popped', node'[m])
    OBVIOUS
  <2>1. m \in price_sorted_[incoming.side] /\ node'[m] = node[m]
    BY <1>2, <1>8
  <2>2. node[m].price \in Nat /\ node[n].price \in Nat
    BY <1>1, <1>2, <1>5, <2>1 DEF BookInv, QueuesValid, Orders
  <2>3. CASE incoming.side = BUY_SIDE
    BY <1>1, <1>4, <1>9, <2>1, <2>2, <2>3
       DEF BookInv, BookUncrossed, priceCrosses, Opposite, BUY_SIDE, SELL_SIDE
  <2>4. CASE incoming.side = SELL_SIDE
    BY <1>1, <1>4, <1>9, <2>1, <2>2, <2>4
       DEF BookInv, BookUncrossed, priceCrosses, Opposite, BUY_SIDE, SELL_SIDE
  <2>5. QED
    BY <1>2, <2>3, <2>4 DEF Sides
<1>12. CallInv'
  BY <1>2, <1>5, <1>9, <1>11 DEF TakeBest, CallInv, isValid
<1>13. QED
  BY <1>8, <1>10, <1>12, PartsNext

(* PutBack keeps IInv.                                                     *)
LEMMA PutBackInv == ASSUME IInv, PutBack PROVE IInv'
<1>1. BookInv /\ CallTyped /\ CallInv
  BY Parts
<1>2. /\ popped \in Orders /\ popped.side = Opposite(incoming.side)
      /\ incoming \in Orders /\ incoming.side \in Sides
      /\ incoming.price # 0 /\ incoming.client # NoClient
      /\ \A n \in price_sorted_[incoming.side] : ~priceCrosses(popped, node[n])
  BY <1>1 DEF PutBack, CallInv, Orders
<1>3. popped.side \in Sides /\ Opposite(popped.side) = incoming.side
  BY <1>2 DEF Opposite, Sides
<1>4. BookInv'
  <2>1. CASE isValid(popped)
    BY <1>1, <1>2, <1>3, <2>1, PushKeeps DEF PutBack
  <2>2. CASE ~isValid(popped)
    BY <1>1, <2>2, BookSame DEF PutBack
  <2>3. QED
    BY <2>1, <2>2
<1>5. CallTyped'
  BY <1>1 DEF PutBack, CallTyped, callerVars, flowVars
<1>6. CallInv'
  BY <1>2 DEF PutBack, CallInv
<1>7. QED
  BY <1>4, <1>5, <1>6, PartsNext

(* Filled keeps IInv.                                                      *)
LEMMA FilledInv == ASSUME IInv, Filled PROVE IInv'
<1>1. BookInv /\ CallTyped /\ CallInv
  BY Parts
<1>2. carry \cup {"FULLY_FILLED", "ACCEPTED"} \in SUBSET ExecFlags
  BY <1>1 DEF CallTyped, ExecFlags
<1>3. BookInv'
  BY <1>1, BookSame DEF Filled
<1>4. CallTyped' /\ CallInv'
  BY <1>1, <1>2, ReturnKeeps DEF Filled, CallTyped, callerVars, flowVars
<1>5. QED
  BY <1>3, <1>4, PartsNext

(* What is left of an order that was valid is valid.                       *)
LEMMA RestRemainderValid == ASSUME IInv, RestRemainder PROVE isValid(incoming)
BY DEF RestRemainder, IInv, CallInv, isValid

(* RestRemainder keeps IInv.                                               *)
LEMMA RestRemainderInv == ASSUME IInv, RestRemainder PROVE IInv'
<1>1. BookInv /\ CallTyped /\ CallInv
  BY Parts
<1>2. incoming \in Orders /\ incoming.side \in Sides /\ isValid(incoming)
  BY <1>1 DEF RestRemainder, CallInv, Orders, isValid
<1>3. carry \cup {"PARTIALLY_FILLED", "ACCEPTED"} \in SUBSET ExecFlags
  BY <1>1 DEF CallTyped, ExecFlags
<1>4. \A n \in price_sorted_[Opposite(incoming.side)] :
         ~priceCrosses(incoming, node[n])
  BY <1>1, <1>2, NothingCrosses DEF RestRemainder, BookInv
<1>5. BookInv'
  BY <1>1, <1>2, <1>4, PushKeeps DEF RestRemainder
<1>6. CallTyped' /\ CallInv'
  BY <1>1, <1>3, ReturnKeeps DEF RestRemainder, CallTyped, callerVars, flowVars
<1>7. QED
  BY <1>5, <1>6, PartsNext

(* The order a handle leads to goes, whosever it is.                       *)
LEMMA TakeKeeps ==
  ASSUME BookInv, CallTyped, NEW s \in Sides, NEW k \in Keys, Take(s, k)
  PROVE  /\ BookInv' /\ ub' \in BOOLEAN
         /\ node[id_to_iter_[s][k]] \in Orders
         /\ volumes_' \in [Prices \X Sides -> Int]
         /\ cancelled' \in [Sides -> Nat] /\ entered' = entered
         /\ traded' = traded
<1> DEFINE o == node[id_to_iter_[s][k]]
<1>1. id_to_iter_[s][k] \in price_sorted_[s] /\ RemoveOrder(s, k)
  BY DEF Take
<1>2. o \in Orders
  BY <1>1 DEF BookInv, QueuesValid
<1>3. BookInv'
  BY <1>1, TakeOutKeeps DEF RemoveOrder
<1>4. o.volume \in Nat /\ <<o.price, s>> \in Prices \X Sides
  BY <1>2 DEF Orders
<1>5. /\ volumes_' = [volumes_ EXCEPT ![<<o.price, s>>] = @ - o.volume]
      /\ cancelled' = [cancelled EXCEPT ![s] = @ + o.volume]
      /\ ub' = (ub \/ Key(o) # k) /\ entered' = entered /\ traded' = traded
  BY DEF Take
<1> HIDE DEF o
<1>6. volumes_' \in [Prices \X Sides -> Int] /\ cancelled' \in [Sides -> Nat]
  BY <1>4, <1>5 DEF CallTyped
<1>7. ub' \in BOOLEAN
  BY <1>5
<1>8. QED
  BY <1>2, <1>3, <1>5, <1>6, <1>7 DEF o

(* Corrupt keeps IInv.                                                     *)
LEMMA CorruptInv ==
  ASSUME IInv, NEW s \in Sides, NEW k \in Keys, Corrupt(s, k) PROVE IInv'
<1>1. BookInv /\ CallTyped /\ CallInv
  BY Parts
<1>2. BookInv'
  BY <1>1, BookSame DEF Corrupt
<1>3. CallTyped'
  BY <1>1 DEF Corrupt, CallTyped, callerVars, flowVars
<1>4. CallInv'
  BY DEF Corrupt, CallInv
<1>5. QED
  BY <1>2, <1>3, <1>4, PartsNext

(* RejectCall keeps IInv.                                                  *)
LEMMA RejectCallInv == ASSUME IInv, RejectCall PROVE IInv'
<1>1. BookInv /\ CallTyped /\ CallInv
  BY Parts
<1>2. {"REJECTED"} \in SUBSET ExecFlags
  BY DEF ExecFlags
<1>3. BookInv'
  BY <1>1, BookSame DEF RejectCall
<1>4. CallTyped' /\ CallInv'
  BY <1>1, <1>2, ReturnKeeps DEF RejectCall, CallTyped, callerVars, flowVars
<1>5. QED
  BY <1>3, <1>4, PartsNext

(* CancelOrder keeps IInv.                                                 *)
LEMMA CancelOrderInv ==
  ASSUME IInv, NEW k \in Keys, CancelOrder(k) PROVE IInv'
<1>1. BookInv /\ CallTyped /\ CallInv
  BY Parts
<1>2. SideOf(k) \in Sides
  BY DEF SideOf, Sides
<1>3. CASE RejectCall
  BY <1>3, RejectCallInv
<1>4. CASE Take(SideOf(k), k) /\ Return({"CANCELLED"}) /\ UNCHANGED callerVars
  <2>1. {"CANCELLED"} \in SUBSET ExecFlags
    BY DEF ExecFlags
  <2>2. CallTyped' /\ CallInv'
    BY <1>1, <1>2, <1>4, <2>1, TakeKeeps, ReturnKeeps DEF CallTyped, callerVars
  <2>3. QED
    BY <1>1, <1>2, <1>4, <2>2, TakeKeeps, PartsNext
<1>5. CASE Corrupt(SideOf(k), k)
  BY <1>2, <1>5, CorruptInv
<1>6. QED
  BY <1>3, <1>4, <1>5 DEF CancelOrder

(* ModifyOrder keeps IInv.                                                 *)
LEMMA ModifyOrderInv ==
  ASSUME IInv, NEW k \in Keys, ModifyOrder(k) PROVE IInv'
<1> DEFINE o == node[id_to_iter_[BUY_SIDE][k]]
           new(p, v) == MakeOrder(o.id, p, v, o.side, o.client)
           Replace(p, v) == /\ Take(BUY_SIDE, k)
                            /\ nextTimestampNs /\ UNCHANGED made
                            /\ Enter(new(p, v), {"CANCELLED"})
<1>1. BookInv /\ CallTyped /\ CallInv
  BY Parts
<1>2. BUY_SIDE \in Sides
  BY DEF Sides
<1>3. CASE RejectCall
  BY <1>3, RejectCallInv
<1>4. ASSUME NEW p \in Prices, NEW v \in Volumes, Replace(p, v) PROVE IInv'
  <2>1. /\ BookInv' /\ ub' \in BOOLEAN /\ o \in Orders
        /\ volumes_' \in [Prices \X Sides -> Int]
        /\ cancelled' \in [Sides -> Nat] /\ entered' = entered
        /\ traded' = traded
    BY <1>1, <1>2, <1>4, TakeKeeps
  <2>2. new(p, v) \in Orders
    <3>1. /\ o.id \in Words /\ o.side \in Sides /\ v \in Nat
          /\ o.client \in Clients
      BY <2>1 DEF Orders
    <3> HIDE DEF o
    <3>2. QED
      BY <1>1, <3>1, MakeOrderType DEF CallTyped
  <2>3. Snapshot \in Snapshots
    BY <1>1, SnapshotType
  <2>4. {"CANCELLED"} \in SUBSET ExecFlags
    BY DEF ExecFlags
  <2> HIDE DEF o, new
  <2>5. CallTyped'
    BY <1>1, <1>4, <2>1, <2>2, <2>3, <2>4 DEF CallTyped, Enter, nextTimestampNs
  <2>6. CallInv'
    BY <1>4, <2>2 DEF CallInv, Enter
  <2>7. QED
    BY <2>1, <2>5, <2>6, PartsNext
<1>5. CASE Corrupt(BUY_SIDE, k)
  BY <1>2, <1>5, CorruptInv
<1>6. RejectCall \/ (\E p \in Prices, v \in Volumes : Replace(p, v))
        \/ Corrupt(BUY_SIDE, k)
  BY DEF ModifyOrder
<1> HIDE DEF Replace
<1>7. QED
  BY <1>3, <1>4, <1>5, <1>6

-----------------------------------------------------------------------------
(* The theorems.                                                           *)

LEMMA StepInv == IInv /\ [Next]_vars => IInv'
<1> SUFFICES ASSUME IInv, [Next]_vars PROVE IInv'
  OBVIOUS
<1>1. CASE Call
  BY <1>1, BuildOrderInv, NewOrderInv, CancelOrderInv, ModifyOrderInv DEF Call
<1>2. CASE Step
  BY <1>2, RejectInv, RestInv, BeginMatchInv, TakeBestInv, PutBackInv, FilledInv,
     RestRemainderInv DEF Step
<1>3. CASE UNCHANGED vars
  BY <1>3 DEF vars, callerVars, bookVars, flowVars, IInv, TypeOK, QueuesValid, isValid,
     BookUncrossed, CallInv, priceCrosses
<1>4. QED
  BY <1>1, <1>2, <1>3 DEF Next

(* The invariant the others are read off: types, valid queues, no crossed  *)
(* book, and what a running call holds between two of its steps.           *)
THEOREM Invariance == Spec => []IInv
BY InitInv, StepInv, PTL DEF Spec

(* Every variable keeps to its type, for any number of orders up to Word.  *)
THEOREM TypeCorrect == Spec => []TypeOK
<1>1. IInv => TypeOK
  BY DEF IInv
<1>2. QED
  BY <1>1, Invariance, PTL

(* The assertions own_queue->isValid() and opposite_queue->isValid() of    *)
(* newOrder and matchOrder never fail, and bids rest with bids only.       *)
THEOREM AssertionsHold == Spec => []QueuesValid
<1>1. IInv => QueuesValid
  BY DEF IInv
<1>2. QED
  BY <1>1, Invariance, PTL

(* The book is never crossed, in no state a reader can see: between calls, *)
(* in the middle of a match, after a modify, after a stale handle was used.*)
THEOREM NeverCrossed == Spec => []BookUncrossed
<1>1. IInv => BookUncrossed
  BY DEF IInv
<1>2. QED
  BY <1>1, Invariance, PTL

-----------------------------------------------------------------------------
(* The index.  Every order that rests is found by its handle, when each    *)
(* order is entered once.                                                  *)

(* Numbers less than w apart have different remainders.                    *)
LEMMA RemaindersDiffer ==
  ASSUME NEW w \in Nat \ {0}, NEW a \in Nat, NEW b \in Nat, a < b, b - a < w
  PROVE  a % w # b % w
<1> SUFFICES ASSUME a % w = b % w PROVE FALSE
  OBVIOUS
<1> DEFINE p == a \div w
           q == b \div w
<1>1. /\ a = w * p + (a % w) /\ b = w * q + (b % w)
      /\ p \in Int /\ q \in Int /\ (a % w) \in Int
  OBVIOUS
<1> HIDE DEF p, q
<1>2. b - a = w * (q - p)
  <2>1. w * (q - p) = w * q - w * p /\ w * q \in Int /\ w * p \in Int
    BY <1>1
  <2>2. QED
    BY <1>1, <2>1
<1>3. CASE q - p <= 0
  <2>1. w * (q - p) <= 0
    BY <1>1, <1>3
  <2>2. QED
    BY <1>2, <2>1
<1>4. CASE q - p >= 1
  <2>1. w * (q - p) >= w
    BY <1>1, <1>4
  <2>2. QED
    BY <1>2, <2>1
<1>5. QED
  BY <1>1, <1>3, <1>4

(* The sequencer hands out a timestamp that no order has.                  *)
LEMMA NextIsFresh ==
  ASSUME seq_counter_ \in 0 .. MaxOrders, nextTimestampNs
  PROVE  LET t == (Epoch + seq_counter_) % Word IN
         t \notin Drawn /\ Drawn' = Drawn \cup {t}
<1> DEFINE t == (Epoch + seq_counter_) % Word
<1>1. seq_counter_ \in Nat /\ seq_counter_ < Word /\ seq_counter_' = seq_counter_ + 1
  BY DEF nextTimestampNs
<1>2. ASSUME NEW q \in 0 .. seq_counter_ - 1 PROVE (Epoch + q) % Word # t
  <2>1. /\ q \in Nat /\ Epoch + q \in Nat /\ Epoch + seq_counter_ \in Nat
        /\ Epoch + q < Epoch + seq_counter_
        /\ (Epoch + seq_counter_) - (Epoch + q) < Word
    BY <1>1
  <2>2. QED
    BY <2>1, RemaindersDiffer
<1>3. t \notin Drawn
  BY <1>2 DEF Drawn
<1>4. 0 .. seq_counter_' - 1 = (0 .. seq_counter_ - 1) \cup {seq_counter_}
  BY <1>1
<1>5. Drawn' = Drawn \cup {t}
  BY <1>1, <1>4 DEF Drawn
<1>6. QED
  BY <1>3, <1>5

-----------------------------------------------------------------------------
(* The book: what FindInv says of the orders that rest.                    *)

Placed ==
  /\ \A m, n \in Live : node[m].ts = node[n].ts => m = n
  /\ \A s \in Sides : \A n \in price_sorted_[s] :
       /\ id_to_iter_[s][Key(node[n])] = n
       /\ id_to_iter_[Opposite(s)][Key(node[n])] = NoAddr
       /\ node[n].ts \in Drawn
  /\ \A s \in Sides, k \in Keys : Indexed(s, k) => k[2] \in Drawn

(* o is of no order that rests, and would not be hidden by an entry.       *)
MayRest(o) == /\ \A n \in Live : o.ts # node[n].ts
              /\ id_to_iter_[Opposite(o.side)][Key(o)] = NoAddr
              /\ o.ts \in Drawn

(* The orders outside the queues are different ones.                       *)
HandDistinct ==
  /\ \A m, n \in made : m[1].ts = n[1].ts => m = n
  /\ pc \in {"enter", "match", "repush"} => \A m \in made : m[1].ts # incoming.ts
  /\ pc = "repush" => /\ popped.ts # incoming.ts
                      /\ \A m \in made : m[1].ts # popped.ts

(* FindInv, part by part, before and after a step.                         *)
LEMMA FindParts ==
  /\ FindInv <=> Placed /\ (\A o \in InHand : MayRest(o)) /\ HandDistinct
  /\ FindInv' <=> Placed' /\ (\A o \in InHand' : MayRest(o)') /\ HandDistinct'
BY DEF FindInv, StampsUnique, IndexExact, Placed, MayRest, HandDistinct

(* Orders of one key have one timestamp.                                   *)
LEMMA KeyIs ==
  \A o, q \in Orders : /\ Key(o) \in Keys /\ o.side \in Sides
                       /\ Key(o)[2] = o.ts
                       /\ Key(o) = Key(q) => o.ts = q.ts
BY DEF Key, Keys, Orders

(* There are two sides.                                                    *)
LEMMA OppositeIs ==
  \A s \in Sides : Opposite(s) \in Sides /\ Opposite(s) # s /\ Opposite(Opposite(s)) = s
BY DEF Sides, Opposite, BUY_SIDE, SELL_SIDE

(* A node is live in a queue of either side.                               *)
LEMMA LiveIs == \A n : n \in Live <=> \E s \in Sides : n \in price_sorted_[s]
BY DEF Live, Sides

(* push: the order gets the entry of its key, and the other orders keep    *)
(* theirs because their timestamps differ.                                 *)
LEMMA PushPlaces ==
  ASSUME BookInv, Placed, NEW s \in Sides, NEW o \in Orders, o.side = s,
         isValid(o), MayRest(o), Push(s, o), UNCHANGED seq_counter_
  PROVE  /\ Placed'
         /\ \A q \in Orders : MayRest(q) /\ q.ts # o.ts => MayRest(q)'
<1>1. PICK a \in Addrs \ Live :
        /\ node' = [node EXCEPT ![a] = o]
        /\ price_sorted_' = [price_sorted_ EXCEPT ![s] = @ \cup {a}]
        /\ id_to_iter_' = [id_to_iter_ EXCEPT ![s][Key(o)] = a]
  BY DEF Push, Insert
<1>2. Drawn' = Drawn /\ a # NoAddr
  BY DEF Drawn
<1>3. node'[a] = o /\ \A n \in Addrs : n # a => node'[n] = node[n]
  BY <1>1 DEF BookInv, BookTyped
<1>4. /\ id_to_iter_'[s][Key(o)] = a
      /\ \A r \in Sides, k \in Keys : r # s \/ k # Key(o) =>
           id_to_iter_'[r][k] = id_to_iter_[r][k]
  BY <1>1, KeyIs DEF BookInv, BookTyped
<1>5. /\ \A r \in Sides : price_sorted_[r] \subseteq Addrs
      /\ \A r \in Sides : \A n \in price_sorted_'[r] :
           n \in price_sorted_[r] \/ (n = a /\ r = s)
  BY <1>1 DEF BookInv, BookTyped
<1>6. \A n \in Live' : (n \in Live /\ n # a) \/ n = a
  BY <1>5, LiveIs DEF Live, Sides
<1>7. \A n \in Live : n \in Addrs /\ n # a /\ node'[n] = node[n] /\ node[n] \in Orders
  BY <1>1, <1>3, <1>5, LiveIs DEF BookInv, QueuesValid
<1>8. \A n \in Live : node[n].ts # o.ts
  BY DEF MayRest
<1>9. \A m, n \in Live' : node'[m].ts = node'[n].ts => m = n
  BY <1>3, <1>6, <1>7, <1>8 DEF Placed
<1>10. ASSUME NEW r \in Sides, NEW n \in price_sorted_'[r]
       PROVE  /\ id_to_iter_'[r][Key(node'[n])] = n
              /\ id_to_iter_'[Opposite(r)][Key(node'[n])] = NoAddr
              /\ node'[n].ts \in Drawn
  <2>1. CASE n = a /\ r = s
    BY <1>3, <1>4, <2>1, KeyIs, OppositeIs DEF MayRest
  <2>2. CASE n \in price_sorted_[r]
    <3>1. n \in Live /\ node'[n] = node[n] /\ node[n] \in Orders
      BY <1>7, <2>2, LiveIs
    <3>2. Key(node[n]) \in Keys /\ Key(node[n]) # Key(o)
      BY <1>8, <3>1, KeyIs
    <3>3. QED
      BY <1>4, <2>2, <3>1, <3>2, OppositeIs DEF Placed
  <2>3. QED
    BY <1>5, <1>10, <2>1, <2>2
<1>11. ASSUME NEW r \in Sides, NEW k \in Keys, Indexed(r, k)'
       PROVE  k[2] \in Drawn
  <2>1. CASE r = s /\ k = Key(o)
    BY <2>1, KeyIs DEF MayRest
  <2>2. CASE r # s \/ k # Key(o)
    BY <1>4, <1>11, <2>2 DEF Indexed, Placed
  <2>3. QED
    BY <2>1, <2>2
<1>12. Placed'
  BY <1>2, <1>9, <1>10, <1>11 DEF Placed
<1>13. ASSUME NEW q \in Orders, MayRest(q), q.ts # o.ts PROVE MayRest(q)'
  <2>1. \A n \in Live' : q.ts # node'[n].ts
    BY <1>3, <1>6, <1>7, <1>13 DEF MayRest
  <2>2. id_to_iter_'[Opposite(q.side)][Key(q)] = NoAddr
    BY <1>4, <1>13, KeyIs, OppositeIs DEF MayRest
  <2>3. QED
    BY <1>2, <1>13, <2>1, <2>2 DEF MayRest
<1>14. QED
  BY <1>12, <1>13

(* pop and remove: the entry that goes is of no other order that rests, so *)
(* the others keep theirs, and the order taken out may rest again.         *)
LEMMA TakeOutPlaces ==
  ASSUME BookInv, Placed, NEW s \in Sides, NEW n \in price_sorted_[s], NEW k \in Keys,
         \A m \in price_sorted_[s] : Key(node[m]) = k => m = n,
         price_sorted_' = [price_sorted_ EXCEPT ![s] = @ \ {n}],
         id_to_iter_' = [id_to_iter_ EXCEPT ![s][k] = NoAddr],
         node' = [node EXCEPT ![n] = Freed],
         Drawn \subseteq Drawn'
  PROVE  /\ Placed'
         /\ \A r \in Sides, j \in Keys : Indexed(r, j)' => Indexed(r, j)
         /\ \A q \in Orders : MayRest(q) => MayRest(q)'
         /\ \A q \in Orders : q.side = s /\ Key(q) = Key(node[n]) => MayRest(q)'
<1>1. \A r \in Sides : \A m \in price_sorted_'[r] :
        m \in price_sorted_[r] /\ node'[m] = node[m] /\ node[m] \in Orders
  BY TakeOutKeeps DEF BookInv, QueuesValid
<1>2. node[n] \in Orders /\ n \in Live
  BY LiveIs DEF BookInv, QueuesValid
<1>3. \A m \in price_sorted_'[s] : m # n
  BY DEF BookInv, BookTyped
<1>4. \A m \in Live' : m \in Live /\ node'[m] = node[m] /\ node[m] \in Orders
  BY <1>1, LiveIs DEF Live, Sides
<1>5. \A r \in Sides, j \in Keys :
        id_to_iter_'[r][j] = IF r = s /\ j = k THEN NoAddr ELSE id_to_iter_[r][j]
  BY DEF BookInv, BookTyped
<1>6. \A m, l \in Live' : node'[m].ts = node'[l].ts => m = l
  BY <1>4 DEF Placed
<1>7. ASSUME NEW r \in Sides, NEW m \in price_sorted_'[r]
      PROVE  /\ id_to_iter_'[r][Key(node'[m])] = m
             /\ id_to_iter_'[Opposite(r)][Key(node'[m])] = NoAddr
             /\ node'[m].ts \in Drawn'
  <2>1. m \in price_sorted_[r] /\ node'[m] = node[m] /\ Key(node[m]) \in Keys
    BY <1>1, <1>7, KeyIs
  <2>2. ~(r = s /\ Key(node[m]) = k)
    BY <1>3, <1>7, <2>1
  <2>3. QED
    BY <1>5, <2>1, <2>2, OppositeIs DEF Placed
<1>8. \A r \in Sides, j \in Keys : Indexed(r, j)' => Indexed(r, j)
  BY <1>5 DEF Indexed
<1>9. Placed'
  BY <1>6, <1>7, <1>8 DEF Placed
<1>10. ASSUME NEW q \in Orders, MayRest(q) PROVE MayRest(q)'
  <2>1. \A m \in Live' : q.ts # node'[m].ts
    BY <1>4, <1>10 DEF MayRest
  <2>2. id_to_iter_'[Opposite(q.side)][Key(q)] = NoAddr
    BY <1>5, <1>10, KeyIs, OppositeIs DEF MayRest
  <2>3. QED
    BY <1>10, <2>1, <2>2 DEF MayRest
<1>11. ASSUME NEW q \in Orders, q.side = s, Key(q) = Key(node[n]) PROVE MayRest(q)'
  <2>1. q.ts = node[n].ts /\ Key(q) \in Keys
    BY <1>2, <1>11, KeyIs
  <2>2. ~(n \in Live')
    <3>1. \A r \in Sides : n \in price_sorted_'[r] => r = s
      BY <1>1, OneQueue DEF BookInv
    <3>2. QED
      BY <1>3, <3>1 DEF Live, Sides
  <2>3. \A m \in Live' : q.ts # node'[m].ts
    BY <1>2, <1>4, <2>1, <2>2 DEF Placed
  <2>4. id_to_iter_'[Opposite(s)][Key(q)] = NoAddr /\ q.ts \in Drawn'
    BY <1>5, <1>11, <2>1, OppositeIs DEF Placed
  <2>5. QED
    BY <1>11, <2>3, <2>4 DEF MayRest
<1>12. QED
  BY <1>8, <1>9, <1>10, <1>11

(* A step that leaves the book alone leaves its index alone.               *)
LEMMA BookStays ==
  ASSUME Placed, UNCHANGED bookVars, Drawn \subseteq Drawn'
  PROVE  Placed' /\ \A q : MayRest(q) => MayRest(q)'
<1>1. Live' = Live
  BY DEF Live, bookVars
<1>2. QED
  BY <1>1 DEF Placed, MayRest, Indexed, bookVars

(* An order with a new timestamp is nowhere, and no entry has its key.     *)
LEMMA FreshMayRest ==
  ASSUME Placed, NEW o \in Orders, o.ts \notin Drawn, o.ts \in Drawn',
         \A r \in Sides : \A m \in price_sorted_'[r] :
            m \in price_sorted_[r] /\ node'[m] = node[m],
         \A r \in Sides, j \in Keys : Indexed(r, j)' => Indexed(r, j)
  PROVE  MayRest(o)'
<1>1. \A m \in Live' : node'[m].ts \in Drawn
  BY DEF Live, Placed, Sides
<1>2. ~Indexed(Opposite(o.side), Key(o))'
  BY KeyIs, OppositeIs DEF Placed
<1>3. QED
  BY <1>1, <1>2 DEF MayRest, Indexed

-----------------------------------------------------------------------------
(* The calls and their steps keep FindInv.                                 *)

LEMMA HandTyped == IInv => InHand \subseteq Orders
BY DEF IInv, TypeOK, CallInv, InHand

(* FindInv holds at the start.                                             *)
LEMMA InitFind == Init => FindInv
BY DEF Init, FindInv, StampsUnique, IndexExact, InHand, Live, Sides, Indexed

(* A step that leaves the book, and brings no order into anybody's hands.  *)
LEMMA HandShrinks ==
  ASSUME FindInv, UNCHANGED bookVars, UNCHANGED seq_counter_,
         InHand' \subseteq InHand, HandDistinct'
  PROVE  FindInv'
<1>1. Drawn' = Drawn
  BY DEF Drawn
<1>2. QED
  BY <1>1, FindParts, BookStays

(* BuildOrder keeps FindInv.                                               *)
LEMMA BuildOrderFind ==
  ASSUME IInv, FindInv, NEW id \in OrderIds, NEW p \in Prices, NEW v \in Volumes,
         NEW s \in Sides, NEW c \in Clients, BuildOrder(id, p, v, s, c)
  PROVE  FindInv'
<1>a. PICK o : o = MakeOrder(id, p, v, s, c)
  OBVIOUS
<1>1. /\ nextTimestampNs /\ made' = made \cup {<<o, 0>>}
      /\ UNCHANGED <<bookVars, pc, incoming, popped>>
  BY <1>a DEF BuildOrder
<1>2. o \in Orders /\ o.ts = (Epoch + seq_counter_) % Word
  BY <1>a, MakeOrderType DEF IInv, TypeOK, Words, MakeOrder
<1>3. o.ts \notin Drawn /\ Drawn' = Drawn \cup {o.ts}
  BY <1>1, <1>2, NextIsFresh DEF IInv, TypeOK
<1>4. Placed /\ (\A q \in InHand : MayRest(q)) /\ HandDistinct
  BY FindParts
<1>5. Placed' /\ \A q : MayRest(q) => MayRest(q)'
  BY <1>1, <1>3, <1>4, BookStays
<1>6. MayRest(o)'
  BY <1>1, <1>2, <1>3, <1>4, FreshMayRest DEF bookVars, Indexed
<1>7. \A q \in InHand' : q \in InHand \/ q = o
  <2>1. \A m \in made' : m \in made \/ m[1] = o
    BY <1>1
  <2>2. QED
    BY <1>1, <2>1 DEF InHand
<1>8. \A q \in InHand : q.ts # o.ts
  BY <1>3, <1>4 DEF MayRest
<1>9. HandDistinct'
  BY <1>1, <1>4, <1>8 DEF HandDistinct, InHand
<1>10. QED
  BY <1>4, <1>5, <1>6, <1>7, <1>9, FindParts

(* The caller keeps no second copy of the order to enter.                  *)
LEMMA NewOrderFind ==
  ASSUME MaxSubmits = 1, IInv, FindInv, NEW m \in made, NewOrder(m[1], m[2])
  PROVE  FindInv'
<1>1. m = <<m[1], m[2]>> /\ m[2] = 0
  BY DEF IInv, TypeOK
<1>2. /\ made' = made \ {m} /\ pc = "idle" /\ pc' = "enter" /\ incoming' = m[1]
      /\ UNCHANGED <<bookVars, seq_counter_>>
  BY <1>1 DEF NewOrder, Enter
<1>3. InHand' \subseteq InHand
  BY <1>2 DEF InHand
<1>4. HandDistinct'
  BY <1>2, FindParts DEF HandDistinct
<1>5. QED
  BY <1>2, <1>3, <1>4, HandShrinks

(* A return drops the orders the call held.                                *)
LEMMA ReturnFind ==
  ASSUME FindInv, NEW flags, Return(flags), UNCHANGED made
  PROVE  InHand' \subseteq InHand /\ HandDistinct'
BY FindParts DEF Return, InHand, HandDistinct

(* Reject keeps FindInv.                                                   *)
LEMMA RejectFind == ASSUME FindInv, Reject PROVE FindInv'
BY ReturnFind, HandShrinks DEF Reject, callerVars

(* Filled keeps FindInv.                                                   *)
LEMMA FilledFind == ASSUME FindInv, Filled PROVE FindInv'
BY ReturnFind, HandShrinks DEF Filled, callerVars

(* RejectCall keeps FindInv.                                               *)
LEMMA RejectCallFind == ASSUME FindInv, RejectCall PROVE FindInv'
BY ReturnFind, HandShrinks DEF RejectCall, callerVars

(* Corrupt keeps FindInv.                                                  *)
LEMMA CorruptFind ==
  ASSUME FindInv, NEW s \in Sides, NEW k \in Keys, Corrupt(s, k) PROVE FindInv'
<1>1. InHand' \subseteq InHand /\ HandDistinct'
  BY FindParts DEF Corrupt, InHand, HandDistinct, callerVars
<1>2. QED
  BY <1>1, HandShrinks DEF Corrupt, callerVars

(* BeginMatch keeps FindInv.                                               *)
LEMMA BeginMatchFind == ASSUME FindInv, BeginMatch PROVE FindInv'
<1>1. InHand' \subseteq InHand /\ HandDistinct'
  BY FindParts DEF BeginMatch, InHand, HandDistinct, callerVars
<1>2. QED
  BY <1>1, HandShrinks DEF BeginMatch, callerVars

(* What is left of the incoming order rests, and the call returns.         *)
LEMMA EndRestFind ==
  ASSUME IInv, FindInv, pc \in {"enter", "match"}, isValid(incoming),
         Push(incoming.side, incoming), NEW flags, Return(flags), UNCHANGED callerVars
  PROVE  FindInv'
<1>1. Placed /\ (\A q \in InHand : MayRest(q)) /\ HandDistinct
  BY FindParts
<1>2. incoming \in InHand /\ incoming \in Orders /\ incoming.side \in Sides
  BY HandTyped, KeyIs DEF InHand
<1>3. /\ Placed'
      /\ \A q \in Orders : MayRest(q) /\ q.ts # incoming.ts => MayRest(q)'
  BY <1>1, <1>2, PushPlaces, Parts DEF callerVars
<1>4. \A q \in InHand' : q \in InHand /\ q \in Orders /\ q.ts # incoming.ts
  BY <1>1, HandTyped DEF InHand, HandDistinct, Return, callerVars
<1>5. HandDistinct'
  BY <1>1 DEF HandDistinct, Return, callerVars
<1>6. QED
  BY <1>1, <1>3, <1>4, <1>5, FindParts

(* Rest keeps FindInv.                                                     *)
LEMMA RestFind == ASSUME IInv, FindInv, Rest PROVE FindInv'
BY EndRestFind DEF Rest

(* RestRemainder keeps FindInv.                                            *)
LEMMA RestRemainderFind == ASSUME IInv, FindInv, RestRemainder PROVE FindInv'
<1>1. isValid(incoming)
  BY RestRemainderValid
<1>2. QED
  BY <1>1, EndRestFind DEF RestRemainder

(* One trade: the order popped goes to the running call, with its key and  *)
(* its side; the key that pop erases has its timestamp, so it is no other's*)
LEMMA TakeBestFind == ASSUME IInv, FindInv, TakeBest PROVE FindInv'
<1> DEFINE opp == Opposite(incoming.side)
<1>1. Placed /\ (\A q \in InHand : MayRest(q)) /\ HandDistinct /\ BookInv
  BY FindParts, Parts
<1>2. incoming \in Orders /\ incoming \in InHand /\ opp \in Sides
  BY HandTyped, KeyIs, OppositeIs DEF TakeBest, InHand
<1>3. PICK n \in price_sorted_[opp] :
        /\ Pop(opp, n)
        /\ incoming' = [incoming EXCEPT !.volume =
                          @ - TradeVolume(incoming, node[n])]
        /\ popped' = [node[n] EXCEPT !.volume =
                        @ - TradeVolume(incoming, node[n])]
  BY DEF TakeBest
<1>4. pc = "match" /\ pc' = "repush" /\ made' = made /\ seq_counter_' = seq_counter_
  BY DEF TakeBest, callerVars
<1>5. n \in Live /\ node[n] \in Orders /\ node[n].side = opp
  BY <1>1, <1>2, LiveIs DEF BookInv, QueuesValid
<1>6. PICK in, out : in = incoming' /\ out = popped'
  OBVIOUS
<1>7. /\ in.ts = incoming.ts /\ in.side = incoming.side /\ Key(in) = Key(incoming)
      /\ out.ts = node[n].ts /\ out.side = opp /\ Key(out) = Key(node[n])
  BY <1>2, <1>3, <1>5, <1>6 DEF Key, Orders
<1>8. in \in Orders /\ out \in Orders
  BY <1>6, TakeBestInv DEF TakeBest, IInv, CallInv
<1>9. Truncated(Key(node[n])) \in Keys /\ Truncated(Key(node[n]))[2] = node[n].ts
  BY <1>5 DEF Truncated, Key, Keys, Words, Orders
<1>10. \A m \in price_sorted_[opp] : Key(node[m]) = Truncated(Key(node[n])) => m = n
  <2> SUFFICES ASSUME NEW m \in price_sorted_[opp],
                      Key(node[m]) = Truncated(Key(node[n]))
               PROVE  m = n
    OBVIOUS
  <2>1. m \in Live /\ node[m] \in Orders
    BY <1>1, <1>2, LiveIs DEF BookInv, QueuesValid
  <2>2. node[m].ts = node[n].ts
    BY <1>9, <2>1, KeyIs
  <2>3. QED
    BY <1>1, <1>5, <2>1, <2>2 DEF Placed
<1>11. Drawn' = Drawn
  BY <1>4 DEF Drawn
<1>12. /\ Placed'
       /\ \A q \in Orders : MayRest(q) => MayRest(q)'
       /\ \A q \in Orders : q.side = opp /\ Key(q) = Key(node[n]) => MayRest(q)'
  BY <1>1, <1>2, <1>3, <1>9, <1>10, <1>11, TakeOutPlaces DEF Pop
<1>13. MayRest(in)
  BY <1>1, <1>2, <1>7 DEF MayRest
<1>14. \A q \in InHand' : (q \in InHand /\ q \in Orders) \/ q = in \/ q = out
  BY <1>4, <1>6, HandTyped DEF InHand
<1>15. \A q \in InHand' : MayRest(q)'
  BY <1>1, <1>7, <1>8, <1>12, <1>13, <1>14
<1>16. HandDistinct'
  <2>1. \A m \in made : m[1].ts # node[n].ts
    BY <1>1, <1>5 DEF MayRest, InHand
  <2>2. incoming.ts # node[n].ts
    BY <1>1, <1>2, <1>5 DEF MayRest
  <2>3. QED
    BY <1>1, <1>4, <1>6, <1>7, <2>1, <2>2 DEF HandDistinct
<1>17. QED
  BY <1>12, <1>15, <1>16, FindParts

(* PutBack keeps FindInv.                                                  *)
LEMMA PutBackFind == ASSUME IInv, FindInv, PutBack PROVE FindInv'
<1>1. Placed /\ (\A q \in InHand : MayRest(q)) /\ HandDistinct /\ BookInv
  BY FindParts, Parts
<1>2. /\ pc = "repush" /\ pc' = "match" /\ made' = made
      /\ seq_counter_' = seq_counter_ /\ incoming' = incoming
  BY DEF PutBack, callerVars
<1>3. /\ popped \in InHand /\ popped \in Orders
      /\ popped.side = Opposite(incoming.side) /\ popped.side \in Sides
  BY <1>2, KeyIs DEF InHand, IInv, CallInv
<1>4. \A q \in InHand' : q \in InHand /\ q \in Orders /\ q.ts # popped.ts
  BY <1>1, <1>2, HandTyped DEF InHand, HandDistinct
<1>5. HandDistinct'
  BY <1>1, <1>2 DEF HandDistinct
<1>6. CASE isValid(popped)
  <2>1. Push(popped.side, popped)
    BY <1>3, <1>6 DEF PutBack
  <2>2. /\ Placed'
        /\ \A q \in Orders : MayRest(q) /\ q.ts # popped.ts => MayRest(q)'
    BY <1>1, <1>2, <1>3, <1>6, <2>1, PushPlaces
  <2>3. QED
    BY <1>1, <1>4, <1>5, <2>2, FindParts
<1>7. CASE ~isValid(popped)
  BY <1>2, <1>4, <1>5, <1>7, HandShrinks DEF PutBack
<1>8. QED
  BY <1>6, <1>7

(* What a handle leads to goes: the entry erased is the one it was found   *)
(* by, and that is of no other order that rests.                           *)
LEMMA TakeFind ==
  ASSUME IInv, FindInv, NEW s \in Sides, NEW k \in Keys, Take(s, k),
         Drawn \subseteq Drawn'
  PROVE  /\ Placed'
         /\ \A q \in Orders : MayRest(q) => MayRest(q)'
         /\ \A r \in Sides, j \in Keys : Indexed(r, j)' => Indexed(r, j)
         /\ \A r \in Sides : \A m \in price_sorted_'[r] :
              m \in price_sorted_[r] /\ node'[m] = node[m]
<1>1. Placed /\ BookInv
  BY FindParts, Parts
<1>2. PICK n \in price_sorted_[s] : n = id_to_iter_[s][k]
  BY DEF Take
<1>3. /\ price_sorted_' = [price_sorted_ EXCEPT ![s] = @ \ {n}]
      /\ id_to_iter_' = [id_to_iter_ EXCEPT ![s][k] = NoAddr]
      /\ node' = [node EXCEPT ![n] = Freed]
  BY <1>2 DEF Take, RemoveOrder
<1>4. \A m \in price_sorted_[s] : Key(node[m]) = k => m = n
  BY <1>1, <1>2 DEF Placed
<1>5. /\ Placed'
      /\ \A r \in Sides, j \in Keys : Indexed(r, j)' => Indexed(r, j)
      /\ \A q \in Orders : MayRest(q) => MayRest(q)'
  BY <1>1, <1>3, <1>4, TakeOutPlaces
<1>6. \A r \in Sides : \A m \in price_sorted_'[r] :
        m \in price_sorted_[r] /\ node'[m] = node[m]
  BY <1>1, <1>3, TakeOutKeeps
<1>7. QED
  BY <1>5, <1>6

(* CancelOrder keeps FindInv.                                              *)
LEMMA CancelOrderFind ==
  ASSUME IInv, FindInv, NEW k \in Keys, CancelOrder(k) PROVE FindInv'
<1>1. PICK s \in Sides : s = SideOf(k)
  BY DEF SideOf, Sides
<1>2. CASE Take(SideOf(k), k) /\ Return({"CANCELLED"}) /\ UNCHANGED callerVars
  <2>1. Drawn' = Drawn
    BY <1>2 DEF Drawn, callerVars
  <2>2. Take(s, k) /\ Drawn \subseteq Drawn'
    BY <1>1, <1>2, <2>1
  <2>3. Placed' /\ \A q \in Orders : MayRest(q) => MayRest(q)'
    BY <2>2, TakeFind
  <2>4. InHand' \subseteq InHand /\ HandDistinct'
    BY <1>2, ReturnFind DEF callerVars
  <2>5. QED
    BY <2>3, <2>4, HandTyped, FindParts
<1>3. QED
  BY <1>1, <1>2, RejectCallFind, CorruptFind DEF CancelOrder

(* ModifyOrder keeps FindInv.                                              *)
LEMMA ModifyOrderFind ==
  ASSUME IInv, FindInv, NEW k \in Keys, ModifyOrder(k) PROVE FindInv'
<1>1. BUY_SIDE \in Sides
  BY DEF Sides
<1>2. ASSUME NEW p \in Prices, NEW v \in Volumes, NEW x,
             x = node[id_to_iter_[BUY_SIDE][k]], pc = "idle",
             Take(BUY_SIDE, k), nextTimestampNs, UNCHANGED made,
             Enter(MakeOrder(x.id, p, v, x.side, x.client), {"CANCELLED"})
      PROVE  FindInv'
  <2>1. PICK o : o = MakeOrder(x.id, p, v, x.side, x.client)
    OBVIOUS
  <2>2. x \in Orders
    BY <1>1, <1>2, TakeKeeps, Parts
  <2>3. o \in Orders /\ o.ts = (Epoch + seq_counter_) % Word
    BY <2>1, <2>2, MakeOrderType DEF IInv, TypeOK, MakeOrder, Orders
  <2>4. o.ts \notin Drawn /\ Drawn' = Drawn \cup {o.ts}
    BY <1>2, <2>3, NextIsFresh DEF IInv, TypeOK
  <2>5. /\ Placed'
        /\ \A q \in Orders : MayRest(q) => MayRest(q)'
        /\ \A r \in Sides, j \in Keys : Indexed(r, j)' => Indexed(r, j)
        /\ \A r \in Sides : \A m \in price_sorted_'[r] :
              m \in price_sorted_[r] /\ node'[m] = node[m]
    BY <1>1, <1>2, <2>4, TakeFind
  <2>6. Placed /\ (\A q \in InHand : MayRest(q)) /\ HandDistinct
    BY FindParts
  <2>7. MayRest(o)'
    BY <2>3, <2>4, <2>5, <2>6, FreshMayRest
  <2>8. \A q \in InHand' : (q \in InHand /\ q \in Orders) \/ q = o
    BY <1>2, <2>1, HandTyped DEF InHand, Enter
  <2>9. \A m \in made : m[1].ts # o.ts
    BY <2>4, <2>6 DEF MayRest, InHand
  <2>10. HandDistinct'
    BY <1>2, <2>1, <2>6, <2>9 DEF HandDistinct, Enter
  <2>11. QED
    BY <2>5, <2>6, <2>7, <2>8, <2>10, FindParts
<1>3. QED
  BY <1>1, <1>2, RejectCallFind, CorruptFind DEF ModifyOrder

-----------------------------------------------------------------------------
(* The theorems.                                                           *)

LEMMA StepFind == MaxSubmits = 1 /\ IInv /\ FindInv /\ [Next]_vars => FindInv'
<1> SUFFICES ASSUME MaxSubmits = 1, IInv, FindInv, [Next]_vars PROVE FindInv'
  OBVIOUS
<1>1. CASE Call
  BY <1>1, BuildOrderFind, NewOrderFind, CancelOrderFind, ModifyOrderFind DEF Call
<1>2. CASE Step
  BY <1>2, RejectFind, RestFind, BeginMatchFind, TakeBestFind, PutBackFind, FilledFind,
     RestRemainderFind DEF Step
<1>3. CASE UNCHANGED vars
  <2>1. InHand' = InHand /\ HandDistinct'
    BY <1>3, FindParts DEF vars, callerVars, InHand, HandDistinct
  <2>2. QED
    BY <1>3, <2>1, HandShrinks DEF vars, callerVars
<1>4. QED
  BY <1>1, <1>2, <1>3 DEF Next

(* An order whose entry leads to its node is what getOrder returns.        *)
LEMMA FoundByHandle == IInv /\ FindInv => Findable
<1> SUFFICES ASSUME IInv, FindInv, NEW n \in Live PROVE getOrder(Key(node[n])) = node[n]
  BY DEF Findable
<1>1. PICK s \in Sides : n \in price_sorted_[s]
  BY LiveIs
<1>2. n # NoAddr /\ id_to_iter_[s][Key(node[n])] = n
        /\ id_to_iter_[Opposite(s)][Key(node[n])] = NoAddr
  BY <1>1, FindParts, Parts DEF Placed, BookInv, BookTyped
<1>3. SideOf(Key(node[n])) = s
  BY <1>2, OppositeIs DEF SideOf, Indexed, Opposite, Sides, BUY_SIDE, SELL_SIDE
<1>4. QED
  BY <1>2, <1>3 DEF getOrder, Indexed

(* Timestamps are not shared and the index leads to every order that rests,*)
(* when no order is entered twice (it would share its key with itself).    *)
THEOREM IndexInvariance == MaxSubmits = 1 => (Spec => []FindInv)
<1> SUFFICES ASSUME MaxSubmits = 1 PROVE Spec => []FindInv
  OBVIOUS
<1>1. IInv /\ FindInv /\ [Next]_vars => FindInv'
  BY StepFind
<1>2. QED
  BY <1>1, InitFind, Invariance, PTL DEF Spec

(* getOrder finds every order that rests, though pop erases the index by a *)
(* truncated key and leaves the entry of the order it took: no caller that *)
(* enters each order once ever loses one.                                  *)
THEOREM OrdersFindable == MaxSubmits = 1 => (Spec => []Findable)
<1> SUFFICES ASSUME MaxSubmits = 1 PROVE Spec => []Findable
  OBVIOUS
<1>1. QED
  BY FoundByHandle, IndexInvariance, Invariance, PTL

-----------------------------------------------------------------------------
(* The volume of a set of nodes.                                           *)

LEMMA VolumeIsSigma ==
  ASSUME NEW h, NEW S, IsFiniteSet(S), \A n \in S : h[n].volume \in Int
  PROVE  VolumeIn(h, S) = Sigma([n \in S |-> h[n].volume], S)
<1> DEFINE f == [n \in S |-> h[n].volume]
           IsVolume(it) == it = [T \in SUBSET S |->
              IF T = {} THEN 0 ELSE h[Some(T)].volume + it[T \ {Some(T)}]]
           ot == CHOOSE it : IsVolume(it)
<1>1. VolumeIn(h, S) = ot[S]
  BY DEF VolumeIn, MapThenSumSet, MapThenFoldSet, Some
<1>2. ASSUME NEW it PROVE IsVolume(it) <=> IsSum(it, f, S)
  <2>1. \A T \in SUBSET S : T # {} => f[Some(T)] = h[Some(T)].volume
    BY SomeIn
  <2> HIDE DEF f
  <2>2. QED
    BY <2>1 DEF IsSum
<1>3. \A x \in S : f[x] \in Int
  OBVIOUS
<1> HIDE DEF f, IsVolume
<1>4. IsSum(ot, f, S)
  BY <1>2, <1>3, SumExists
<1>5. PICK it : IsSum(it, f, S) /\ Sigma(f, S) = it[S]
  BY <1>3, SigmaIs
<1> HIDE DEF ot
<1>6. it[S] = ot[S]
  BY <1>4, <1>5, SumAgrees
<1>7. QED
  BY <1>1, <1>5, <1>6 DEF f

(* The volume of nodes: none, or that of one and that of the others.       *)
LEMMA VolumeAdds ==
  ASSUME NEW h, NEW S, IsFiniteSet(S), \A n \in S : h[n].volume \in Int
  PROVE  /\ VolumeIn(h, S) \in Int
         /\ S = {} => VolumeIn(h, S) = 0
         /\ \A x \in S : VolumeIn(h, S) = h[x].volume + VolumeIn(h, S \ {x})
<1> DEFINE f == [n \in S |-> h[n].volume]
<1>1. \A x \in S : f[x] \in Int /\ f[x] = h[x].volume
  OBVIOUS
<1>2. VolumeIn(h, S) = Sigma(f, S)
  BY VolumeIsSigma
<1>3. ASSUME NEW x \in S PROVE VolumeIn(h, S \ {x}) = Sigma(f, S \ {x})
  <2> DEFINE R == S \ {x}
             g == [n \in R |-> h[n].volume]
  <2>1. IsFiniteSet(R) /\ \A n \in R : h[n].volume \in Int
    BY FS_RemoveElement
  <2>2. VolumeIn(h, R) = Sigma(g, R)
    BY <2>1, VolumeIsSigma
  <2>3. \A n \in R : g[n] \in Int /\ g[n] = f[n]
    OBVIOUS
  <2> HIDE DEF f, g, R
  <2>4. Sigma(g, R) = Sigma(f, R)
    BY <2>1, <2>3, SigmaAgrees
  <2>5. QED
    BY <2>2, <2>4 DEF R
<1> HIDE DEF f
<1>4. /\ Sigma(f, S) \in Int
      /\ S = {} => Sigma(f, S) = 0
      /\ \A x \in S : Sigma(f, S) = f[x] + Sigma(f, S \ {x})
  BY <1>1, SigmaAdds
<1>5. QED
  BY <1>1, <1>2, <1>3, <1>4

(* Nodes that do not change keep their volume.                             *)
LEMMA VolumeAgrees ==
  ASSUME NEW h, NEW g, NEW S, IsFiniteSet(S),
         \A n \in S : h[n].volume \in Int /\ g[n] = h[n]
  PROVE  VolumeIn(g, S) = VolumeIn(h, S)
<1> DEFINE a == [n \in S |-> h[n].volume]
           b == [n \in S |-> g[n].volume]
<1>1. VolumeIn(h, S) = Sigma(a, S) /\ VolumeIn(g, S) = Sigma(b, S)
  BY VolumeIsSigma
<1>2. \A n \in S : b[n] \in Int /\ b[n] = a[n]
  OBVIOUS
<1> HIDE DEF a, b
<1>3. QED
  BY <1>1, <1>2, SigmaAgrees

(* The volume grows by that of a node more.                                *)
LEMMA OneMore ==
  ASSUME NEW h, NEW g, NEW S, IsFiniteSet(S), NEW a, a \notin S,
         \A n \in S : h[n].volume \in Int /\ g[n] = h[n], g[a].volume \in Int
  PROVE  /\ IsFiniteSet(S \cup {a})
         /\ VolumeIn(g, S \cup {a}) = VolumeIn(h, S) + g[a].volume
<1> DEFINE R == S \cup {a}
<1>1. IsFiniteSet(R) /\ a \in R /\ R \ {a} = S
  BY FS_AddElement
<1>2. \A n \in R : g[n].volume \in Int
  OBVIOUS
<1> HIDE DEF R
<1>3. VolumeIn(g, R) = g[a].volume + VolumeIn(g, S)
  BY <1>1, <1>2, VolumeAdds
<1>4. VolumeIn(g, S) = VolumeIn(h, S) /\ VolumeIn(h, S) \in Int
  BY VolumeAgrees, VolumeAdds
<1>5. QED
  BY <1>1, <1>3, <1>4 DEF R

-----------------------------------------------------------------------------
(* The volume of a queue, and of one price level of it.                    *)

If(c, v) == IF c THEN v ELSE 0

(* Volumes of queues and of levels are integers.                           *)
LEMMA VolumesTyped ==
  ASSUME BookInv, QueuesFinite, NEW s \in Sides
  PROVE  /\ \A n \in price_sorted_[s] : node[n].volume \in Int
         /\ Volume(s) \in Int
         /\ \A p : /\ IsFiniteSet(Level(p, s)) /\ Level(p, s) \subseteq price_sorted_[s]
                   /\ LevelVolume(p, s) \in Int
<1>1. \A n \in price_sorted_[s] : node[n].volume \in Int
  BY DEF BookInv, QueuesValid, Orders
<1>2. IsFiniteSet(price_sorted_[s])
  BY DEF QueuesFinite
<1>3. ASSUME NEW p PROVE IsFiniteSet(Level(p, s)) /\ Level(p, s) \subseteq price_sorted_[s]
  BY <1>2, FS_Subset DEF Level
<1>4. ASSUME NEW p PROVE LevelVolume(p, s) \in Int
  BY <1>1, <1>3, VolumeAdds DEF LevelVolume
<1>5. QED
  BY <1>1, <1>2, <1>3, <1>4, VolumeAdds DEF Volume

(* push adds the volume of the order, to its side and to its level.        *)
LEMMA PushVolume ==
  ASSUME BookInv, QueuesFinite, NEW s \in Sides, NEW o \in Orders,
         isValid(o), Push(s, o)
  PROVE  /\ QueuesFinite'
         /\ \A r \in Sides : Volume(r)' = Volume(r) + If(r = s, o.volume)
         /\ \A r \in Sides : \A p :
              LevelVolume(p, r)' = LevelVolume(p, r) + If(r = s /\ p = o.price, o.volume)
<1>1. PICK a \in Addrs \ Live :
        /\ node' = [node EXCEPT ![a] = o]
        /\ price_sorted_' = [price_sorted_ EXCEPT ![s] = @ \cup {a}]
  BY DEF Push, Insert
<1>2. o.volume \in Int /\ node'[a] = o
  BY <1>1 DEF Orders, BookInv, BookTyped
<1> SUFFICES ASSUME NEW r \in Sides
             PROVE  /\ IsFiniteSet(price_sorted_[r])'
                    /\ Volume(r)' = Volume(r) + If(r = s, o.volume)
                    /\ \A p : LevelVolume(p, r)' =
                         LevelVolume(p, r) + If(r = s /\ p = o.price, o.volume)
  BY DEF QueuesFinite
<1>3. /\ a \notin price_sorted_[r]
      /\ \A n \in price_sorted_[r] : node'[n] = node[n] /\ node[n].volume \in Int
  BY <1>1, VolumesTyped DEF Live, Sides, BookInv, BookTyped
<1>4. IsFiniteSet(price_sorted_[r])
  BY DEF QueuesFinite
<1>5. price_sorted_'[r] = IF r = s THEN price_sorted_[r] \cup {a} ELSE price_sorted_[r]
  BY <1>1 DEF BookInv, BookTyped
<1>6. IsFiniteSet(price_sorted_'[r]) /\ Volume(r)' = Volume(r) + If(r = s, o.volume)
  <2>1. CASE r = s
    BY <1>2, <1>3, <1>4, <1>5, <2>1, OneMore DEF Volume, If
  <2>2. CASE r # s
    BY <1>3, <1>4, <1>5, <2>2, VolumeAgrees, VolumesTyped DEF Volume, If
  <2>3. QED
    BY <2>1, <2>2
<1>7. ASSUME NEW p
      PROVE  LevelVolume(p, r)' =
               LevelVolume(p, r) + If(r = s /\ p = o.price, o.volume)
  <2>1. Level(p, r)' = IF r = s /\ p = o.price THEN Level(p, r) \cup {a} ELSE Level(p, r)
    BY <1>2, <1>3, <1>5 DEF Level
  <2>2. /\ a \notin Level(p, r) /\ IsFiniteSet(Level(p, r))
        /\ \A n \in Level(p, r) : node'[n] = node[n] /\ node[n].volume \in Int
    BY <1>3, VolumesTyped
  <2>3. CASE r = s /\ p = o.price
    BY <1>2, <2>1, <2>2, <2>3, OneMore DEF LevelVolume, If
  <2>4. CASE ~(r = s /\ p = o.price)
    BY <2>1, <2>2, <2>4, VolumeAgrees, VolumesTyped DEF LevelVolume, If
  <2>5. QED
    BY <2>3, <2>4
<1>8. QED
  BY <1>6, <1>7

(* pop and remove take the volume of the order away.                       *)
VolumeLeaves(s, a) ==
  /\ QueuesFinite'
  /\ \A r \in Sides : Volume(r)' = Volume(r) - If(r = s, node[a].volume)
  /\ \A r \in Sides : \A p : LevelVolume(p, r)' = LevelVolume(p, r)
                       - If(r = s /\ p = node[a].price, node[a].volume)

(* What leaves a queue takes its volume out of it and of its level.        *)
LEMMA TakeOutVolume ==
  ASSUME BookInv, QueuesFinite, NEW s \in Sides, NEW a \in price_sorted_[s],
         price_sorted_' = [price_sorted_ EXCEPT ![s] = @ \ {a}],
         node' = [node EXCEPT ![a] = Freed]
  PROVE  VolumeLeaves(s, a)
<1>h. PICK g : g = node'
  OBVIOUS
<1>1. node[a].volume \in Int
  BY VolumesTyped
<1> SUFFICES ASSUME NEW r \in Sides
             PROVE  /\ IsFiniteSet(price_sorted_[r])'
                    /\ Volume(r)' = Volume(r) - If(r = s, node[a].volume)
                    /\ \A p : LevelVolume(p, r)' = LevelVolume(p, r)
                         - If(r = s /\ p = node[a].price, node[a].volume)
  BY DEF QueuesFinite, VolumeLeaves
<1>2. r # s => a \notin price_sorted_[r]
  BY OneQueue DEF BookInv
<1>3. \A n \in price_sorted_[r] : n # a => g[n] = node[n]
  BY <1>h DEF BookInv, BookTyped
<1>4. IsFiniteSet(price_sorted_[r]) /\ \A n \in price_sorted_[r] : node[n].volume \in Int
  BY VolumesTyped DEF QueuesFinite
<1>5. price_sorted_'[r] = IF r = s THEN price_sorted_[r] \ {a} ELSE price_sorted_[r]
  BY DEF BookInv, BookTyped
<1>6. IsFiniteSet(price_sorted_'[r]) /\ Volume(r)' = Volume(r) - If(r = s, node[a].volume)
  <2>1. CASE r = s
    <3>1. PICK S, R : S = price_sorted_[r] /\ R = price_sorted_'[r]
      OBVIOUS
    <3>2. /\ IsFiniteSet(S) /\ a \in S /\ R = S \ {a}
          /\ \A n \in S : node[n].volume \in Int
          /\ \A n \in R : g[n] = node[n]
      BY <1>3, <1>4, <1>5, <2>1, <3>1
    <3>3. /\ IsFiniteSet(R) /\ VolumeIn(g, R) \in Int
          /\ VolumeIn(node, S) = VolumeIn(g, R) + node[a].volume
      <4>1. IsFiniteSet(R) /\ \A n \in R : node[n].volume \in Int /\ g[n] = node[n]
        BY <3>2, FS_RemoveElement
      <4>2. VolumeIn(node, S) = node[a].volume + VolumeIn(node, R)
        BY <3>2, VolumeAdds
      <4>3. VolumeIn(g, R) = VolumeIn(node, R) /\ VolumeIn(node, R) \in Int
        BY <4>1, VolumeAgrees, VolumeAdds
      <4>4. QED
        BY <1>1, <4>1, <4>2, <4>3
    <3>4. QED
      BY <1>h, <1>1, <2>1, <3>1, <3>3 DEF Volume, If
  <2>2. CASE r # s
    <3>1. VolumeIn(g, price_sorted_[r]) = VolumeIn(node, price_sorted_[r])
      BY <1>2, <1>3, <1>4, <2>2, VolumeAgrees
    <3>2. QED
      BY <1>h, <1>4, <1>5, <2>2, <3>1, VolumesTyped DEF Volume, If
  <2>3. QED
    BY <2>1, <2>2
<1>7. ASSUME NEW p
      PROVE  LevelVolume(p, r)' = LevelVolume(p, r)
               - If(r = s /\ p = node[a].price, node[a].volume)
  <2>1. IsFiniteSet(Level(p, r)) /\ \A n \in Level(p, r) : node[n].volume \in Int
    BY <1>4, VolumesTyped
  <2>2. CASE r = s /\ p = node[a].price
    <3>1. PICK S, R : S = Level(p, r) /\ R = Level(p, r)'
      OBVIOUS
    <3>2. a \in S /\ R = S \ {a} /\ \A n \in R : g[n] = node[n]
      BY <1>h, <1>3, <1>5, <2>2, <3>1 DEF Level
    <3>3. /\ VolumeIn(g, R) \in Int
          /\ VolumeIn(node, S) = VolumeIn(g, R) + node[a].volume
      <4>1. IsFiniteSet(R) /\ \A n \in R : node[n].volume \in Int /\ g[n] = node[n]
        BY <2>1, <3>1, <3>2, FS_RemoveElement
      <4>2. VolumeIn(node, S) = node[a].volume + VolumeIn(node, R)
        BY <2>1, <3>1, <3>2, VolumeAdds
      <4>3. VolumeIn(g, R) = VolumeIn(node, R) /\ VolumeIn(node, R) \in Int
        BY <4>1, VolumeAgrees, VolumeAdds
      <4>4. QED
        BY <1>1, <4>1, <4>2, <4>3
    <3>4. QED
      BY <1>h, <1>1, <2>2, <3>1, <3>3 DEF LevelVolume, If
  <2>3. CASE ~(r = s /\ p = node[a].price)
    <3>1. Level(p, r)' = Level(p, r) /\ a \notin Level(p, r)
      BY <1>h, <1>2, <1>3, <1>5, <2>3 DEF Level
    <3>2. \A n \in Level(p, r) : g[n] = node[n]
      BY <1>3, <3>1 DEF Level
    <3>3. VolumeIn(g, Level(p, r)) = VolumeIn(node, Level(p, r))
      BY <2>1, <3>2, VolumeAgrees
    <3>4. QED
      BY <1>h, <2>3, <3>1, <3>3, VolumesTyped DEF LevelVolume, If
  <2>4. QED
    BY <2>2, <2>3
<1>8. QED
  BY <1>6, <1>7

-----------------------------------------------------------------------------
(* The calls and their steps keep VolumeInv.                               *)

LEMMA VolumesStay ==
  ASSUME QueuesFinite, UNCHANGED <<node, price_sorted_>>
  PROVE  /\ QueuesFinite'
         /\ \A r \in Sides : Volume(r)' = Volume(r)
         /\ \A r \in Sides : \A p : LevelVolume(p, r)' = LevelVolume(p, r)
BY DEF QueuesFinite, Volume, LevelVolume, Level

(* VolumeInv holds at the start.                                           *)
LEMMA InitVolume == Init => VolumeInv
<1> SUFFICES ASSUME Init PROVE VolumeInv
  OBVIOUS
<1>1. QueuesFinite
  BY FS_EmptySet DEF Init, QueuesFinite
<1>2. \A s \in Sides : Volume(s) = 0 /\ \A p : LevelVolume(p, s) = 0
  <2> SUFFICES ASSUME NEW s \in Sides PROVE Volume(s) = 0 /\ \A p : LevelVolume(p, s) = 0
    OBVIOUS
  <2>1. price_sorted_[s] = {} /\ \A p : Level(p, s) = {}
    BY DEF Init, Level
  <2>2. VolumeIn(node, {}) = 0
    BY FS_EmptySet, VolumeAdds
  <2>3. QED
    BY <2>1, <2>2 DEF Volume, LevelVolume
<1>3. \A s \in Sides : InFlight(s) = 0 /\ entered[s] = 0 /\ cancelled[s] = 0
  BY DEF Init, InFlight
<1>4. Conservation
  BY <1>2, <1>3 DEF Conservation, Init
<1>5. AggregatesExactUntilTrade
  BY <1>2 DEF AggregatesExactUntilTrade, Init
<1>6. MatchTrades
  BY DEF MatchTrades, Init
<1>7. QED
  BY <1>1, <1>4, <1>5, <1>6 DEF VolumeInv

(* A step that moves no volume.                                            *)
LEMMA NothingMoves ==
  ASSUME VolumeInv, UNCHANGED <<node, price_sorted_, volumes_, flowVars>>,
         \A r \in Sides : InFlight(r)' = InFlight(r), MatchTrades'
  PROVE  VolumeInv'
<1>1. /\ QueuesFinite'
      /\ \A r \in Sides : Volume(r)' = Volume(r)
      /\ \A r \in Sides : \A p : LevelVolume(p, r)' = LevelVolume(p, r)
  BY VolumesStay DEF VolumeInv
<1>2. Conservation'
  BY <1>1 DEF VolumeInv, Conservation, flowVars
<1>3. AggregatesExactUntilTrade'
  BY <1>1 DEF VolumeInv, AggregatesExactUntilTrade, flowVars
<1>4. QED
  BY <1>1, <1>2, <1>3 DEF VolumeInv

(* Calls that begin or end with nothing in the running call's hands.       *)
LEMMA QuietVolume ==
  ASSUME VolumeInv, UNCHANGED <<node, price_sorted_, volumes_, flowVars>>,
         pc \in {"idle", "enter", "corrupt"}, pc' \in {"idle", "enter", "corrupt"}
  PROVE  VolumeInv'
<1>1. \A r \in Sides : InFlight(r)' = InFlight(r)
  BY DEF InFlight
<1>2. MatchTrades'
  BY DEF MatchTrades
<1>3. QED
  BY <1>1, <1>2, NothingMoves

(* BuildOrder keeps VolumeInv.                                             *)
LEMMA BuildOrderVolume ==
  ASSUME IInv, VolumeInv, NEW id \in OrderIds, NEW p \in Prices, NEW v \in Volumes,
         NEW s \in Sides, NEW c \in Clients, BuildOrder(id, p, v, s, c)
  PROVE  VolumeInv'
<1>1. UNCHANGED <<bookVars, volumes_, pc, incoming, popped, flowVars>>
  BY DEF BuildOrder
<1>2. \A r \in Sides : InFlight(r)' = InFlight(r)
  BY <1>1 DEF InFlight
<1>3. MatchTrades'
  BY <1>1 DEF VolumeInv, MatchTrades, canCross, IsTop, priceCrosses, Precedes, bookVars,
              flowVars, isValid
<1>4. QED
  BY <1>1, <1>2, <1>3, NothingMoves DEF bookVars

(* NewOrder keeps VolumeInv.                                               *)
LEMMA NewOrderVolume ==
  ASSUME IInv, VolumeInv, NEW m \in made, NewOrder(m[1], m[2]) PROVE VolumeInv'
BY QuietVolume DEF NewOrder, Enter, bookVars

(* Reject keeps VolumeInv.                                                 *)
LEMMA RejectVolume == ASSUME IInv, VolumeInv, Reject PROVE VolumeInv'
BY QuietVolume DEF Reject, Return, bookVars

(* RejectCall keeps VolumeInv.                                             *)
LEMMA RejectCallVolume ==
  ASSUME IInv, VolumeInv, pc = "idle", RejectCall PROVE VolumeInv'
BY QuietVolume DEF RejectCall, Return, bookVars

(* Corrupt keeps VolumeInv.                                                *)
LEMMA CorruptVolume ==
  ASSUME IInv, VolumeInv, pc = "idle", NEW s \in Sides, NEW k \in Keys, Corrupt(s, k)
  PROVE  VolumeInv'
BY QuietVolume DEF Corrupt, bookVars

(* The order is spent: what the call still holds of it is nothing.         *)
LEMMA FilledVolume == ASSUME IInv, VolumeInv, Filled PROVE VolumeInv'
<1>1. \A r \in Sides : InFlight(r)' = 0 /\ InFlight(r) = 0
  BY DEF Filled, Return, InFlight
<1>2. MatchTrades'
  BY DEF Filled, Return, MatchTrades
<1>3. QED
  BY <1>1, <1>2, NothingMoves DEF Filled, bookVars

(* What is counted is integers.                                            *)
LEMMA FlowTyped ==
  IInv => /\ traded \in Nat
          /\ \A r \in Sides : entered[r] \in Int /\ cancelled[r] \in Int
          /\ \A p \in Prices, r \in Sides : volumes_[<<p, r>>] \in Int
          /\ pc \in {"enter", "match", "repush"} =>
               /\ incoming \in Orders /\ incoming.side \in Sides
               /\ incoming.volume \in Nat /\ incoming.price \in Prices
          /\ pc = "repush" => popped \in Orders /\ popped.volume \in Nat
BY DEF IInv, TypeOK, CallInv, Orders

(* The volume of the order that comes in is from now on in the loop.       *)
LEMMA BeginMatchVolume == ASSUME IInv, VolumeInv, BeginMatch PROVE VolumeInv'
<1>1. /\ pc = "enter" /\ pc' = "match" /\ isValid(incoming) /\ canCross(incoming)
      /\ entered' = [entered EXCEPT ![incoming.side] = @ + incoming.volume]
      /\ UNCHANGED <<node, price_sorted_, volumes_, incoming, popped, cancelled, traded>>
  BY DEF BeginMatch, bookVars
<1>2. /\ QueuesFinite'
      /\ \A r \in Sides : Volume(r)' = Volume(r)
      /\ \A r \in Sides : \A p : LevelVolume(p, r)' = LevelVolume(p, r)
  BY <1>1, VolumesStay DEF VolumeInv
<1>3. Conservation'
  <2> SUFFICES ASSUME NEW r \in Sides
               PROVE  entered'[r] = Volume(r)' + InFlight(r)' + traded' + cancelled'[r]
    BY DEF Conservation
  <2>1. /\ entered[r] = Volume(r) + InFlight(r) + traded + cancelled[r]
        /\ Volume(r) \in Int
    BY VolumesTyped, Parts DEF VolumeInv, Conservation
  <2>2. InFlight(r) = 0 /\ InFlight(r)' = If(r = incoming.side, incoming.volume)
    BY <1>1, FlowTyped DEF InFlight, If
  <2>3. entered'[r] = entered[r] + If(r = incoming.side, incoming.volume)
    BY <1>1, FlowTyped DEF IInv, TypeOK, If
  <2>4. If(r = incoming.side, incoming.volume) \in Int
    BY <1>1, FlowTyped DEF If
  <2>5. QED
    BY <1>1, <1>2, <2>1, <2>2, <2>3, <2>4, FlowTyped
<1>4. AggregatesExactUntilTrade'
  BY <1>1, <1>2 DEF VolumeInv, AggregatesExactUntilTrade
<1>5. MatchTrades'
  BY <1>1 DEF MatchTrades, canCross, IsTop, priceCrosses, Precedes, isValid
<1>6. QED
  BY <1>2, <1>3, <1>4, <1>5 DEF VolumeInv

(* Rest keeps VolumeInv.                                                   *)
LEMMA RestVolume == ASSUME IInv, VolumeInv, Rest PROVE VolumeInv'
<1>1. /\ pc = "enter" /\ pc' = "idle" /\ Push(incoming.side, incoming)
      /\ isValid(incoming)
      /\ volumes_' = [volumes_ EXCEPT ![<<incoming.price, incoming.side>>] =
                        @ + incoming.volume]
      /\ entered' = [entered EXCEPT ![incoming.side] = @ + incoming.volume]
      /\ UNCHANGED <<cancelled, traded>>
  BY DEF Rest, Return
<1>2. /\ incoming \in Orders /\ incoming.side \in Sides
      /\ incoming.volume \in Int /\ incoming.price \in Prices
  BY <1>1, FlowTyped
<1>3. /\ QueuesFinite'
      /\ \A r \in Sides : Volume(r)' = Volume(r) + If(r = incoming.side, incoming.volume)
      /\ \A r \in Sides : \A p : LevelVolume(p, r)' =
           LevelVolume(p, r) + If(r = incoming.side /\ p = incoming.price, incoming.volume)
  BY <1>1, <1>2, PushVolume, Parts DEF VolumeInv
<1>4. Conservation'
  <2> SUFFICES ASSUME NEW r \in Sides
               PROVE  entered'[r] = Volume(r)' + InFlight(r)' + traded' + cancelled'[r]
    BY DEF Conservation
  <2>1. /\ entered[r] = Volume(r) + InFlight(r) + traded + cancelled[r]
        /\ Volume(r) \in Int
    BY VolumesTyped, Parts DEF VolumeInv, Conservation
  <2>2. InFlight(r) = 0 /\ InFlight(r)' = 0
    BY <1>1 DEF InFlight
  <2>3. entered'[r] = entered[r] + If(r = incoming.side, incoming.volume)
    BY <1>1, <1>2, FlowTyped DEF IInv, TypeOK, If
  <2>4. If(r = incoming.side, incoming.volume) \in Int
    BY <1>2 DEF If
  <2>5. QED
    BY <1>1, <1>3, <2>1, <2>2, <2>3, <2>4, FlowTyped
<1>5. AggregatesExactUntilTrade'
  <2> SUFFICES ASSUME traded' = 0, NEW p \in Prices, NEW r \in Sides
               PROVE  volumes_'[<<p, r>>] = LevelVolume(p, r)'
    BY DEF AggregatesExactUntilTrade
  <2>1. volumes_[<<p, r>>] = LevelVolume(p, r) /\ LevelVolume(p, r) \in Int
    BY <1>1, VolumesTyped, Parts DEF VolumeInv, AggregatesExactUntilTrade
  <2>2. volumes_'[<<p, r>>] = volumes_[<<p, r>>] +
          If(r = incoming.side /\ p = incoming.price, incoming.volume)
    <3>1. volumes_ \in [Prices \X Sides -> Int] /\ <<p, r>> \in Prices \X Sides
      BY DEF IInv, TypeOK
    <3>2. <<p, r>> = <<incoming.price, incoming.side>>
            <=> r = incoming.side /\ p = incoming.price
      OBVIOUS
    <3>3. CASE <<p, r>> = <<incoming.price, incoming.side>>
      BY <1>1, <3>1, <3>2, <3>3 DEF If
    <3>4. CASE <<p, r>> # <<incoming.price, incoming.side>>
      <4>1. volumes_'[<<p, r>>] = volumes_[<<p, r>>] /\ volumes_[<<p, r>>] \in Int
        BY <1>1, <3>1, <3>4
      <4>2. QED
        BY <3>2, <3>4, <4>1 DEF If
    <3>5. QED
      BY <3>3, <3>4
  <2>3. QED
    BY <1>3, <2>1, <2>2
<1>6. MatchTrades'
  BY <1>1 DEF MatchTrades
<1>7. QED
  BY <1>3, <1>4, <1>5, <1>6 DEF VolumeInv

(* What is left rests; the aggregates are given up, something has traded.  *)
LEMMA RestRemainderVolume == ASSUME IInv, VolumeInv, RestRemainder PROVE VolumeInv'
<1>1. /\ pc = "match" /\ pc' = "idle" /\ Push(incoming.side, incoming)
      /\ cannotCross(incoming)
      /\ UNCHANGED <<volumes_, entered, cancelled, traded>> /\ isValid(incoming)
  BY RestRemainderValid DEF RestRemainder, Return, flowVars
<1>2. incoming \in Orders /\ incoming.side \in Sides /\ incoming.volume \in Int
  BY <1>1, FlowTyped
<1>3. /\ QueuesFinite'
      /\ \A r \in Sides : Volume(r)' = Volume(r) + If(r = incoming.side, incoming.volume)
  BY <1>1, <1>2, PushVolume, Parts DEF VolumeInv
<1>4. Conservation'
  <2> SUFFICES ASSUME NEW r \in Sides
               PROVE  entered'[r] = Volume(r)' + InFlight(r)' + traded' + cancelled'[r]
    BY DEF Conservation
  <2>1. /\ entered[r] = Volume(r) + InFlight(r) + traded + cancelled[r]
        /\ Volume(r) \in Int
    BY VolumesTyped, Parts DEF VolumeInv, Conservation
  <2>2. InFlight(r) = If(r = incoming.side, incoming.volume) /\ InFlight(r)' = 0
    BY <1>1, <1>2 DEF InFlight, If
  <2>3. If(r = incoming.side, incoming.volume) \in Int
    BY <1>2 DEF If
  <2>4. QED
    BY <1>1, <1>3, <2>1, <2>2, <2>3, FlowTyped
<1>5. traded # 0
  <2> SUFFICES ASSUME canCross(incoming) PROVE FALSE
    BY <1>1 DEF VolumeInv, MatchTrades
  <2>1. QED
    BY <1>1, <1>2, NothingCrosses DEF canCross, IInv
<1>6. AggregatesExactUntilTrade'
  BY <1>1, <1>5 DEF AggregatesExactUntilTrade
<1>7. MatchTrades'
  BY <1>1 DEF MatchTrades
<1>8. QED
  BY <1>3, <1>4, <1>6, <1>7 DEF VolumeInv

(* One trade: t leaves the incoming order and t leaves the one popped, and *)
(* what is left of that is in the running call's hands.                    *)
LEMMA TakeBestVolume == ASSUME IInv, VolumeInv, TakeBest PROVE VolumeInv'
<1> DEFINE opp == Opposite(incoming.side)
<1>1. /\ pc = "match" /\ pc' = "repush" /\ isValid(incoming)
      /\ UNCHANGED <<volumes_, entered, cancelled>>
  BY DEF TakeBest
<1>2. /\ incoming \in Orders /\ incoming.side \in Sides /\ incoming.volume \in Nat
      /\ opp \in Sides /\ opp # incoming.side
  BY <1>1, FlowTyped DEF Opposite, Sides, BUY_SIDE, SELL_SIDE
<1>3. PICK n \in price_sorted_[opp] :
        /\ Pop(opp, n)
        /\ incoming' = [incoming EXCEPT !.volume =
                          @ - TradeVolume(incoming, node[n])]
        /\ popped' = [node[n] EXCEPT !.volume =
                        @ - TradeVolume(incoming, node[n])]
        /\ traded' = traded + TradeVolume(incoming, node[n])
  BY DEF TakeBest
<1>4. node[n] \in Orders /\ isValid(node[n]) /\ node[n].side = opp /\ node[n].volume \in Nat
  BY <1>2, <1>3 DEF IInv, QueuesValid, Orders
<1>5. PICK t : t = TradeVolume(incoming, node[n])
  OBVIOUS
<1>6. t \in Nat /\ t > 0
  BY <1>1, <1>2, <1>4, <1>5 DEF TradeVolume, isValid
<1>7. /\ incoming'.side = incoming.side /\ incoming'.volume = incoming.volume - t
      /\ popped'.side = opp /\ popped'.volume = node[n].volume - t
      /\ traded' = traded + t
  BY <1>2, <1>3, <1>4, <1>5 DEF Orders
<1>8. /\ QueuesFinite'
      /\ \A r \in Sides : Volume(r)' = Volume(r) - If(r = opp, node[n].volume)
  <2>1. /\ BookInv /\ QueuesFinite
        /\ price_sorted_' = [price_sorted_ EXCEPT ![opp] = @ \ {n}]
        /\ node' = [node EXCEPT ![n] = Freed]
    BY <1>3, Parts DEF VolumeInv, Pop
  <2> HIDE DEF opp
  <2>2. VolumeLeaves(opp, n)
    BY <1>2, <1>3, <2>1, TakeOutVolume
  <2>3. QED
    BY <2>2 DEF VolumeLeaves
<1>9. Conservation'
  <2> SUFFICES ASSUME NEW r \in Sides
               PROVE  entered'[r] = Volume(r)' + InFlight(r)' + traded' + cancelled'[r]
    BY DEF Conservation
  <2>1. /\ entered[r] = Volume(r) + InFlight(r) + traded + cancelled[r]
        /\ Volume(r) \in Int
    BY VolumesTyped, Parts DEF VolumeInv, Conservation
  <2>2. CASE r = incoming.side
    <3>1. InFlight(r) = incoming.volume /\ InFlight(r)' = incoming.volume - t
      BY <1>1, <1>2, <1>6, <1>7, <2>2 DEF InFlight
    <3>2. Volume(r)' = Volume(r)
      BY <1>2, <1>8, <2>1, <2>2 DEF If
    <3>3. QED
      BY <1>1, <1>2, <1>6, <1>7, <2>1, <3>1, <3>2, FlowTyped
  <2>3. CASE r = opp
    <3>1. InFlight(r) = 0 /\ InFlight(r)' = node[n].volume - t
      BY <1>1, <1>2, <1>4, <1>6, <1>7, <2>3 DEF InFlight
    <3>2. Volume(r)' = Volume(r) - node[n].volume
      BY <1>8, <2>3 DEF If
    <3>3. QED
      BY <1>1, <1>4, <1>6, <1>7, <2>1, <3>1, <3>2, FlowTyped
  <2>4. QED
    BY <1>2, <2>2, <2>3 DEF Opposite, Sides
<1>10. traded' > 0
  BY <1>6, <1>7, FlowTyped
<1>11. AggregatesExactUntilTrade'
  BY <1>10 DEF AggregatesExactUntilTrade
<1>12. MatchTrades'
  BY <1>1, <1>10 DEF MatchTrades
<1>13. QED
  BY <1>8, <1>9, <1>11, <1>12 DEF VolumeInv

(* The popped order goes back with what it has left, or has nothing left.  *)
LEMMA PutBackVolume == ASSUME IInv, VolumeInv, PutBack PROVE VolumeInv'
<1> DEFINE opp == Opposite(incoming.side)
<1>1. /\ pc = "repush" /\ pc' = "match"
      /\ UNCHANGED <<volumes_, incoming, entered, cancelled, traded>>
  BY DEF PutBack, flowVars
<1>2. /\ incoming \in Orders /\ incoming.side \in Sides /\ incoming.volume \in Nat
      /\ opp \in Sides /\ opp # incoming.side
      /\ popped \in Orders /\ popped.volume \in Nat /\ popped.side = opp
      /\ popped.price # 0 /\ popped.client # NoClient
  BY <1>1, FlowTyped DEF Opposite, Sides, BUY_SIDE, SELL_SIDE, IInv, CallInv
<1>3. /\ QueuesFinite'
      /\ \A r \in Sides : Volume(r)' = Volume(r) + If(r = opp, popped.volume)
  <2>1. CASE isValid(popped)
    BY <1>2, <2>1, PushVolume, Parts DEF PutBack, VolumeInv
  <2>2. CASE ~isValid(popped)
    <3>1. popped.volume = 0
      BY <1>2, <2>2 DEF isValid
    <3>2. QueuesFinite' /\ \A r \in Sides : Volume(r)' = Volume(r) /\ Volume(r) \in Int
      BY <2>2, VolumesStay, VolumesTyped, Parts DEF PutBack, bookVars, VolumeInv
    <3>3. QED
      BY <3>1, <3>2 DEF If
  <2>3. QED
    BY <2>1, <2>2
<1>4. Conservation'
  <2> SUFFICES ASSUME NEW r \in Sides
               PROVE  entered'[r] = Volume(r)' + InFlight(r)' + traded' + cancelled'[r]
    BY DEF Conservation
  <2>1. /\ entered[r] = Volume(r) + InFlight(r) + traded + cancelled[r]
        /\ Volume(r) \in Int
    BY VolumesTyped, Parts DEF VolumeInv, Conservation
  <2>2. InFlight(r) = If(r = incoming.side, incoming.volume) + If(r = opp, popped.volume)
    BY <1>1, <1>2 DEF InFlight, If
  <2>3. InFlight(r)' = If(r = incoming.side, incoming.volume)
    BY <1>1, <1>2 DEF InFlight, If
  <2>4. /\ If(r = incoming.side, incoming.volume) \in Int
        /\ If(r = opp, popped.volume) \in Int
    BY <1>2 DEF If
  <2>5. QED
    BY <1>1, <1>3, <2>1, <2>2, <2>3, <2>4, FlowTyped
<1>5. traded > 0
  BY <1>1 DEF VolumeInv, MatchTrades
<1>6. AggregatesExactUntilTrade' /\ MatchTrades'
  BY <1>1, <1>5 DEF AggregatesExactUntilTrade, MatchTrades
<1>7. QED
  BY <1>3, <1>4, <1>6 DEF VolumeInv

(* The volume of the order a handle leads to moves from its queue, and out *)
(* of its level, to what was cancelled - whosever order it is.             *)
LEMMA TakeVolume ==
  ASSUME IInv, VolumeInv, pc = "idle", pc' \in {"idle", "enter"},
         NEW s \in Sides, NEW k \in Keys, Take(s, k)
  PROVE  VolumeInv'
<1>1. PICK a \in price_sorted_[s] : a = id_to_iter_[s][k]
  BY DEF Take
<1>2. PICK o : o = node[a]
  OBVIOUS
<1>3. /\ price_sorted_' = [price_sorted_ EXCEPT ![s] = @ \ {a}]
      /\ node' = [node EXCEPT ![a] = Freed]
      /\ volumes_' = [volumes_ EXCEPT ![<<o.price, s>>] = @ - o.volume]
      /\ cancelled' = [cancelled EXCEPT ![s] = @ + o.volume]
      /\ UNCHANGED <<entered, traded>>
  BY <1>1, <1>2 DEF Take, RemoveOrder
<1>4. o \in Orders /\ o.volume \in Nat /\ o.price \in Prices
  BY <1>1, <1>2 DEF IInv, QueuesValid, Orders
<1>5. /\ QueuesFinite'
      /\ \A r \in Sides : Volume(r)' = Volume(r) - If(r = s, o.volume)
      /\ \A r \in Sides : \A p :
           LevelVolume(p, r)' = LevelVolume(p, r) - If(r = s /\ p = o.price, o.volume)
  <2>1. BookInv /\ QueuesFinite
    BY Parts DEF VolumeInv
  <2>2. VolumeLeaves(s, a)
    BY <1>3, <2>1, TakeOutVolume
  <2>3. QED
    BY <1>2, <2>2 DEF VolumeLeaves
<1>6. Conservation'
  <2> SUFFICES ASSUME NEW r \in Sides
               PROVE  entered'[r] = Volume(r)' + InFlight(r)' + traded' + cancelled'[r]
    BY DEF Conservation
  <2>1. /\ entered[r] = Volume(r) + InFlight(r) + traded + cancelled[r]
        /\ Volume(r) \in Int
    BY VolumesTyped, Parts DEF VolumeInv, Conservation
  <2>2. InFlight(r) = 0 /\ InFlight(r)' = 0
    BY DEF InFlight
  <2>3. cancelled'[r] = cancelled[r] + If(r = s, o.volume) /\ If(r = s, o.volume) \in Int
    BY <1>3, <1>4, FlowTyped DEF IInv, TypeOK, If
  <2>4. QED
    BY <1>3, <1>5, <2>1, <2>2, <2>3, FlowTyped
<1>7. AggregatesExactUntilTrade'
  <2> SUFFICES ASSUME traded' = 0, NEW p \in Prices, NEW r \in Sides
               PROVE  volumes_'[<<p, r>>] = LevelVolume(p, r)'
    BY DEF AggregatesExactUntilTrade
  <2>1. volumes_[<<p, r>>] = LevelVolume(p, r) /\ LevelVolume(p, r) \in Int
    BY <1>3, VolumesTyped, Parts DEF VolumeInv, AggregatesExactUntilTrade
  <2>2. volumes_'[<<p, r>>] = volumes_[<<p, r>>] - If(r = s /\ p = o.price, o.volume)
    <3>1. volumes_ \in [Prices \X Sides -> Int] /\ <<p, r>> \in Prices \X Sides
      BY DEF IInv, TypeOK
    <3>2. <<p, r>> = <<o.price, s>> <=> r = s /\ p = o.price
      OBVIOUS
    <3>3. CASE <<p, r>> = <<o.price, s>>
      BY <1>3, <3>1, <3>2, <3>3 DEF If
    <3>4. CASE <<p, r>> # <<o.price, s>>
      <4>1. volumes_'[<<p, r>>] = volumes_[<<p, r>>] /\ volumes_[<<p, r>>] \in Int
        BY <1>3, <3>1, <3>4
      <4>2. QED
        BY <3>2, <3>4, <4>1 DEF If
    <3>5. QED
      BY <3>3, <3>4
  <2>3. QED
    BY <1>5, <2>1, <2>2
<1>8. MatchTrades'
  BY DEF MatchTrades
<1>9. QED
  BY <1>5, <1>6, <1>7, <1>8 DEF VolumeInv

(* CancelOrder keeps VolumeInv.                                            *)
LEMMA CancelOrderVolume ==
  ASSUME IInv, VolumeInv, NEW k \in Keys, CancelOrder(k) PROVE VolumeInv'
<1>1. pc = "idle" /\ SideOf(k) \in Sides
  BY DEF CancelOrder, SideOf, Sides
<1>2. CASE Take(SideOf(k), k) /\ Return({"CANCELLED"})
  BY <1>1, <1>2, TakeVolume DEF Return
<1>3. QED
  BY <1>1, <1>2, RejectCallVolume, CorruptVolume DEF CancelOrder

(* ModifyOrder keeps VolumeInv.                                            *)
LEMMA ModifyOrderVolume ==
  ASSUME IInv, VolumeInv, NEW k \in Keys, ModifyOrder(k) PROVE VolumeInv'
<1>1. pc = "idle" /\ BUY_SIDE \in Sides
  BY DEF ModifyOrder, Sides
<1>2. CASE Take(BUY_SIDE, k) /\ pc' = "enter"
  BY <1>1, <1>2, TakeVolume
<1>3. QED
  BY <1>1, <1>2, RejectCallVolume, CorruptVolume DEF ModifyOrder, Enter

-----------------------------------------------------------------------------
(* The theorems.                                                           *)

LEMMA StepVolume == IInv /\ VolumeInv /\ [Next]_vars => VolumeInv'
<1> SUFFICES ASSUME IInv, VolumeInv, [Next]_vars PROVE VolumeInv'
  OBVIOUS
<1>1. CASE Call
  BY <1>1, BuildOrderVolume, NewOrderVolume, CancelOrderVolume, ModifyOrderVolume DEF Call
<1>2. CASE Step
  BY <1>2, RejectVolume, RestVolume, BeginMatchVolume, TakeBestVolume, PutBackVolume,
     FilledVolume, RestRemainderVolume DEF Step
<1>3. CASE UNCHANGED vars
  <2>1. \A r \in Sides : InFlight(r)' = InFlight(r)
    BY <1>3 DEF vars, InFlight
  <2>2. MatchTrades'
    BY <1>3 DEF VolumeInv, MatchTrades, canCross, IsTop, priceCrosses, Precedes, vars,
                bookVars, flowVars, isValid
  <2>3. QED
    BY <1>3, <2>1, <2>2, NothingMoves DEF vars, bookVars
<1>4. QED
  BY <1>1, <1>2, <1>3 DEF Next

(* Queues are finite, the volumes balance, the aggregates are exact until  *)
(* something trades, and a match that began trades.                        *)
THEOREM VolumeInvariance == Spec => []VolumeInv
<1>1. IInv /\ VolumeInv /\ [Next]_vars => VolumeInv'
  BY StepVolume
<1>2. QED
  BY <1>1, InitVolume, Invariance, PTL DEF Spec

(* Volume accepted rests, is being matched, was traded or was cancelled;   *)
(* it holds however often an order is entered and whatever stale handles   *)
(* are used, up to the use of a node the heap has got back.                *)
THEOREM VolumeConserved == Spec => []Conservation
<1>1. VolumeInv => Conservation
  BY DEF VolumeInv
<1>2. QED
  BY <1>1, VolumeInvariance, PTL

(* newOrder, cancelOrder and modifyOrder keep volumes_ the resting volume  *)
(* of each price and side as long as matchOrder has not traded.            *)
THEOREM AggregatesExact == Spec => []AggregatesExactUntilTrade
<1>1. VolumeInv => AggregatesExactUntilTrade
  BY DEF VolumeInv
<1>2. QED
  BY <1>1, VolumeInvariance, PTL
=============================================================================

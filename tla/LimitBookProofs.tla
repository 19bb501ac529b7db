-------------------------- MODULE LimitBookProofs --------------------------
(***************************************************************************)
(* OrderBook implements LimitBook, for orders that are entered once: what  *)
(* the caller of an order book is told, what rests afterwards, and the top *)
(* it is shown are those of a book whose calls are atomic.                 *)
(***************************************************************************)
EXTENDS OrderBookProofs, FunctionTheorems

USE WordAssumption, InputAssumption, BoundAssumption, AddrAssumption

-----------------------------------------------------------------------------
(* The top of a queue.                                                     *)

(* n of ns is one that no other precedes, by what heap h holds.            *)
IsFirst(s, h, ns, n) == n \in ns /\ \A m \in ns : ~Precedes(s, h[m], h[n])
HasFirst(s, h, ns) == \E n \in ns : IsFirst(s, h, ns, n)

(* Precedes orders all orders of a queue.                                  *)
LEMMA PrecedesOrders ==
  \A s, a, b, c : a \in Orders /\ b \in Orders /\ c \in Orders =>
     /\ ~Precedes(s, a, a)
     /\ Precedes(s, a, b) => ~Precedes(s, b, a)
     /\ Precedes(s, a, b) /\ Precedes(s, b, c) => Precedes(s, a, c)
     /\ ~Precedes(s, a, b) /\ ~Precedes(s, b, a) => a.ts = b.ts /\ a.price = b.price
     /\ ~Precedes(s, a, b) => ~BetterPrice(s, a.price, b.price)
<1> SUFFICES ASSUME NEW s, NEW a \in Orders, NEW b \in Orders, NEW c \in Orders
             PROVE  /\ ~Precedes(s, a, a)
                    /\ Precedes(s, a, b) => ~Precedes(s, b, a)
                    /\ Precedes(s, a, b) /\ Precedes(s, b, c) => Precedes(s, a, c)
                    /\ ~Precedes(s, a, b) /\ ~Precedes(s, b, a)
                         => a.ts = b.ts /\ a.price = b.price
                    /\ ~Precedes(s, a, b) => ~BetterPrice(s, a.price, b.price)
  OBVIOUS
<1>1. /\ a.price \in Nat /\ b.price \in Nat /\ c.price \in Nat
      /\ a.ts \in Nat /\ b.ts \in Nat /\ c.ts \in Nat
  <2>1. Prices \subseteq Nat /\ Words \subseteq Nat
    BY DEF Words
  <2>2. \A o \in Orders : o.price \in Prices /\ o.ts \in Words
    BY DEF Orders
  <2>3. QED
    BY <2>1, <2>2
<1>2. PICK i, j, k, u, v, w \in Nat : /\ i = a.price /\ j = b.price /\ k = c.price
                                     /\ u = a.ts /\ v = b.ts /\ w = c.ts
  BY <1>1
<1>3. CASE s = BUY_SIDE
  BY <1>2, <1>3 DEF Precedes, BetterPrice
<1>4. CASE s # BUY_SIDE
  BY <1>2, <1>4 DEF Precedes, BetterPrice
<1>5. QED
  BY <1>3, <1>4

(* Every finite set of nodes with something in it has a first one.         *)
LEMMA FirstExists ==
  ASSUME NEW s \in Sides, NEW h, NEW S, IsFiniteSet(S), S # {},
         \A n \in S : h[n] \in Orders
  PROVE  HasFirst(s, h, S)
<1> DEFINE Q == {k \in Nat : \A T \in SUBSET S :
                    T # {} /\ Cardinality(T) = k => HasFirst(s, h, T)}
<1>1. \A T \in SUBSET S : /\ Cardinality(T) \in Nat
                          /\ (Cardinality(T) = 0 <=> T = {})
                          /\ \A x \in T : Cardinality(T \ {x}) = Cardinality(T) - 1
  BY FS_Subset, FS_CardinalityType, FS_RemoveElement, FS_EmptySet
<1>2. 0 \in Q
  BY <1>1
<1>3. ASSUME NEW k \in Nat, k \in Q PROVE k + 1 \in Q
  <2> SUFFICES ASSUME NEW T \in SUBSET S, T # {}, Cardinality(T) = k + 1
               PROVE  HasFirst(s, h, T)
    OBVIOUS
  <2>1. PICK x \in T : TRUE
    OBVIOUS
  <2> DEFINE R == T \ {x}
  <2>2. R \in SUBSET S /\ Cardinality(R) = k
    BY <1>1, <2>1
  <2>3. h[x] \in Orders /\ ~Precedes(s, h[x], h[x])
    BY <2>1, PrecedesOrders
  <2>4. CASE R = {}
    <3>1. IsFirst(s, h, T, x)
      BY <2>1, <2>3, <2>4 DEF IsFirst
    <3>2. QED
      BY <2>1, <3>1 DEF HasFirst
  <2>5. CASE R # {}
    <3>1. PICK n \in R : IsFirst(s, h, R, n)
      BY <1>3, <2>2, <2>5 DEF HasFirst
    <3>2. n \in T /\ h[n] \in Orders /\ \A m \in R : ~Precedes(s, h[m], h[n])
      BY <3>1 DEF IsFirst
    <3>3. CASE Precedes(s, h[x], h[n])
      <4>1. ASSUME NEW m \in R PROVE ~Precedes(s, h[m], h[x])
        BY <2>2, <2>3, <3>2, <3>3, PrecedesOrders
      <4>2. IsFirst(s, h, T, x)
        BY <2>1, <2>3, <4>1 DEF IsFirst
      <4>3. QED
        BY <2>1, <4>2 DEF HasFirst
    <3>4. CASE ~Precedes(s, h[x], h[n])
      <4>1. IsFirst(s, h, T, n)
        BY <3>2, <3>4 DEF IsFirst
      <4>2. QED
        BY <3>2, <4>1 DEF HasFirst
    <3>5. QED
      BY <3>3, <3>4
  <2>6. QED
    BY <2>4, <2>5
<1> HIDE DEF Q
<1>4. Nat \subseteq Q
  BY <1>2, <1>3, NatInduct
<1>5. Cardinality(S) \in Q
  BY <1>1, <1>4
<1>6. QED
  BY <1>5 DEF Q

(* Live nodes hold orders, and no two of them the same.                    *)
LEMMA LiveHolds ==
  ASSUME BookInv, Placed
  PROVE  /\ \A n \in Live : node[n] \in Orders
         /\ \A s \in Sides : \A n \in price_sorted_[s] :
              n \in Live /\ node[n] \in Orders /\ node[n].side = s
         /\ \A m, n \in Live : node[m] = node[n] => m = n
BY LiveIs DEF BookInv, QueuesValid, Placed

(* What getTopOfBook shows of a side is a best order of the book.          *)
LEMMA TopIsBest ==
  ASSUME BookInv, Placed, QueuesFinite, NEW s \in Sides
  PROVE  Top(s) \in LB!Shown(Book, s)
<1> DEFINE ns == price_sorted_[s]
<1>1. /\ IsFiniteSet(ns)
      /\ \A n \in ns : n \in Live /\ node[n] \in Orders /\ node[n].side = s
  BY LiveHolds DEF QueuesFinite
<1>2. ASSUME NEW o \in Book, o.side = s PROVE \E n \in ns : o = node[n]
  BY <1>2, LiveIs, LiveHolds DEF Book
<1>3. CASE ns = {}
  <2>1. Top(s) = {}
    BY <1>3 DEF Top, IsTop
  <2>2. LB!Best(Book, s) = {}
    BY <1>2, <1>3 DEF LB!Best
  <2>3. QED
    BY <2>1, <2>2 DEF LB!Shown
<1>4. CASE ns # {}
  <2>1. PICK n \in ns : IsFirst(s, node, ns, n)
    BY <1>1, <1>4, FirstExists DEF HasFirst
  <2>2. \A m \in ns : IsTop(s, m) <=> m = n
    <3> SUFFICES ASSUME NEW m \in ns PROVE IsTop(s, m) <=> m = n
      OBVIOUS
    <3>1. IsTop(s, n)
      BY <2>1 DEF IsFirst, IsTop
    <3>2. ASSUME IsTop(s, m) PROVE m = n
      <4>1. ~Precedes(s, node[m], node[n]) /\ ~Precedes(s, node[n], node[m])
        BY <3>1, <3>2 DEF IsTop
      <4>2. node[m].ts = node[n].ts
        BY <1>1, <4>1, PrecedesOrders
      <4>3. QED
        BY <1>1, <4>2 DEF Placed
    <3>3. QED
      BY <3>1, <3>2
  <2>3. Top(s) = {node[n]}
    BY <2>1, <2>2 DEF Top
  <2>4. node[n] \in LB!Best(Book, s)
    <3>1. node[n] \in Book /\ node[n].side = s
      BY <1>1 DEF Book
    <3>2. ASSUME NEW m \in Book, m.side = s
          PROVE  ~LB!Better(s, m.price, node[n].price)
      <4>1. PICK l \in ns : m = node[l]
        BY <1>2, <3>2
      <4>2. ~BetterPrice(s, node[l].price, node[n].price)
        BY <1>1, <2>1, PrecedesOrders DEF IsFirst
      <4>3. QED
        BY <4>1, <4>2 DEF BetterPrice, LB!Better
    <3>3. QED
      BY <3>1, <3>2 DEF LB!Best
  <2>5. QED
    BY <2>3, <2>4 DEF LB!Shown
<1>5. QED
  BY <1>3, <1>4

(* The top getTopOfBook shows is one LimitBook allows.                     *)
LEMMA TopsShown ==
  ASSUME BookInv, Placed, QueuesFinite
  PROVE  getTopOfBook \in LB!Tops(Book)
<1>1. Sides \ {BUY_SIDE} = {SELL_SIDE} /\ BUY_SIDE \in Sides /\ SELL_SIDE \in Sides
  BY DEF Sides, BUY_SIDE, SELL_SIDE
<1>2. UNION {LB!Shown(Book, s) : s \in Sides \ {BUY_SIDE}}
        = LB!Shown(Book, SELL_SIDE)
  BY <1>1
<1>3. /\ Top(BUY_SIDE) \in LB!Shown(Book, BUY_SIDE)
      /\ Top(SELL_SIDE) \in LB!Shown(Book, SELL_SIDE)
  BY <1>1, TopIsBest
<1>4. QED
  BY <1>2, <1>3 DEF getTopOfBook, LB!Tops

-----------------------------------------------------------------------------
(* Volumes of a set of orders.                                             *)

(* Total is the sum of FoldTheorems.                                       *)
LEMMA TotalIs == \A f : LB!Total(f) = Sigma(f, DOMAIN f)
BY DEF LB!Total, Sigma, MapThenSumSet, MapThenFoldSet, LB!MapThenSumSet,
       LB!MapThenFoldSet

(* The total of natural numbers is one, and 0 only of zeros.               *)
LEMMA TotalNat ==
  ASSUME NEW S, IsFiniteSet(S), NEW f \in [S -> Nat]
  PROVE  /\ LB!Total(f) \in Nat
         /\ (\A x \in S : f[x] = 0) => LB!Total(f) = 0
<1> DEFINE Ok(T) == /\ Sigma(f, T) \in Nat
                    /\ (\A x \in T : f[x] = 0) => Sigma(f, T) = 0
           P == {T \in SUBSET S : Ok(T)}
<1>1. ASSUME NEW T \in SUBSET S, \A x \in T : T \ {x} \in P PROVE T \in P
  <2>1. IsFiniteSet(T) /\ \A x \in T : f[x] \in Int /\ f[x] \in Nat
    BY FS_Subset
  <2>2. /\ T = {} => Sigma(f, T) = 0
        /\ \A x \in T : Sigma(f, T) = f[x] + Sigma(f, T \ {x})
    BY <2>1, SigmaAdds
  <2>3. CASE T = {}
    BY <2>2, <2>3
  <2>4. CASE T # {}
    <3>1. PICK x \in T : TRUE
      BY <2>4
    <3>2. PICK u : u = Sigma(f, T \ {x})
      OBVIOUS
    <3>3. u \in Nat /\ ((\A y \in T \ {x} : f[y] = 0) => u = 0)
      BY <1>1, <3>2
    <3>4. Sigma(f, T) = f[x] + u /\ f[x] \in Nat
      <4>1. Sigma(f, T) = f[x] + Sigma(f, T \ {x})
        BY <2>2
      <4>2. f[x] \in Nat
        OBVIOUS
      <4>3. QED
        BY <3>2, <4>1, <4>2
    <3>5. Sigma(f, T) \in Nat
      BY <3>3, <3>4
    <3>6. ASSUME \A y \in T : f[y] = 0 PROVE Sigma(f, T) = 0
      <4>1. f[x] = 0 /\ u = 0
        BY <3>3, <3>6
      <4>2. QED
        BY <3>4, <4>1
    <3>7. QED
      BY <3>5, <3>6
  <2>5. QED
    BY <2>3, <2>4
<1> HIDE DEF P
<1>2. S \in P
  BY <1>1, RemovalInduct
<1>3. LB!Total(f) = Sigma(f, S)
  <2>1. DOMAIN f = S
    OBVIOUS
  <2>2. QED
    BY <2>1, TotalIs
<1>4. QED
  <2>1. Sigma(f, S) \in Nat /\ ((\A x \in S : f[x] = 0) => Sigma(f, S) = 0)
    BY <1>2 DEF P
  <2>2. QED
    BY <1>3, <2>1

(* One of the numbers is replaced.                                         *)
Updates(f, S) == \A x \in S, v \in Nat :
                    LB!Total([f EXCEPT ![x] = v]) = LB!Total(f) - f[x] + v

(* Replacing one of them moves the total by the difference.                *)
LEMMA TotalUpdate ==
  ASSUME NEW S, IsFiniteSet(S), NEW f \in [S -> Nat] PROVE Updates(f, S)
<1> SUFFICES ASSUME NEW x \in S, NEW v \in Nat, NEW g, g = [f EXCEPT ![x] = v]
             PROVE  LB!Total(g) = LB!Total(f) - f[x] + v
  BY DEF Updates
<1>1. g \in [S -> Nat] /\ g[x] = v /\ \A y \in S \ {x} : g[y] = f[y]
  OBVIOUS
<1>2. IsFiniteSet(S \ {x})
  BY FS_RemoveElement
<1>a. \A y \in S : f[y] \in Int /\ g[y] \in Int
  BY <1>1
<1>3. /\ Sigma(f, S) = f[x] + Sigma(f, S \ {x})
      /\ Sigma(g, S) = v + Sigma(g, S \ {x})
  BY <1>1, <1>a, SigmaAdds
<1>4. Sigma(f, S \ {x}) \in Int /\ Sigma(g, S \ {x}) = Sigma(f, S \ {x})
  <2> DEFINE R == S \ {x}
  <2>1. \A y \in R : g[y] \in Int /\ f[y] \in Int /\ g[y] = f[y]
    BY <1>1, <1>a
  <2>2. IsFiniteSet(R)
    BY <1>2
  <2> HIDE DEF R
  <2>3. Sigma(f, R) \in Int /\ Sigma(g, R) = Sigma(f, R)
    BY <2>1, <2>2, SigmaAdds, SigmaAgrees
  <2>4. QED
    BY <2>3 DEF R
<1>5. LB!Total(f) = Sigma(f, S) /\ LB!Total(g) = Sigma(g, S)
  <2>1. DOMAIN f = S /\ DOMAIN g = S
    BY <1>1
  <2>2. QED
    BY <2>1, TotalIs
<1>6. f[x] \in Nat
  OBVIOUS
<1>7. QED
  BY <1>3, <1>4, <1>5, <1>6

-----------------------------------------------------------------------------
(* The book as a set of orders, and the entries of orders that are gone.   *)

(* What Spent says of the index is that entries are stale.                 *)
LEMMA SpentIs ==
  ASSUME BookInv, Placed, \A o \in Book : Clear(o)
  PROVE  Spent = {k \in Keys : \E s \in Sides : Stale(s, k)}
<1>1. \A s \in Sides, k \in Keys : Dangling(s, k) <=> Stale(s, k)
  <2> SUFFICES ASSUME NEW s \in Sides, NEW k \in Keys
               PROVE  Dangling(s, k) <=> Stale(s, k)
    OBVIOUS
  <2>1. \A n \in price_sorted_[s] : Key(node[n]) = k => id_to_iter_[s][k] = n
    BY DEF Placed
  <2>2. QED
    BY <2>1 DEF Dangling, Stale
<1> SUFFICES ASSUME NEW k \in Keys
             PROVE  Dangling(SideOf(k), k) <=> \E s \in Sides : Stale(s, k)
  BY DEF Spent
<1>2. BUY_SIDE \in Sides /\ SELL_SIDE \in Sides /\ SideOf(k) \in Sides
  BY DEF Sides, BUY_SIDE, SELL_SIDE, SideOf
<1>3. CASE Indexed(BUY_SIDE, k)
  <2>1. SideOf(k) = BUY_SIDE
    BY <1>3 DEF SideOf
  <2>2. ASSUME Stale(SELL_SIDE, k) PROVE Stale(BUY_SIDE, k)
    <3> SUFFICES ASSUME NEW n \in price_sorted_[BUY_SIDE], Key(node[n]) = k PROVE FALSE
      BY <1>3 DEF Stale
    <3>1. n \in Live /\ node[n] \in Orders
      BY <1>2, LiveHolds
    <3>2. node[n].ts = k[2]
      BY <3>1, KeyIs
    <3>3. QED
      BY <1>2, <2>2, <3>1, <3>2 DEF Clear, Book
  <2>3. QED
    BY <1>1, <1>2, <2>1, <2>2 DEF Sides
<1>4. CASE ~Indexed(BUY_SIDE, k)
  <2>1. SideOf(k) = SELL_SIDE /\ ~Stale(BUY_SIDE, k)
    BY <1>4 DEF SideOf, Stale
  <2>2. QED
    BY <1>1, <1>2, <2>1 DEF Sides
<1>5. QED
  BY <1>3, <1>4

(* push enters one order more, and mends the entry of its key.             *)
LEMMA PushBook ==
  ASSUME BookInv, Placed, NEW s \in Sides, NEW o \in Orders, isValid(o), Push(s, o)
  PROVE  /\ Book' = Book \cup {o}
         /\ \A r \in Sides, j \in Keys :
              Stale(r, j)' <=> Stale(r, j) /\ ~(r = s /\ j = Key(o))
<1>1. PICK a \in Addrs \ Live :
        /\ node' = [node EXCEPT ![a] = o]
        /\ price_sorted_' = [price_sorted_ EXCEPT ![s] = @ \cup {a}]
        /\ id_to_iter_' = [id_to_iter_ EXCEPT ![s][Key(o)] = a]
  BY DEF Push, Insert
<1>2. node'[a] = o /\ \A n \in Live : n \in Addrs /\ n # a /\ node'[n] = node[n]
  BY <1>1 DEF BookInv, BookTyped, Live, Sides
<1>a. a # NoAddr /\ Key(o) \in Keys
  <2>1. a # NoAddr
    OBVIOUS
  <2>2. QED
    BY <2>1 DEF Key, Keys, Orders
<1>3. /\ id_to_iter_'[s][Key(o)] = a
      /\ \A r \in Sides, k \in Keys : r # s \/ k # Key(o) =>
           id_to_iter_'[r][k] = id_to_iter_[r][k]
  <2>1. id_to_iter_ \in [Sides -> [Keys -> Addrs \cup {NoAddr}]]
    BY DEF BookInv, BookTyped
  <2>2. \A r \in Sides : id_to_iter_'[r] =
           IF r = s THEN [id_to_iter_[s] EXCEPT ![Key(o)] = a] ELSE id_to_iter_[r]
    BY <1>1, <2>1
  <2>3. QED
    BY <1>a, <2>1, <2>2
<1>4. \A r \in Sides : price_sorted_'[r] =
        IF r = s THEN price_sorted_[r] \cup {a} ELSE price_sorted_[r]
  BY <1>1 DEF BookInv, BookTyped
<1>5. Live' = Live \cup {a}
  BY <1>4 DEF Live, Sides
<1>6. Book' = Book \cup {o}
  BY <1>2, <1>5 DEF Book
<1>7. ASSUME NEW r \in Sides, NEW j \in Keys
      PROVE  Stale(r, j)' <=> Stale(r, j) /\ ~(r = s /\ j = Key(o))
  <2>1. \A n \in price_sorted_[r] : node'[n] = node[n]
    BY <1>2, LiveIs
  <2>2. CASE r = s /\ j = Key(o)
    <3>1. a \in price_sorted_'[r] /\ Key(node'[a]) = j
      BY <1>2, <1>4, <2>2
    <3>2. QED
      BY <2>2, <3>1 DEF Stale
  <2>3. CASE ~(r = s /\ j = Key(o))
    <3>1. Indexed(r, j)' <=> Indexed(r, j)
      BY <1>3, <2>3 DEF Indexed
    <3>2. (\A n \in price_sorted_'[r] : Key(node'[n]) # j)
            <=> (\A n \in price_sorted_[r] : Key(node[n]) # j)
      BY <1>2, <1>4, <2>1, <2>3
    <3>3. QED
      BY <2>3, <3>1, <3>2 DEF Stale
  <2>4. QED
    BY <2>2, <2>3
<1>8. QED
  BY <1>6, <1>7

(* pop and remove: the order is gone from the book; an entry that was not  *)
(* the erased one may lead to it.                                          *)
LEMMA TakeOutBook ==
  ASSUME BookInv, Placed, NEW s \in Sides, NEW n \in price_sorted_[s], NEW k \in Keys,
         price_sorted_' = [price_sorted_ EXCEPT ![s] = @ \ {n}],
         id_to_iter_' = [id_to_iter_ EXCEPT ![s][k] = NoAddr],
         node' = [node EXCEPT ![n] = Freed]
  PROVE  /\ Book' = Book \ {node[n]}
         /\ \A r \in Sides, j \in Keys :
              /\ Stale(r, j)' => /\ Stale(r, j) \/ (r = s /\ j = Key(node[n]))
                                /\ ~(r = s /\ j = k)
              /\ Stale(r, j) /\ ~(r = s /\ j = k) => Stale(r, j)'
<1>1. \A r \in Sides : \A m \in price_sorted_'[r] :
        m \in price_sorted_[r] /\ node'[m] = node[m]
  BY TakeOutKeeps
<1>2. \A r \in Sides : price_sorted_'[r] =
        IF r = s THEN price_sorted_[r] \ {n} ELSE price_sorted_[r]
  BY DEF BookInv, BookTyped
<1>3. n \in Live /\ \A r \in Sides : n \in price_sorted_[r] => r = s
  BY OneQueue, LiveIs DEF BookInv
<1>4. Live' = Live \ {n}
  <2>1. \A m : m \in Live' <=> \E r \in Sides : m \in price_sorted_'[r]
    BY DEF Live, Sides
  <2>2. ASSUME NEW r \in Sides, NEW m
        PROVE  m \in price_sorted_'[r] <=> m \in price_sorted_[r] /\ m # n
    BY <1>2, <1>3
  <2>3. QED
    BY <2>1, <2>2, LiveIs
<1>5. \A m \in Live' : node'[m] = node[m] /\ node[m] # node[n]
  <2>1. \A m \in Live' : \E r \in Sides : m \in price_sorted_'[r]
    BY DEF Live, Sides
  <2>2. QED
    BY <1>1, <1>3, <1>4, <2>1, LiveHolds
<1>6. Book' = Book \ {node[n]}
  BY <1>3, <1>4, <1>5 DEF Book
<1>7. ASSUME NEW r \in Sides, NEW j \in Keys
      PROVE  /\ Stale(r, j)' => /\ Stale(r, j) \/ (r = s /\ j = Key(node[n]))
                               /\ ~(r = s /\ j = k)
             /\ Stale(r, j) /\ ~(r = s /\ j = k) => Stale(r, j)'
  <2>1. id_to_iter_'[r][j] = IF r = s /\ j = k THEN NoAddr ELSE id_to_iter_[r][j]
    BY DEF BookInv, BookTyped
  <2>2. Stale(r, j) /\ ~(r = s /\ j = k) => Stale(r, j)'
    BY <1>1, <2>1 DEF Stale, Indexed
  <2>3. ASSUME Stale(r, j)', ~(r = s /\ j = Key(node[n])) PROVE Stale(r, j)
    <3>1. ~(r = s /\ j = k) /\ Indexed(r, j)
      BY <2>1, <2>3 DEF Stale, Indexed
    <3>2. ASSUME NEW m \in price_sorted_[r] PROVE Key(node[m]) # j
      <4>1. CASE m \in price_sorted_'[r]
        BY <1>1, <2>3, <4>1 DEF Stale
      <4>2. CASE m \notin price_sorted_'[r]
        BY <1>2, <2>3, <4>2
      <4>3. QED
        BY <4>1, <4>2
    <3>3. QED
      BY <3>1, <3>2 DEF Stale
  <2>4. Stale(r, j)' => ~(r = s /\ j = k)
    BY <2>1 DEF Stale, Indexed
  <2>5. QED
    BY <2>2, <2>3, <2>4
<1>8. QED
  BY <1>6, <1>7

-----------------------------------------------------------------------------
(* The calls and their steps keep StaleInv.                                *)

(* No entry becomes stale.                                                 *)
NoneAges == \A s \in Sides, k \in Keys : Stale(s, k)' => Stale(s, k)

(* Then what was clear of the stale entries still is.                      *)
LEMMA ClearStays ==
  ASSUME NoneAges
  PROVE  \A o : (Clear(o) => Clear(o)') /\ (OwnEntry(o) => OwnEntry(o)')
BY DEF NoneAges, Clear, OwnEntry, Key

(* A step that does not touch the queues.                                  *)
LEMMA BookNotTouched ==
  ASSUME UNCHANGED bookVars
  PROVE  /\ Book' = Book /\ Live' = Live /\ NoneAges
         /\ \A s \in Sides, k \in Keys : Stale(s, k)' <=> Stale(s, k)
BY DEF bookVars, Book, Live, NoneAges, Stale, Indexed

(* An order that leaves the book may leave an entry, which has its key.    *)
LEMMA TakeOutClear ==
  ASSUME BookInv, Placed, NEW s \in Sides, NEW n \in price_sorted_[s], NEW k \in Keys,
         price_sorted_' = [price_sorted_ EXCEPT ![s] = @ \ {n}],
         id_to_iter_' = [id_to_iter_ EXCEPT ![s][k] = NoAddr],
         node' = [node EXCEPT ![n] = Freed],
         Clear(node[n])
  PROVE  /\ \A q : Clear(q) /\ q.ts # node[n].ts => Clear(q)'
         /\ \A q \in Orders : q.side = s /\ Key(q) = Key(node[n]) => OwnEntry(q)'
         /\ k = Key(node[n]) => NoneAges
<1>1. \A r \in Sides, j \in Keys : Stale(r, j)' =>
         (Stale(r, j) \/ (r = s /\ j = Key(node[n]))) /\ ~(r = s /\ j = k)
  BY TakeOutBook
<1>2. node[n] \in Orders
  BY LiveHolds
<1>3. Key(node[n])[2] = node[n].ts
  BY <1>2, KeyIs
<1>4. ASSUME NEW q, Clear(q), q.ts # node[n].ts PROVE Clear(q)'
  BY <1>1, <1>3, <1>4 DEF Clear
<1>5. ASSUME NEW q \in Orders, q.side = s, Key(q) = Key(node[n]) PROVE OwnEntry(q)'
  <2>1. q.ts = node[n].ts
    BY <1>2, <1>5, KeyIs
  <2>2. ASSUME NEW r \in Sides, NEW j \in Keys, Stale(r, j)', j[2] = q.ts
        PROVE  r = s /\ j = Key(q)
    BY <1>1, <1>5, <2>1, <2>2 DEF Clear
  <2>3. QED
    BY <1>5, <2>2 DEF OwnEntry, Key
<1>6. k = Key(node[n]) => NoneAges
  BY <1>1 DEF NoneAges
<1>7. QED
  BY <1>4, <1>5, <1>6

(* A new timestamp is in no entry.                                         *)
LEMMA FreshClear ==
  ASSUME Placed, NEW o, o.ts \notin Drawn PROVE Clear(o)
BY DEF Placed, Clear, Stale

(* At first nothing is in the index.                                       *)
LEMMA InitStale == Init => StaleInv
BY DEF Init, StaleInv, Book, Live, Sides

(* A step that leaves the book, and brings no order into anybody's hands.  *)
LEMMA HandShrinksStale ==
  ASSUME StaleInv, NoneAges, Book' \subseteq Book, made' \subseteq made,
         pc' \in {"enter", "match", "repush"} => Clear(incoming'),
         pc' = "repush" => OwnEntry(popped')
  PROVE  StaleInv'
<1>1. \A o : (Clear(o) => Clear(o)') /\ (OwnEntry(o) => OwnEntry(o)')
  BY ClearStays
<1>2. (pc' \in {"enter", "match", "repush"} => Clear(incoming)')
  BY <1>1 DEF Clear, Stale, Indexed
<1>3. QED
  BY <1>1, <1>2 DEF StaleInv

(* BuildOrder keeps StaleInv.                                              *)
LEMMA BuildOrderStale ==
  ASSUME IInv, FindInv, StaleInv, NEW id \in OrderIds, NEW p \in Prices,
         NEW v \in Volumes, NEW s \in Sides, NEW c \in Clients,
         BuildOrder(id, p, v, s, c)
  PROVE  StaleInv'
<1>a. PICK o : o = MakeOrder(id, p, v, s, c)
  OBVIOUS
<1>1. /\ nextTimestampNs /\ made' = made \cup {<<o, 0>>}
      /\ UNCHANGED <<bookVars, pc, incoming, popped>>
  BY <1>a DEF BuildOrder
<1>2. o \in LB!Offers /\ o.ts = (Epoch + seq_counter_) % Word
  <2>1. (Epoch + seq_counter_) % Word \in Words
    <3>1. Epoch + seq_counter_ \in Nat
      BY DEF IInv, TypeOK
    <3>2. QED
      BY <3>1, LowWord
  <2>2. QED
    BY <1>a, <2>1 DEF MakeOrder, LB!Offers
<1>3. o.ts \notin Drawn
  BY <1>1, <1>2, NextIsFresh DEF IInv, TypeOK
<1>4. Clear(o)
  BY <1>3, FreshClear, FindParts
<1>5. Book' = Book /\ NoneAges
  BY <1>1, BookNotTouched
<1>6. \A q : (Clear(q) => Clear(q)') /\ (OwnEntry(q) => OwnEntry(q)')
  BY <1>5, ClearStays
<1>7. \A m \in made' : m \in made \/ m[1] = o
  BY <1>1
<1>8. pc' \in {"enter", "match", "repush"} => Clear(incoming')
  BY <1>1 DEF StaleInv
<1>9. pc' = "repush" => OwnEntry(popped')
  BY <1>1 DEF StaleInv
<1>10. (pc' \in {"enter", "match", "repush"} => Clear(incoming)')
       /\ (pc' = "repush" => OwnEntry(popped)')
  BY <1>1, <1>6 DEF StaleInv
<1>11. \A m \in made' : m[1] \in LB!Offers /\ Clear(m[1])'
  BY <1>2, <1>4, <1>6, <1>7 DEF StaleInv
<1>12. \A q \in Book' : Clear(q)'
  BY <1>5, <1>6 DEF StaleInv
<1>13. QED
  BY <1>10, <1>11, <1>12 DEF StaleInv

(* NewOrder keeps StaleInv.                                                *)
LEMMA NewOrderStale ==
  ASSUME MaxSubmits = 1, IInv, StaleInv, NEW m \in made, NewOrder(m[1], m[2])
  PROVE  StaleInv'
<1>1. m[2] = 0
  BY DEF IInv, TypeOK
<1>2. /\ made' \subseteq made /\ pc' = "enter" /\ incoming' = m[1]
      /\ UNCHANGED bookVars
  BY <1>1 DEF NewOrder, Enter
<1>3. Clear(m[1])
  BY DEF StaleInv
<1>4. QED
  BY <1>2, <1>3, BookNotTouched, HandShrinksStale

(* Calls that end or begin without touching the book.                      *)
LEMMA QuietStale ==
  ASSUME StaleInv, UNCHANGED <<bookVars, made>>, pc' # "repush",
         pc' \in {"enter", "match"} => incoming' = incoming /\ pc \in {"enter", "match"}
  PROVE  StaleInv'
<1>1. pc' \in {"enter", "match", "repush"} => Clear(incoming')
  BY DEF StaleInv
<1>2. QED
  BY <1>1, BookNotTouched, HandShrinksStale

(* What is left of the incoming order rests, and the call returns.         *)
LEMMA EndRestStale ==
  ASSUME IInv, FindInv, StaleInv, pc \in {"enter", "match"}, isValid(incoming),
         Push(incoming.side, incoming), NEW flags, Return(flags), UNCHANGED callerVars
  PROVE  StaleInv'
<1>1. incoming \in Orders /\ incoming.side \in Sides
  BY KeyIs DEF IInv, CallInv
<1>2. Book' = Book \cup {incoming} /\ NoneAges
  BY <1>1, PushBook, FindParts, Parts DEF NoneAges
<1>3. \A q : Clear(q) => Clear(q)'
  BY <1>2, ClearStays
<1>4. \A q \in Book' : Clear(q)'
  BY <1>2, <1>3 DEF StaleInv
<1>5. QED
  BY <1>3, <1>4 DEF StaleInv, Return, callerVars

(* One trade: the order popped may leave its entry, and only that.         *)
LEMMA TakeBestStale == ASSUME IInv, FindInv, StaleInv, TakeBest PROVE StaleInv'
<1> DEFINE opp == Opposite(incoming.side)
<1>1. Placed /\ (\A q \in InHand : MayRest(q)) /\ HandDistinct /\ BookInv
  BY FindParts, Parts
<1>2. incoming \in Orders /\ incoming \in InHand /\ opp \in Sides
  BY HandTyped, KeyIs, OppositeIs DEF TakeBest, InHand
<1>3. PICK n \in price_sorted_[opp] :
        /\ Pop(opp, n)
        /\ incoming' = [incoming EXCEPT !.volume =
                          @ - TradeVolume(incoming, node[n])]
        /\ popped' = [node[n] EXCEPT !.volume =
                        @ - TradeVolume(incoming, node[n])]
  BY DEF TakeBest
<1>4. pc = "match" /\ pc' = "repush" /\ made' = made
  BY DEF TakeBest, callerVars
<1>5. n \in Live /\ node[n] \in Orders /\ node[n].side = opp
  BY <1>1, <1>2, LiveHolds
<1>6. PICK in, out : in = incoming' /\ out = popped'
  OBVIOUS
<1>7. /\ in.ts = incoming.ts /\ out.side = opp /\ Key(out) = Key(node[n])
  BY <1>2, <1>3, <1>5, <1>6 DEF Key, Orders
<1>8. out \in Orders
  BY <1>6, TakeBestInv DEF TakeBest, IInv, CallInv
<1>9. Truncated(Key(node[n])) \in Keys
  BY <1>5 DEF Truncated, Key, Keys, Words, Orders
<1>10. Clear(node[n])
  BY <1>5 DEF StaleInv, Book
<1>11. /\ \A q : Clear(q) /\ q.ts # node[n].ts => Clear(q)'
       /\ \A q \in Orders : q.side = opp /\ Key(q) = Key(node[n]) => OwnEntry(q)'
  BY <1>1, <1>2, <1>3, <1>9, <1>10, TakeOutClear DEF Pop
<1>12. Book' = Book \ {node[n]}
  BY <1>1, <1>2, <1>3, <1>9, TakeOutBook DEF Pop
<1>13. \A q \in Book' : Clear(q)'
  <2>1. \A q \in Book' : q \in Book /\ q.ts # node[n].ts
    BY <1>1, <1>5, <1>12 DEF Book, Placed
  <2>2. QED
    BY <1>11, <2>1 DEF StaleInv
<1>14. \A m \in made' : m[1] \in LB!Offers /\ Clear(m[1])'
  <2>1. \A m \in made : m[1].ts # node[n].ts
    BY <1>1, <1>5 DEF MayRest, InHand
  <2>2. QED
    BY <1>4, <1>11, <2>1 DEF StaleInv
<1>15. Clear(in)'
  <2>1. in.ts # node[n].ts
    BY <1>1, <1>2, <1>5, <1>7 DEF MayRest
  <2>2. Clear(in)
    BY <1>4, <1>7 DEF StaleInv, Clear
  <2>3. QED
    BY <1>11, <2>1, <2>2
<1>16. OwnEntry(out)'
  BY <1>7, <1>8, <1>11
<1>17. Clear(incoming)' /\ OwnEntry(popped)'
  BY <1>6, <1>15, <1>16
<1>18. QED
  BY <1>13, <1>14, <1>17 DEF StaleInv

(* The popped order rests again, and its entry leads to it; or it is gone. *)
LEMMA PutBackStale == ASSUME IInv, FindInv, StaleInv, PutBack PROVE StaleInv'
<1>1. pc = "repush" /\ pc' = "match" /\ made' = made /\ incoming' = incoming
  BY DEF PutBack, callerVars
<1>2. /\ popped \in Orders
      /\ popped.side = Opposite(incoming.side) /\ popped.side \in Sides
  BY <1>1, KeyIs DEF IInv, CallInv
<1>3. Clear(incoming)
  BY <1>1 DEF StaleInv
<1>4. CASE isValid(popped)
  <2>1. PICK o \in Orders : o = popped /\ o.side = popped.side
    BY <1>2
  <2>2. /\ Book' = Book \cup {o}
        /\ \A r \in Sides, j \in Keys :
              Stale(r, j)' <=> Stale(r, j) /\ ~(r = o.side /\ j = Key(o))
    BY <1>2, <1>4, <2>1, PushBook, FindParts, Parts DEF PutBack
  <2>3. NoneAges
    BY <2>2 DEF NoneAges
  <2>4. \A q : Clear(q) => Clear(q)'
    BY <2>3, ClearStays
  <2>5. Clear(o)'
    <3>1. OwnEntry(o)
      BY <1>1, <2>1 DEF StaleInv
    <3>2. QED
      BY <2>2, <3>1 DEF OwnEntry, Clear
  <2>6. \A q \in Book' : Clear(q)'
    BY <2>2, <2>4, <2>5 DEF StaleInv
  <2>7. Clear(incoming)'
    BY <1>1, <1>3, <2>4
  <2>8. QED
    BY <1>1, <2>4, <2>6, <2>7 DEF StaleInv
<1>5. CASE ~isValid(popped)
  <2>1. UNCHANGED bookVars
    BY <1>5 DEF PutBack
  <2>2. QED
    BY <1>1, <1>3, <2>1, BookNotTouched, HandShrinksStale
<1>6. QED
  BY <1>4, <1>5

(* The order o that the handle k of side s led to has gone.                *)
Taken(s, k, o) ==
  /\ o \in Book /\ o \in Orders /\ o.side = s /\ Book' = Book \ {o}
  /\ \A q : Clear(q) /\ q.ts # o.ts => Clear(q)'
  /\ k = Key(o) => \A r \in Sides, j \in Keys : Stale(r, j)' <=> Stale(r, j)
  /\ k # Key(o) => ub' = TRUE
  /\ k = Key(o) => ub' = ub

(* cancelOrder and modifyOrder take out what their handle led to.          *)
LEMMA TakeTakes ==
  ASSUME IInv, FindInv, StaleInv, NEW s \in Sides, NEW k \in Keys, Take(s, k)
  PROVE  Taken(s, k, node[id_to_iter_[s][k]])
<1>1. Placed /\ BookInv /\ ub \in BOOLEAN
  BY FindParts, Parts DEF CallTyped
<1>2. PICK n \in price_sorted_[s] : n = id_to_iter_[s][k]
  BY DEF Take
<1>3. /\ price_sorted_' = [price_sorted_ EXCEPT ![s] = @ \ {n}]
      /\ id_to_iter_' = [id_to_iter_ EXCEPT ![s][k] = NoAddr]
      /\ node' = [node EXCEPT ![n] = Freed]
      /\ ub' = (ub \/ Key(node[n]) # k)
  BY <1>2 DEF Take, RemoveOrder
<1>4. node[n] \in Book /\ node[n] \in Orders /\ node[n].side = s
  BY <1>1, LiveHolds DEF Book
<1>5. Clear(node[n])
  BY <1>4 DEF StaleInv
<1>6. \A q : Clear(q) /\ q.ts # node[n].ts => Clear(q)'
  BY <1>1, <1>3, <1>5, TakeOutClear
<1>7. /\ Book' = Book \ {node[n]}
      /\ \A r \in Sides, j \in Keys :
           /\ Stale(r, j)' => /\ Stale(r, j) \/ (r = s /\ j = Key(node[n]))
                              /\ ~(r = s /\ j = k)
           /\ Stale(r, j) /\ ~(r = s /\ j = k) => Stale(r, j)'
  BY <1>1, <1>3, TakeOutBook
<1>8. ASSUME k = Key(node[n]), NEW r \in Sides, NEW j \in Keys
      PROVE  Stale(r, j)' <=> Stale(r, j)
  <2>1. ~Stale(s, k)
    BY <1>8 DEF Stale
  <2>2. QED
    BY <1>7, <1>8, <2>1
<1>9. QED
  BY <1>1, <1>2, <1>3, <1>4, <1>6, <1>7, <1>8 DEF Taken

(* What rests, and what callers hold, is clear of the order that went.     *)
LEMMA TakeStale ==
  ASSUME IInv, FindInv, StaleInv, NEW s \in Sides, NEW k \in Keys, Take(s, k),
         made' = made
  PROVE  /\ \A q \in Book' : Clear(q)'
         /\ \A m \in made' : m[1] \in LB!Offers /\ Clear(m[1])'
<1>1. Placed /\ (\A q \in InHand : MayRest(q)) /\ BookInv
  BY FindParts, Parts
<1>2. PICK o : o = node[id_to_iter_[s][k]]
  OBVIOUS
<1>3. Taken(s, k, o)
  BY <1>2, TakeTakes
<1>4. \A q \in Book' : q \in Book /\ q.ts # o.ts
  BY <1>1, <1>3 DEF Book, Placed, Taken
<1>5. \A m \in made : m[1].ts # o.ts
  BY <1>1, <1>3 DEF MayRest, InHand, Taken, Book
<1>6. QED
  BY <1>3, <1>4, <1>5 DEF StaleInv, Taken

(* CancelOrder keeps StaleInv.                                             *)
LEMMA CancelOrderStale ==
  ASSUME IInv, FindInv, StaleInv, NEW k \in Keys, CancelOrder(k) PROVE StaleInv'
<1>1. SideOf(k) \in Sides /\ pc = "idle"
  BY DEF SideOf, Sides, CancelOrder
<1>2. CASE RejectCall
  BY <1>2, QuietStale DEF RejectCall, Return, callerVars
<1>3. CASE Corrupt(SideOf(k), k)
  BY <1>3, QuietStale DEF Corrupt, callerVars
<1>4. CASE Take(SideOf(k), k) /\ Return({"CANCELLED"}) /\ UNCHANGED callerVars
  <2>1. /\ \A q \in Book' : Clear(q)'
        /\ \A m \in made' : m[1] \in LB!Offers /\ Clear(m[1])'
    BY <1>1, <1>4, TakeStale DEF callerVars
  <2>2. pc' = "idle"
    BY <1>4 DEF Return
  <2>3. QED
    BY <2>1, <2>2 DEF StaleInv
<1>5. QED
  BY <1>2, <1>3, <1>4 DEF CancelOrder

(* ModifyOrder keeps StaleInv.                                             *)
LEMMA ModifyOrderStale ==
  ASSUME IInv, FindInv, StaleInv, NEW k \in Keys, ModifyOrder(k) PROVE StaleInv'
<1>1. BUY_SIDE \in Sides /\ pc = "idle"
  BY DEF Sides, ModifyOrder
<1>2. ASSUME NEW p \in Prices, NEW v \in Volumes, NEW x,
             x = node[id_to_iter_[BUY_SIDE][k]],
             Take(BUY_SIDE, k), nextTimestampNs, UNCHANGED made,
             Enter(MakeOrder(x.id, p, v, x.side, x.client), {"CANCELLED"})
      PROVE  StaleInv'
  <2>1. PICK o : o = MakeOrder(x.id, p, v, x.side, x.client)
    OBVIOUS
  <2>2. o.ts = (Epoch + seq_counter_) % Word
    BY <2>1 DEF MakeOrder
  <2>3. o.ts \notin Drawn
    BY <1>2, <2>2, NextIsFresh DEF IInv, TypeOK
  <2>4. Clear(o)
    BY <2>3, FreshClear, FindParts
  <2>5. Taken(BUY_SIDE, k, x)
    BY <1>1, <1>2, TakeTakes
  <2>6. x.ts \in Drawn
    <3>1. Placed
      BY FindParts
    <3>2. PICK n \in Live : x = node[n]
      BY <2>5 DEF Taken, Book
    <3>3. QED
      BY <3>1, <3>2, LiveIs DEF Placed
  <2>7. Clear(o)'
    BY <2>3, <2>4, <2>5, <2>6 DEF Taken
  <2>8. /\ \A q \in Book' : Clear(q)'
        /\ \A m \in made' : m[1] \in LB!Offers /\ Clear(m[1])'
    BY <1>1, <1>2, TakeStale
  <2>9. pc' = "enter" /\ incoming' = o
    BY <1>2, <2>1 DEF Enter
  <2>10. Clear(incoming)'
    BY <2>7, <2>9
  <2>11. QED
    BY <2>8, <2>9, <2>10 DEF StaleInv
<1>3. CASE RejectCall
  BY <1>3, QuietStale DEF RejectCall, Return, callerVars
<1>4. CASE Corrupt(BUY_SIDE, k)
  BY <1>4, QuietStale DEF Corrupt, callerVars
<1>5. QED
  BY <1>2, <1>3, <1>4 DEF ModifyOrder

(* Every step keeps StaleInv, when an order is entered once.               *)
LEMMA StepStale ==
  MaxSubmits = 1 /\ IInv /\ FindInv /\ StaleInv /\ [Next]_vars => StaleInv'
<1> SUFFICES ASSUME MaxSubmits = 1, IInv, FindInv, StaleInv, [Next]_vars PROVE StaleInv'
  OBVIOUS
<1>1. CASE Call
  BY <1>1, BuildOrderStale, NewOrderStale, CancelOrderStale, ModifyOrderStale DEF Call
<1>2. CASE Reject \/ Filled
  BY <1>2, QuietStale DEF Reject, Filled, Return, callerVars
<1>3. CASE BeginMatch
  BY <1>3, QuietStale DEF BeginMatch, callerVars
<1>4. CASE Rest \/ RestRemainder
  BY <1>4, RestRemainderValid, EndRestStale DEF Rest, RestRemainder
<1>5. CASE UNCHANGED vars
  <2>1. Book' = Book /\ NoneAges
    BY <1>5, BookNotTouched DEF vars
  <2>2. \A q : (Clear(q) => Clear(q)') /\ (OwnEntry(q) => OwnEntry(q)')
    BY <2>1, ClearStays
  <2>3. QED
    BY <1>5, <2>1, <2>2 DEF StaleInv, vars, callerVars
<1>6. QED
  BY <1>1, <1>2, <1>3, <1>4, <1>5, TakeBestStale, PutBackStale DEF Next, Step

-----------------------------------------------------------------------------
(* The arithmetic of a match.                                              *)

(* What may be left of makers.                                             *)
LEMMA LeftIs ==
  ASSUME NEW makers, \A m \in makers : m.volume \in Nat
  PROVE  /\ \A left \in LB!Left(makers) : left \in [makers -> Nat]
         /\ \A left \in [makers -> Nat] :
              (\A m \in makers : left[m] <= m.volume) => left \in LB!Left(makers)
<1> DEFINE U == UNION {0 .. m.volume : m \in makers}
<1>1. U \subseteq Nat
  OBVIOUS
<1>2. \A m \in makers : 0 .. m.volume \subseteq U
  OBVIOUS
<1> HIDE DEF U
<1>3. ASSUME NEW left \in [makers -> Nat], \A m \in makers : left[m] <= m.volume
      PROVE  left \in [makers -> U]
  <2>1. \A m \in makers : left[m] \in 0 .. m.volume
    BY <1>3
  <2>2. QED
    BY <1>2, <2>1
<1>4. \A left \in [makers -> U] : left \in [makers -> Nat]
  BY <1>1
<1>5. LB!Left(makers) = [makers -> U]
  BY DEF LB!Left, U
<1>6. QED
  BY <1>3, <1>4, <1>5

(* The volume of makers.                                                   *)
LEMMA SumNat ==
  ASSUME NEW makers, IsFiniteSet(makers), \A m \in makers : m.volume \in Nat
  PROVE  /\ LB!Sum(makers) \in Nat
         /\ LB!Sum(makers) = LB!Total([m \in makers |-> m.volume])
         /\ makers = {} => LB!Sum(makers) = 0
<1>1. [m \in makers |-> m.volume] \in [makers -> Nat]
  OBVIOUS
<1>2. LB!Sum(makers) = LB!Total([m \in makers |-> m.volume])
  BY DEF LB!Sum
<1>3. QED
  BY <1>1, <1>2, TotalNat

(* Nothing has traded yet.                                                 *)
LEMMA FillsNothing ==
  ASSUME NEW makers, IsFiniteSet(makers), \A m \in makers : m.volume \in Nat,
         NEW o, o.volume \in Nat
  PROVE  LET left == [m \in makers |-> m.volume]
         IN  left \in LB!Left(makers) /\ Fills(o, o.volume, makers, left)
<1> DEFINE left == [m \in makers |-> m.volume]
<1>1. left \in [makers -> Nat] /\ \A m \in makers : left[m] = m.volume
  OBVIOUS
<1>2. left \in LB!Left(makers)
  BY <1>1, LeftIs
<1>3. o.volume - o.volume = LB!Sum(makers) - LB!Total(left)
  BY SumNat
<1> HIDE DEF left
<1>4. Fills(o, o.volume, makers, left)
  BY <1>1, <1>2, <1>3 DEF Fills
<1>5. QED
  BY <1>2, <1>4 DEF left

(* m is whole, nothing better has anything left, and t of it trades.       *)
LEMMA FillsMore ==
  ASSUME NEW makers, IsFiniteSet(makers), \A m \in makers : m.volume \in Nat,
         NEW o, o.volume \in Nat, NEW rest \in Nat, rest # 0,
         NEW left, Fills(o, rest, makers, left),
         NEW x \in makers, left[x] = x.volume,
         \A m \in makers : LB!Better(m.side, m.price, x.price) => left[m] = 0,
         NEW t \in Nat, t = IF rest < x.volume THEN rest ELSE x.volume,
         NEW now, now = [left EXCEPT ![x] = x.volume - t]
  PROVE  Fills(o, rest - t, makers, now) /\ now \in LB!Left(makers)
<1>1. /\ left \in [makers -> Nat] /\ x.volume \in Nat /\ x.volume - t \in Nat
      /\ rest - t \in Nat
  BY LeftIs DEF Fills
<1>2. /\ now \in [makers -> Nat] /\ now[x] = x.volume - t
      /\ \A m \in makers : m # x => now[m] = left[m]
  BY <1>1
<1>3. \A m \in makers : now[m] <= left[m]
  BY <1>1, <1>2
<1>4. \A m \in makers : now[m] <= m.volume
  BY <1>1, <1>2, <1>3 DEF Fills
<1>5. now \in LB!Left(makers)
  BY <1>2, <1>4, LeftIs
<1>6. o.volume - (rest - t) = LB!Sum(makers) - LB!Total(now)
  <2>1. LB!Total(now) = LB!Total(left) - x.volume + (x.volume - t)
    <3>1. PICK v \in Nat : v = x.volume - t
      BY <1>1
    <3>2. now = [left EXCEPT ![x] = v]
      BY <3>1
    <3>3. LB!Total(now) = LB!Total(left) - left[x] + v
      <4>1. Updates(left, makers)
        BY <1>1, TotalUpdate
      <4>2. QED
        BY <3>2, <4>1 DEF Updates
    <3>4. QED
      BY <3>1, <3>3
  <2>2. LB!Total(left) \in Nat /\ LB!Sum(makers) \in Nat
    BY <1>1, TotalNat, SumNat
  <2>3. o.volume - rest = LB!Sum(makers) - LB!Total(left)
    BY DEF Fills
  <2>4. QED
    BY <1>1, <2>1, <2>2, <2>3
<1>7. ASSUME NEW m \in makers, NEW w \in makers,
             LB!Better(m.side, m.price, w.price), now[m] > 0
      PROVE  now[w] = w.volume
  <2>1. left[m] > 0
    BY <1>1, <1>2, <1>3, <1>7
  <2>2. w # x
    BY <1>7, <2>1
  <2>3. left[w] = w.volume
    BY <1>7, <2>1 DEF Fills
  <2>4. QED
    BY <1>2, <2>2, <2>3
<1>8. ASSUME NEW m \in makers, now[m] \notin {0, m.volume}
      PROVE  rest - t = 0 /\ m = x
  <2>1. m = x
    BY <1>2, <1>8 DEF Fills
  <2>2. t # x.volume
    BY <1>1, <1>2, <1>8, <2>1
  <2>3. t = rest
    BY <2>2
  <2>4. QED
    BY <2>1, <2>3
<1>9. QED
  BY <1>4, <1>5, <1>6, <1>7, <1>8 DEF Fills

(* A match that has ended has allocated what there was.                    *)
LEMMA FillsAllocates ==
  ASSUME NEW makers, IsFiniteSet(makers), \A m \in makers : m.volume \in Nat,
         NEW o, o.volume \in Nat, NEW rest \in Nat,
         NEW left, Fills(o, rest, makers, left),
         rest # 0 => \A m \in makers : left[m] = 0
  PROVE  /\ LB!Allocation(makers, o, left)
         /\ rest = IF o.volume > LB!Sum(makers) THEN o.volume - LB!Sum(makers) ELSE 0
<1>1. left \in [makers -> Nat]
  BY LeftIs DEF Fills
<1>2. LB!Total(left) \in Nat /\ LB!Sum(makers) \in Nat
  BY <1>1, TotalNat, SumNat
<1>3. o.volume - rest = LB!Sum(makers) - LB!Total(left)
  BY DEF Fills
<1>4. rest # 0 => LB!Total(left) = 0
  BY <1>1, TotalNat
<1>5. LB!Sum(makers) - LB!Total(left) =
        IF o.volume < LB!Sum(makers) THEN o.volume ELSE LB!Sum(makers)
  BY <1>2, <1>3, <1>4
<1>6. rest = IF o.volume > LB!Sum(makers) THEN o.volume - LB!Sum(makers) ELSE 0
  BY <1>2, <1>3, <1>4
<1>7. QED
  BY <1>5, <1>6 DEF Fills, LB!Allocation

OwnStamps(orders) ==
  orders \subseteq Orders /\ \A m, w \in orders : m.ts = w.ts => m = w

Leaves(orders, makers, left, x, r, now) ==
  Remaining(orders, makers, now) =
    (Remaining(orders, makers, left) \ {x})
      \cup (IF r > 0 THEN {[x EXCEPT !.volume = r]} ELSE {})

(* What the book holds when m of it goes and r of m comes back.            *)
LEMMA RemainingTakes ==
  ASSUME NEW orders, OwnStamps(orders), NEW makers \in SUBSET orders,
         NEW left \in [makers -> Nat],
         NEW x \in makers, left[x] = x.volume, x.volume > 0, NEW r \in Nat,
         NEW now, now = [left EXCEPT ![x] = r]
  PROVE  Leaves(orders, makers, left, x, r, now)
<1> DEFINE Part(f) == {[m EXCEPT !.volume = f[m]] : m \in {w \in makers : f[w] > 0}}
           Others == {[m EXCEPT !.volume = left[m]] :
                        m \in {w \in makers \ {x} : left[w] > 0}}
<1>1. now \in [makers -> Nat] /\ now[x] = r /\ \A m \in makers \ {x} : now[m] = left[m]
  OBVIOUS
<1>2. x \in Orders /\ [x EXCEPT !.volume = left[x]] = x
  BY DEF Orders, OwnStamps
<1>3. Part(left) = Others \cup {x}
  BY <1>2
<1>4. Part(now) = Others \cup (IF r > 0 THEN {[x EXCEPT !.volume = r]} ELSE {})
  BY <1>1
<1>5. x \notin Others
  <2> SUFFICES ASSUME NEW m \in makers \ {x}, x = [m EXCEPT !.volume = left[m]]
               PROVE  FALSE
    OBVIOUS
  <2>1. m \in Orders
    BY DEF OwnStamps
  <2>2. x.ts = m.ts
    BY <2>1 DEF Orders
  <2>3. QED
    BY <2>2 DEF OwnStamps
<1>6. /\ Remaining(orders, makers, left) = (orders \ makers) \cup Part(left)
      /\ Remaining(orders, makers, now) = (orders \ makers) \cup Part(now)
  BY DEF Remaining
<1> HIDE DEF Part, Others
<1>7. QED
  BY <1>3, <1>4, <1>5, <1>6 DEF Leaves

-----------------------------------------------------------------------------
(* The book between two steps.                                             *)

StaleKeys == {k \in Keys : \E s \in Sides : Stale(s, k)}

Known == IInv /\ FindInv /\ QueuesFinite /\ StaleInv
Shows == Spent = StaleKeys /\ getTopOfBook \in LB!Tops(Book)

(* Outside, the entries that dangle are those that are stale, and the top  *)
(* is a best order of each side.                                           *)
LEMMA KnownShows == Known => Shows
<1> SUFFICES ASSUME Known PROVE Shows
  OBVIOUS
<1>1. BookInv /\ Placed /\ QueuesFinite /\ \A o \in Book : Clear(o)
  BY FindParts, Parts DEF Known, StaleInv
<1>2. QED
  BY <1>1, SpentIs, TopsShown DEF Shows, StaleKeys

(* The orders that rest have handles of their own.                         *)
LEMMA BookRests ==
  ASSUME Known
  PROVE  /\ IsFiniteSet(Book) /\ Book \subseteq Orders
         /\ \A m, w \in Book : m.volume > 0 /\ (m.ts = w.ts => m = w)
         /\ \A m \in Book, k \in Spent : k[2] # m.ts
<1>1. BookInv /\ Placed /\ QueuesFinite /\ \A o \in Book : Clear(o)
  BY FindParts, Parts DEF Known, StaleInv
<1>2. IsFiniteSet(Book)
  <2>1. IsFiniteSet(Live)
    BY <1>1, FS_Union DEF Live, QueuesFinite, Sides
  <2> DEFINE f == [n \in Live |-> node[n]]
  <2>2. f \in Surjection(Live, Book)
    <3>1. f \in [Live -> Book] /\ \A o \in Book : \E n \in Live : f[n] = o
      BY DEF Book
    <3>2. QED
      BY <3>1, Fun_IsSurj
  <2>3. QED
    BY <2>1, <2>2, FS_Surjection
<1>3. \A m \in Book : \E n \in Live : m = node[n] /\ node[n] \in Orders
  BY <1>1, LiveHolds DEF Book
<1>4. \A n \in Live : node[n].volume > 0
  <2> SUFFICES ASSUME NEW n \in Live PROVE node[n].volume > 0
    OBVIOUS
  <2>1. node[n] \in Orders /\ isValid(node[n])
    BY <1>1, LiveIs DEF BookInv, QueuesValid
  <2>2. QED
    BY <2>1 DEF isValid, Orders
<1>5. \A m, w \in Book : m.ts = w.ts => m = w
  BY <1>1, <1>3 DEF Placed
<1>6. \A m \in Book, k \in Spent : k[2] # m.ts
  BY <1>1, KnownShows DEF Shows, StaleKeys, Clear
<1>7. QED
  BY <1>2, <1>3, <1>4, <1>5, <1>6

(* A step that leaves the book leaves what is spent.                       *)
LEMMA SpentStays == UNCHANGED bookVars => Spent' = Spent /\ getTopOfBook' = getTopOfBook
BY DEF bookVars, Spent, Dangling, SideOf, Indexed, getTopOfBook, Top, IsTop, Precedes

-----------------------------------------------------------------------------
(* The calls and their steps keep SeenInv.                                 *)

Running == pc \in {"enter", "match", "repush"}

(* A running call was to enter o into orders.                              *)
AsksFor(orders, o) ==
  /\ orders \in SUBSET before.book /\ o.volume \in Volumes
  /\ o = [incoming EXCEPT !.volume = o.volume]

(* Its match stands where left is left.                                    *)
Stands(orders, o, left) ==
  /\ AsksFor(orders, o) /\ Asked(orders, o) /\ Rested(orders)
  /\ left \in LB!Left(LB!Crossing(orders, o))
  /\ Matched(orders, o, LB!Crossing(orders, o), left)

(* What SeenInv says, with the order that was asked for as a name.         *)
LEMMA SeenAsks ==
  ASSUME IInv, SeenInv, Running, ~ub
  PROVE  \E orders, o : AsksFor(orders, o) /\ Seen(orders, o) /\ o \in Orders
<1>1. PICK orders \in SUBSET before.book, v \in Volumes :
         Seen(orders, [incoming EXCEPT !.volume = v])
  BY DEF SeenInv, Running
<1>2. PICK o : o = [incoming EXCEPT !.volume = v]
  OBVIOUS
<1>3. incoming \in Orders /\ v \in Nat
  BY DEF IInv, CallInv, Running
<1>4. o \in Orders /\ o.volume = v
  BY <1>2, <1>3 DEF Orders
<1>5. QED
  BY <1>1, <1>2, <1>4 DEF AsksFor

(* ... and with what is left of the makers.                                *)
LEMMA SeenStands ==
  ASSUME IInv, SeenInv, pc \in {"match", "repush"}, ~ub
  PROVE  \E orders, o, left : Stands(orders, o, left) /\ o \in Orders
<1>1. PICK orders, o : AsksFor(orders, o) /\ Seen(orders, o) /\ o \in Orders
  BY SeenAsks DEF Running
<1>2. PICK left \in LB!Left(LB!Crossing(orders, o)) :
         Matched(orders, o, LB!Crossing(orders, o), left)
  BY <1>1 DEF Seen
<1>3. QED
  BY <1>1, <1>2 DEF Stands, Seen

(* SeenInv where a call begins,                                            *)
LEMMA EnterSeen ==
  ASSUME NEW orders, NEW o, AsksFor(orders, o)', Asked(orders, o)', Rested(orders)',
         pc' = "enter", incoming' = o, Book' = orders, Spent' = before'.spent
  PROVE  SeenInv'
<1>1. Seen(orders, o)'
  BY DEF Seen
<1>2. QED
  BY <1>1 DEF SeenInv, AsksFor

(* and where a match stands.                                               *)
LEMMA StandsSeen ==
  ASSUME NEW orders, NEW o, NEW left, Stands(orders, o, left)',
         pc' \in {"match", "repush"}
  PROVE  SeenInv'
<1>1. Seen(orders, o)'
  BY DEF Seen, Stands
<1>2. QED
  BY <1>1 DEF SeenInv, AsksFor, Stands

(* Which orders cross.                                                     *)
LEMMA CrossingIs ==
  ASSUME NEW orders, orders \subseteq Orders, NEW o \in Orders
  PROVE  LB!Crossing(orders, o) =
           {m \in orders : m.side = Opposite(o.side) /\ priceCrosses(o, m)}
<1> SUFFICES ASSUME NEW m \in orders
             PROVE  (m.side # o.side /\ ~LB!Better(m.side, o.price, m.price))
                      <=> (m.side = Opposite(o.side) /\ priceCrosses(o, m))
  BY DEF LB!Crossing
<1>1. /\ m.side \in Sides /\ o.side \in Sides /\ m.price \in Nat /\ o.price \in Nat
  BY DEF Orders
<1>2. m.side # o.side <=> m.side = Opposite(o.side)
  BY <1>1 DEF Sides, Opposite, BUY_SIDE, SELL_SIDE
<1>3. CASE o.side = BUY_SIDE
  BY <1>1, <1>2, <1>3 DEF Opposite, priceCrosses, LB!Better, BUY_SIDE, SELL_SIDE
<1>4. CASE o.side = SELL_SIDE
  BY <1>1, <1>2, <1>4 DEF Opposite, priceCrosses, LB!Better, BUY_SIDE, SELL_SIDE
<1>5. QED
  BY <1>1, <1>3, <1>4 DEF Sides

(* A call begins: what rests is what before says.                          *)
LEMMA NewOrderSeen ==
  ASSUME Known, MaxSubmits = 1, NEW m \in made, NewOrder(m[1], m[2])
  PROVE  SeenInv'
<1>1. PICK o : o = m[1]
  OBVIOUS
<1>2. /\ pc' = "enter" /\ incoming' = o /\ carry' = {}
      /\ before' = Snapshot /\ UNCHANGED bookVars
  BY <1>1 DEF NewOrder, Enter
<1>3. o \in LB!Offers /\ o \in InHand /\ o \in Orders
  BY <1>1, HandTyped DEF Known, StaleInv, InHand
<1>4. before'.book = Book /\ before'.spent = Spent
  BY <1>2 DEF Snapshot
<1>5. Book' = Book /\ Spent' = Spent
  BY <1>2, BookNotTouched, SpentStays
<1>6. o.volume \in Volumes /\ o = [o EXCEPT !.volume = o.volume]
  BY <1>3 DEF LB!Offers
<1>7. AsksFor(Book, o)'
  BY <1>2, <1>4, <1>5, <1>6 DEF AsksFor
<1>8. \A w \in Book : w.ts # o.ts
  BY <1>3, FindParts DEF Known, MayRest, Book
<1>9. Asked(Book, o)'
  BY <1>2, <1>3, <1>4, <1>5, <1>8 DEF Asked, LB!Offers
<1>10. Rested(Book)'
  BY <1>4, <1>5, BookRests DEF Rested
<1>11. QED
  BY <1>2, <1>4, <1>5, <1>7, <1>9, <1>10, EnterSeen

(* A modify has taken the order of its handle out, and begins its newOrder.*)
LEMMA ModifyOrderSeen ==
  ASSUME Known, Shows, Shows', NEW k \in Keys, ModifyOrder(k), ~ub', Running'
  PROVE  SeenInv'
<1>1. BUY_SIDE \in Sides /\ pc = "idle"
  BY DEF Sides, ModifyOrder
<1>2. PICK p, v, x :
        /\ p \in Prices /\ v \in Volumes
        /\ x = node[id_to_iter_[BUY_SIDE][k]]
        /\ Take(BUY_SIDE, k) /\ nextTimestampNs
        /\ Enter(MakeOrder(x.id, p, v, x.side, x.client), {"CANCELLED"})
  BY <1>1 DEF ModifyOrder, RejectCall, Corrupt, Running, Return
<1>3. PICK o : o = MakeOrder(x.id, p, v, x.side, x.client)
  OBVIOUS
<1>4. IInv /\ FindInv /\ StaleInv
  BY DEF Known
<1>5. Taken(BUY_SIDE, k, x)
  BY <1>1, <1>2, <1>4, TakeTakes
<1>6. k = Key(x)
  BY <1>5 DEF Taken
<1>7. /\ x \in Book /\ x \in Orders /\ x.side = BUY_SIDE /\ Book' = Book \ {x}
      /\ \A r \in Sides, j \in Keys : Stale(r, j)' <=> Stale(r, j)
  BY <1>5, <1>6 DEF Taken
<1>8. Spent' = Spent
  BY <1>7 DEF Shows, StaleKeys
<1>9. /\ pc' = "enter" /\ incoming' = o /\ carry' = {"CANCELLED"}
      /\ before'.book = Book /\ before'.spent = Spent
  BY <1>2, <1>3 DEF Enter, Snapshot
<1>10. o.ts = (Epoch + seq_counter_) % Word /\ o.volume = v /\ o.price = p
  BY <1>3 DEF MakeOrder
<1>11. o = [x EXCEPT !.ts = o.ts, !.price = o.price, !.volume = o.volume]
  <2>1. PICK ts : ts = (Epoch + seq_counter_) % Word
    OBVIOUS
  <2>2. o = [id |-> x.id, ts |-> ts, price |-> p, volume |-> v, side |-> x.side,
             client |-> x.client]
    BY <1>3, <2>1 DEF MakeOrder
  <2>3. PICK y : y = [x EXCEPT !.ts = ts]
    OBVIOUS
  <2>4. y = [id |-> x.id, ts |-> ts, price |-> x.price, volume |-> x.volume,
             side |-> x.side, client |-> x.client]
    BY <1>7, <2>3 DEF Orders
  <2>5. PICK z : z = [y EXCEPT !.price = p]
    OBVIOUS
  <2>6. z = [id |-> x.id, ts |-> ts, price |-> p, volume |-> x.volume,
             side |-> x.side, client |-> x.client]
    BY <2>4, <2>5
  <2>7. o = [z EXCEPT !.volume = v]
    BY <2>2, <2>6
  <2>8. [x EXCEPT !.ts = ts, !.price = p, !.volume = v] = [z EXCEPT !.volume = v]
    BY <2>3, <2>5
  <2>9. QED
    BY <1>10, <2>1, <2>7, <2>8
<1>12. o = [o EXCEPT !.volume = o.volume]
  BY <1>3 DEF MakeOrder
<1>13. \A m \in Book : m.ts # o.ts
  <2>1. o.ts \notin Drawn
    BY <1>2, <1>4, <1>10, NextIsFresh DEF IInv, TypeOK
  <2>2. \A m \in Book : m.ts \in Drawn
    BY <1>4, FindParts, LiveIs DEF Book, Placed
  <2>3. QED
    BY <2>1, <2>2
<1> DEFINE orders == Book \ {x}
<1>14. AsksFor(orders, o)'
  BY <1>2, <1>7, <1>9, <1>10, <1>12 DEF AsksFor
<1>15. Asked(orders, o)'
  BY <1>7, <1>9, <1>11, <1>13 DEF Asked
<1>16. Rested(orders)'
  BY <1>7, <1>9, BookRests, FS_RemoveElement DEF Rested
<1>17. QED
  BY <1>7, <1>8, <1>9, <1>14, <1>15, <1>16, EnterSeen

(* Other callers only add to what is made.                                 *)
LEMMA SeenStays ==
  ASSUME SeenInv, UNCHANGED <<bookVars, pc, incoming, popped, carry, ub, before>>
  PROVE  SeenInv'
<1>1. Book' = Book /\ Spent' = Spent
  BY BookNotTouched, SpentStays
<1>2. ASSUME NEW orders, NEW o, Seen(orders, o) PROVE Seen(orders, o)'
  <2>1. (Asked(orders, o) <=> Asked(orders, o)') /\ (Rested(orders) <=> Rested(orders)')
    BY DEF Asked, Rested
  <2>2. Held' = Held
    BY <1>1 DEF Held
  <2>3. ASSUME NEW makers, NEW left, Matched(orders, o, makers, left)
        PROVE  Matched(orders, o, makers, left)'
    BY <1>1, <2>2, <2>3 DEF Matched
  <2>4. QED
    BY <1>1, <1>2, <2>1, <2>3 DEF Seen
<1>3. ASSUME Running, ~ub PROVE SeenInv'
  <2>1. PICK orders \in SUBSET before.book, v \in Volumes :
           Seen(orders, [incoming EXCEPT !.volume = v])
    BY <1>3 DEF SeenInv, Running
  <2>2. PICK o : o = [incoming EXCEPT !.volume = v]
    OBVIOUS
  <2>3. Seen(orders, o)'
    BY <1>2, <2>1, <2>2
  <2>4. QED
    BY <2>2, <2>3 DEF SeenInv
<1>4. QED
  BY <1>3 DEF SeenInv, Running

(* The matching loop begins with all makers whole.                         *)
LEMMA BeginMatchSeen == ASSUME Known, SeenInv, BeginMatch, ~ub PROVE SeenInv'
<1>1. /\ pc = "enter" /\ pc' = "match" /\ isValid(incoming) /\ canCross(incoming)
      /\ UNCHANGED <<bookVars, incoming, popped, carry, before>>
  BY DEF BeginMatch
<1>2. PICK orders, o : AsksFor(orders, o) /\ Seen(orders, o) /\ o \in Orders
  BY <1>1, SeenAsks DEF Known, Running
<1>3. /\ incoming = o /\ Book = orders /\ Spent = before.spent
      /\ Asked(orders, o) /\ Rested(orders)
  BY <1>1, <1>2 DEF Seen
<1>4. Book' = Book /\ Spent' = Spent
  BY <1>1, BookNotTouched, SpentStays
<1> DEFINE makers == LB!Crossing(orders, o)
           left == [m \in makers |-> m.volume]
<1>5. /\ orders \subseteq Orders /\ makers \subseteq orders
      /\ IsFiniteSet(makers) /\ \A m \in makers : m.volume \in Nat /\ m.volume > 0
  <2>1. orders \subseteq Orders /\ IsFiniteSet(orders) /\ makers \subseteq orders
    BY <1>3 DEF Rested, LB!Crossing
  <2>2. QED
    BY <1>3, <2>1, FS_Subset DEF Orders, Rested
<1>6. makers # {}
  <2>1. PICK n \in price_sorted_[Opposite(o.side)] : priceCrosses(o, node[n])
    BY <1>1, <1>3 DEF canCross
  <2>2. o.side \in Sides /\ Opposite(o.side) \in Sides
    BY <1>2, KeyIs, OppositeIs
  <2>3. node[n] \in orders /\ node[n].side = Opposite(o.side)
    BY <1>3, <2>1, <2>2, LiveHolds, FindParts, Parts DEF Known, Book
  <2>4. makers = {m \in orders : m.side = Opposite(o.side) /\ priceCrosses(o, m)}
    BY <1>2, <1>5, CrossingIs
  <2>5. QED
    BY <2>1, <2>3, <2>4
<1>7. left \in LB!Left(makers) /\ Fills(o, o.volume, makers, left)
  BY <1>2, <1>5, FillsNothing DEF Orders
<1>8. Remaining(orders, makers, left) = orders
  <2>1. \A m \in makers : [m EXCEPT !.volume = left[m]] = m /\ left[m] > 0
    BY <1>5 DEF Orders
  <2> HIDE DEF left, makers
  <2>2. QED
    BY <1>5, <2>1 DEF Remaining
<1> HIDE DEF left, makers
<1>9. Held' = orders
  BY <1>1, <1>3, <1>4 DEF Held
<1>10. Matched(orders, o, makers, left)'
  BY <1>1, <1>3, <1>4, <1>6, <1>7, <1>8, <1>9 DEF Matched
<1>11. AsksFor(orders, o)' /\ Asked(orders, o)' /\ Rested(orders)'
  BY <1>1, <1>2, <1>3 DEF AsksFor, Asked, Rested
<1>12. Stands(orders, o, left)'
  BY <1>7, <1>10, <1>11 DEF Stands, makers
<1>13. QED
  BY <1>1, <1>12, StandsSeen

(* One trade: the best order of the other side is a maker that is whole,   *)
(* and no better one has anything left.                                    *)
LEMMA TopIsMaker ==
  ASSUME Known, pc = "match", NEW orders, NEW o \in Orders, NEW left,
         Stands(orders, o, left), incoming.volume # 0,
         NEW n, IsTop(Opposite(incoming.side), n), priceCrosses(incoming, node[n])
  PROVE  LET makers == LB!Crossing(orders, o)
             x == node[n]
         IN  /\ x \in makers /\ left[x] = x.volume
             /\ \A m \in makers : LB!Better(m.side, m.price, x.price) => left[m] = 0
<1> DEFINE makers == LB!Crossing(orders, o)
           x == node[n]
           opp == Opposite(o.side)
<1>1. incoming.side = o.side /\ incoming.price = o.price /\ opp \in Sides
  <2>1. incoming \in Orders
    BY DEF Known, IInv, CallInv
  <2>2. o = [incoming EXCEPT !.volume = o.volume]
    BY DEF Stands, AsksFor
  <2>3. QED
    BY <2>1, <2>2, KeyIs, OppositeIs DEF Orders
<1>2. BookInv /\ Placed
  BY FindParts, Parts DEF Known
<1>3. /\ n \in price_sorted_[opp] /\ n \in Live /\ x \in Orders /\ x.side = opp
      /\ x \in Book /\ priceCrosses(o, x)
  BY <1>1, <1>2, LiveHolds DEF IsTop, priceCrosses, Book
<1>4. /\ orders \subseteq Orders
      /\ makers = {m \in orders : m.side = opp /\ priceCrosses(o, m)}
  BY CrossingIs DEF Stands, Rested
<1>5. /\ Book = Remaining(orders, makers, left)
      /\ Fills(o, incoming.volume, makers, left)
  BY DEF Stands, Matched, Held
<1>6. left \in [makers -> Nat]
  BY <1>4, <1>5, LeftIs DEF Fills, Orders
<1> HIDE DEF makers, x
<1>7. \A m \in makers : left[m] \in {0, m.volume}
  BY <1>5 DEF Fills
<1>8. x \in makers /\ left[x] = x.volume
  <2>1. x \notin orders \ makers
    BY <1>3, <1>4
  <2>2. PICK m \in makers : left[m] > 0 /\ x = [m EXCEPT !.volume = left[m]]
    BY <1>3, <1>5, <2>1 DEF Remaining
  <2>3. left[m] = m.volume
    BY <1>6, <1>7, <2>2
  <2>4. x = m
    BY <1>4, <2>2, <2>3 DEF Orders
  <2>5. QED
    BY <2>3, <2>4
<1>9. ASSUME NEW m \in makers, LB!Better(m.side, m.price, x.price), left[m] # 0
      PROVE  FALSE
  <2>1. PICK w : w = [m EXCEPT !.volume = left[m]]
    OBVIOUS
  <2>2. left[m] > 0 /\ m \in Orders /\ m.side = opp
    BY <1>4, <1>6, <1>9
  <2>3. w \in Book
    BY <1>5, <2>1, <2>2 DEF Remaining
  <2>4. w.side = opp /\ w.price = m.price
    BY <2>1, <2>2 DEF Orders
  <2>5. PICK l \in Live : w = node[l]
    BY <2>3 DEF Book
  <2>6. l \in price_sorted_[opp] /\ node[l] \in Orders
    BY <1>2, <2>4, <2>5, LiveIs, LiveHolds
  <2>7. ~Precedes(opp, node[l], x)
    BY <1>1, <2>6 DEF IsTop, x
  <2>8. ~BetterPrice(opp, w.price, x.price)
    BY <1>3, <2>5, <2>6, <2>7, PrecedesOrders
  <2>9. QED
    BY <1>9, <2>2, <2>4, <2>8 DEF BetterPrice, LB!Better
<1>10. QED
  BY <1>8, <1>9 DEF makers, x

(* One trade: what is spent is at most the handle of the order it took.    *)
LEMMA TradeSpends ==
  ASSUME Known, Shows, Shows', NEW s \in Sides, NEW n \in price_sorted_[s], Pop(s, n)
  PROVE  /\ Book' = Book \ {node[n]} /\ Spent \subseteq Spent'
         /\ \A k \in Spent' : k \in Spent \/ k = Key(node[n])
<1>1. BookInv /\ Placed
  BY FindParts, Parts DEF Known
<1>2. node[n] \in Orders /\ node[n] \in Book
  BY <1>1, LiveHolds DEF Book
<1>3. PICK t : t = Truncated(Key(node[n]))
  OBVIOUS
<1>4. t \in Keys /\ t[2] = node[n].ts
  BY <1>2, <1>3 DEF Truncated, Key, Keys, Words, Orders
<1>5. /\ Book' = Book \ {node[n]}
      /\ \A r \in Sides, j \in Keys :
           /\ Stale(r, j)' => Stale(r, j) \/ (r = s /\ j = Key(node[n]))
           /\ Stale(r, j) /\ ~(r = s /\ j = t) => Stale(r, j)'
  BY <1>1, <1>3, <1>4, TakeOutBook DEF Pop
<1>6. \A r \in Sides : ~Stale(r, t)
  BY <1>2, <1>4 DEF Known, StaleInv, Clear
<1>7. Spent = StaleKeys /\ Spent' = StaleKeys'
  BY DEF Shows
<1>8. Spent \subseteq Spent'
  BY <1>5, <1>6, <1>7 DEF StaleKeys
<1>9. \A k \in Spent' : k \in Spent \/ k = Key(node[n])
  BY <1>5, <1>7 DEF StaleKeys
<1>10. QED
  BY <1>5, <1>8, <1>9

(* What is left of an order is that order with another volume.             *)
LEMMA VolumeOnly ==
  ASSUME NEW x \in Orders, NEW v, NEW y, y = [x EXCEPT !.volume = v]
  PROVE  /\ y.volume = v /\ y.id = x.id /\ y.ts = x.ts /\ y.price = x.price
         /\ y.side = x.side /\ y.client = x.client /\ Key(y) = Key(x)
         /\ \A u : [y EXCEPT !.volume = u] = [x EXCEPT !.volume = u]
         /\ v \in Nat => y \in Orders
BY DEF Orders, Key

(* TakeBest keeps SeenInv.                                                 *)
LEMMA TakeBestSeen ==
  ASSUME Known, Shows, Shows', SeenInv, TakeBest, ~ub PROVE SeenInv'
<1>1. /\ pc = "match" /\ pc' = "repush" /\ isValid(incoming)
      /\ UNCHANGED <<carry, before>>
  BY DEF TakeBest
<1>2. PICK orders, o, left : Stands(orders, o, left) /\ o \in Orders
  BY <1>1, SeenStands DEF Known
<1>3. PICK opp : opp = Opposite(incoming.side)
  OBVIOUS
<1>4. PICK n, x, t :
        /\ n \in price_sorted_[opp] /\ x = node[n] /\ t = TradeVolume(incoming, x)
        /\ IsTop(opp, n) /\ priceCrosses(incoming, x) /\ Pop(opp, n)
        /\ incoming' = [incoming EXCEPT !.volume = @ - t]
        /\ popped' = [x EXCEPT !.volume = @ - t]
  BY <1>3 DEF TakeBest
<1>5. incoming \in Orders /\ opp \in Sides
  <2>1. incoming \in Orders
    BY <1>1 DEF Known, IInv, CallInv
  <2>2. QED
    BY <1>3, <2>1, KeyIs, OppositeIs
<1>6. x \in Orders /\ x \in Book
  BY <1>4, <1>5, LiveHolds, FindParts, Parts DEF Known, Book
<1>7. PICK rest : rest = incoming.volume
  OBVIOUS
<1>8. /\ rest \in Nat /\ rest # 0 /\ x.volume \in Nat /\ x.volume > 0
      /\ t = IF rest < x.volume THEN rest ELSE x.volume
      /\ t \in Nat /\ x.volume - t \in Nat /\ rest - t \in Nat
  <2>1. rest \in Nat /\ rest # 0 /\ x.volume \in Nat
    BY <1>1, <1>5, <1>6, <1>7 DEF isValid, Orders
  <2>2. t = IF rest < x.volume THEN rest ELSE x.volume
    BY <1>4, <1>7 DEF TradeVolume
  <2>3. x.volume > 0
    BY <1>6, BookRests
  <2>4. QED
    BY <2>1, <2>2, <2>3
<1>9. PICK makers : makers = LB!Crossing(orders, o)
  OBVIOUS
<1>10. /\ x \in makers /\ left[x] = x.volume
       /\ \A m \in makers : LB!Better(m.side, m.price, x.price) => left[m] = 0
  BY <1>1, <1>2, <1>3, <1>4, <1>7, <1>8, <1>9, TopIsMaker
<1>11. /\ orders \subseteq Orders /\ makers \subseteq orders
       /\ IsFiniteSet(makers) /\ \A m \in makers : m.volume \in Nat /\ m.volume > 0
       /\ \A m, w \in orders : m.ts = w.ts => m = w
  <2>1. orders \subseteq Orders /\ IsFiniteSet(orders) /\ makers \subseteq orders
    BY <1>2, <1>9 DEF Stands, Rested, LB!Crossing
  <2>2. \A m \in orders : m.volume \in Nat
    BY <2>1 DEF Orders
  <2>3. QED
    BY <1>2, <2>1, <2>2, FS_Subset DEF Stands, Rested
<1>12. Fills(o, rest, makers, left) /\ Matched(orders, o, makers, left)
  BY <1>2, <1>7, <1>9 DEF Stands, Matched
<1>13. left \in [makers -> Nat]
  BY <1>11, <1>12, LeftIs DEF Fills
<1>14. PICK r \in Nat : r = x.volume - t
  BY <1>8
<1>15. PICK now : now = [left EXCEPT ![x] = r]
  OBVIOUS
<1>16. /\ now[x] = r /\ \A m \in makers : m # x => now[m] = left[m]
  BY <1>10, <1>13, <1>15
<1>17. Fills(o, rest - t, makers, now) /\ now \in LB!Left(makers)
  <2>1. o.volume \in Nat
    BY <1>2 DEF Orders
  <2>2. QED
    BY <1>8, <1>10, <1>11, <1>12, <1>14, <1>15, <2>1, FillsMore
<1>18. Remaining(orders, makers, now) =
         (Remaining(orders, makers, left) \ {x})
           \cup (IF r > 0 THEN {[x EXCEPT !.volume = r]} ELSE {})
  <2>1. makers \in SUBSET orders
    BY <1>11
  <2>2. OwnStamps(orders)
    BY <1>11 DEF OwnStamps
  <2>3. x \in makers /\ left[x] = x.volume /\ x.volume > 0
    BY <1>8, <1>10
  <2>4. Leaves(orders, makers, left, x, r, now)
    BY <1>13, <1>15, <2>1, <2>2, <2>3, RemainingTakes
  <2>5. QED
    BY <2>4 DEF Leaves
<1>19. /\ popped' = [x EXCEPT !.volume = r] /\ popped'.volume = r
       /\ Key(popped') = Key(x)
  BY <1>4, <1>6, <1>14, VolumeOnly DEF Orders
<1>20. /\ incoming' = [incoming EXCEPT !.volume = rest - t]
       /\ incoming'.volume = rest - t
  BY <1>4, <1>5, <1>7, VolumeOnly DEF Orders
<1>21. /\ Book' = Book \ {x} /\ Spent \subseteq Spent'
       /\ \A k \in Spent' : k \in Spent \/ k = Key(x)
  BY <1>4, <1>5, TradeSpends
<1>22. Held' = Remaining(orders, makers, now)
  <2>1. Book = Remaining(orders, makers, left)
    BY <1>1, <1>12 DEF Matched, Held
  <2>2. QED
    BY <1>1, <1>18, <1>19, <1>21, <2>1 DEF Held
<1>23. ASSUME NEW k \in Spent', k \notin before.spent
       PROVE  \E m \in makers : k = Key(m) /\ (now[m] = 0 \/ k = Key(popped'))
  <2>1. CASE k \in Spent
    <3>1. PICK m \in makers : k = Key(m) /\ left[m] = 0
      BY <1>1, <1>12, <1>23, <2>1 DEF Matched
    <3>2. m # x
      BY <1>8, <1>10, <3>1
    <3>3. QED
      BY <1>16, <3>1, <3>2
  <2>2. CASE k = Key(x)
    BY <1>10, <1>19, <2>2
  <2>3. QED
    BY <1>21, <2>1, <2>2
<1>24. Matched(orders, o, makers, now)'
  <2>1. makers # {} /\ isValid(o) /\ before.spent \subseteq Spent
    BY <1>12 DEF Matched
  <2>2. popped' = [x EXCEPT !.volume = now[x]]
    BY <1>16, <1>19
  <2>3. Fills(o, incoming'.volume, makers, now)
    BY <1>17, <1>20
  <2>4. before' = before
    BY <1>1
  <2>5. QED
    BY <1>1, <1>10, <1>21, <1>22, <1>23, <2>1, <2>2, <2>3, <2>4 DEF Matched
<1>25. AsksFor(orders, o)' /\ Asked(orders, o)' /\ Rested(orders)'
  <2>1. AsksFor(orders, o) /\ Asked(orders, o) /\ Rested(orders)
    BY <1>2 DEF Stands
  <2>2. [incoming' EXCEPT !.volume = o.volume] = [incoming EXCEPT !.volume = o.volume]
    BY <1>5, <1>20, VolumeOnly
  <2>3. QED
    BY <1>1, <2>1, <2>2 DEF AsksFor, Asked, Rested
<1>26. Stands(orders, o, now)'
  BY <1>9, <1>17, <1>24, <1>25 DEF Stands
<1>27. QED
  BY <1>1, <1>26, StandsSeen

(* What is put back mends its entry, and no other becomes stale.           *)
LEMMA PushMends ==
  ASSUME Known, Shows, Shows', NEW s \in Sides, NEW o \in Orders, isValid(o),
         Push(s, o)
  PROVE  /\ Book' = Book \cup {o}
         /\ OwnEntry(o) /\ s = o.side => Spent' = Spent \ {Key(o)}
         /\ Clear(o) => Spent' = Spent
<1>1. BookInv /\ Placed
  BY FindParts, Parts DEF Known
<1>2. /\ Book' = Book \cup {o}
      /\ \A r \in Sides, j \in Keys :
           Stale(r, j)' <=> Stale(r, j) /\ ~(r = s /\ j = Key(o))
  BY <1>1, PushBook
<1>3. Spent = StaleKeys /\ Spent' = StaleKeys'
  BY DEF Shows
<1>4. Key(o) \in Keys /\ Key(o)[2] = o.ts
  BY DEF Key, Keys, Orders
<1>5. ASSUME OwnEntry(o), s = o.side PROVE Spent' = Spent \ {Key(o)}
  <2>1. \A r \in Sides, j \in Keys :
          Stale(r, j)' <=> Stale(r, j) /\ j # Key(o)
    BY <1>2, <1>4, <1>5 DEF OwnEntry
  <2>2. QED
    BY <1>3, <2>1 DEF StaleKeys
<1>6. ASSUME Clear(o) PROVE Spent' = Spent
  <2>1. \A r \in Sides, j \in Keys : Stale(r, j)' <=> Stale(r, j)
    BY <1>2, <1>4, <1>6 DEF Clear
  <2>2. QED
    BY <1>3, <2>1 DEF StaleKeys
<1>7. QED
  BY <1>2, <1>5, <1>6

(* PutBack keeps SeenInv.                                                  *)
LEMMA PutBackSeen ==
  ASSUME Known, Shows, Shows', SeenInv, PutBack, ~ub PROVE SeenInv'
<1>1. /\ pc = "repush" /\ pc' = "match" /\ UNCHANGED <<incoming, carry, before>>
  BY DEF PutBack
<1>2. PICK orders, o, left : Stands(orders, o, left) /\ o \in Orders
  BY <1>1, SeenStands DEF Known
<1>3. PICK makers : makers = LB!Crossing(orders, o)
  OBVIOUS
<1>4. /\ Matched(orders, o, makers, left) /\ Rested(orders) /\ makers \subseteq orders
      /\ left \in LB!Left(makers)
  BY <1>2, <1>3 DEF Stands, LB!Crossing
<1>5. /\ popped \in Orders /\ popped.side = Opposite(incoming.side)
      /\ popped.side \in Sides /\ popped.price # 0 /\ popped.client # NoClient
      /\ popped.volume \in Nat
  <2>1. /\ popped \in Orders /\ popped.side = Opposite(incoming.side)
        /\ popped.price # 0 /\ popped.client # NoClient
    BY <1>1 DEF Known, IInv, CallInv
  <2>2. QED
    BY <2>1 DEF Orders
<1>6. PICK x \in makers : popped = [x EXCEPT !.volume = left[x]]
  BY <1>1, <1>4 DEF Matched
<1>7. /\ x \in Orders /\ x \in orders /\ Key(popped) = Key(x)
      /\ popped.volume = left[x] /\ Key(x)[2] = x.ts
  <2>1. x \in Orders /\ x \in orders
    BY <1>4, <1>6 DEF Rested
  <2>2. QED
    BY <1>6, <2>1, VolumeOnly DEF Key
<1>8. Key(popped) \notin before.spent
  BY <1>4, <1>7 DEF Rested
<1>9. /\ Held = Remaining(orders, makers, left) /\ before.spent \subseteq Spent
      /\ \A k \in Spent \ before.spent : \E m \in makers :
           k = Key(m) /\ (left[m] = 0 \/ k = Key(popped))
  BY <1>4 DEF Matched
<1>10. /\ Held' = Held /\ before.spent \subseteq Spent'
       /\ \A k \in Spent' \ before.spent : \E m \in makers : k = Key(m) /\ left[m] = 0
  <2>1. CASE isValid(popped)
    <3>1. popped.volume > 0
      BY <1>5, <2>1 DEF isValid
    <3>2. OwnEntry(popped) /\ Push(popped.side, popped)
      BY <1>1, <1>5, <2>1 DEF Known, StaleInv, PutBack
    <3>3. Book' = Book \cup {popped} /\ Spent' = Spent \ {Key(popped)}
      BY <1>5, <2>1, <3>2, PushMends
    <3>4. Held' = Held
      BY <1>1, <3>1, <3>3 DEF Held
    <3>5. QED
      BY <1>8, <1>9, <3>3, <3>4
  <2>2. CASE ~isValid(popped)
    <3>1. popped.volume = 0 /\ UNCHANGED bookVars
      BY <1>5, <2>2 DEF isValid, PutBack
    <3>2. Book' = Book /\ Spent' = Spent
      BY <3>1, BookNotTouched, SpentStays
    <3>3. Held' = Held
      BY <1>1, <3>1, <3>2 DEF Held
    <3>4. QED
      BY <1>6, <1>7, <1>9, <3>1, <3>2, <3>3
  <2>3. QED
    BY <2>1, <2>2
<1>11. Matched(orders, o, makers, left)'
  <2>1. makers # {} /\ isValid(o) /\ Fills(o, incoming.volume, makers, left)
    BY <1>4 DEF Matched
  <2>2. QED
    BY <1>1, <1>9, <1>10, <2>1 DEF Matched
<1>12. AsksFor(orders, o)' /\ Asked(orders, o)' /\ Rested(orders)'
  BY <1>1, <1>2 DEF Stands, AsksFor, Asked, Rested
<1>13. Stands(orders, o, left)'
  BY <1>3, <1>4, <1>11, <1>12 DEF Stands
<1>14. QED
  BY <1>1, <1>13, StandsSeen

(* Every step keeps SeenInv, if no handle is used that is spent.           *)
LEMMA StepSeen ==
  MaxSubmits = 1 /\ Known /\ Shows /\ Shows' /\ SeenInv /\ [Next]_vars => SeenInv'
<1> SUFFICES ASSUME MaxSubmits = 1, Known, Shows, Shows', SeenInv, [Next]_vars,
                    Running', ~ub'
             PROVE  SeenInv'
  BY DEF SeenInv, Running
<1>1. CASE UNCHANGED vars
  BY <1>1, SeenStays DEF vars, bookVars
<1>2. CASE \E id \in OrderIds, p \in Prices, v \in Volumes, s \in Sides, c \in Clients :
             BuildOrder(id, p, v, s, c)
  BY <1>2, SeenStays DEF BuildOrder, bookVars
<1>3. CASE \E m \in made : NewOrder(m[1], m[2])
  BY <1>3, NewOrderSeen
<1>4. ASSUME NEW k \in Keys, CancelOrder(k) PROVE FALSE
  BY <1>4 DEF CancelOrder, RejectCall, Return, Corrupt, Running
<1>5. ASSUME NEW k \in Keys, ModifyOrder(k) PROVE SeenInv'
  BY <1>5, ModifyOrderSeen
<1>6. CASE Reject \/ Rest \/ Filled \/ RestRemainder
  BY <1>6 DEF Reject, Rest, Filled, RestRemainder, Return, Running
<1>7. CASE BeginMatch \/ TakeBest \/ PutBack
  <2>1. ~ub
    BY <1>7 DEF BeginMatch, TakeBest, PutBack
  <2>2. QED
    BY <1>7, <2>1, BeginMatchSeen, TakeBestSeen, PutBackSeen
<1>8. QED
  BY <1>1, <1>2, <1>3, <1>4, <1>5, <1>6, <1>7 DEF Next, Call, Step

-----------------------------------------------------------------------------
(* Every step is one of LimitBook, or none for those who see its state.    *)

(* What a step does, seen from outside.                                    *)
AbstractStep == [LB!Step]_(LB!vars)

(* A call is atomic where it returns.                                      *)
LEMMA ReturnIsStep ==
  ASSUME ~ub, LB!Next, ub' = FALSE, pc' = "idle", Shows' PROVE AbstractStep
<1>1. getTopOfBook' \in LB!Tops(Book')
  BY DEF Shows
<1>2. QED
  BY <1>1 DEF AbstractStep, LB!Step

(* Entering what was asked for is a call of LimitBook.                     *)
LEMMA PlaceIsCall ==
  ASSUME IInv, Running, ub = FALSE, ub' = FALSE, NEW orders, NEW o \in Orders,
         AsksFor(orders, o), Asked(orders, o), NEW flags, flags = carry,
         LB!Place(orders, o, flags)
  PROVE  LB!Next
<1>1. \A m \in before.book : m.ts # o.ts
  BY DEF Asked
<1>2. CASE flags = {} /\ orders = before.book /\ o \in LB!Offers
  <2>1. LB!Enter(o)
    BY <1>1, <1>2 DEF LB!Enter, Running
  <2>2. QED
    BY <1>2, <2>1 DEF LB!Next
<1>3. CASE /\ flags = {"CANCELLED"}
           /\ \E c \in before.book \cap Orders :
                /\ c.side = BUY_SIDE /\ orders = before.book \ {c}
                /\ o = [c EXCEPT !.ts = o.ts, !.price = o.price, !.volume = o.volume]
  <2>1. PICK c \in before.book \cap Orders :
                /\ c.side = BUY_SIDE /\ orders = before.book \ {c}
                /\ o = [c EXCEPT !.ts = o.ts, !.price = o.price, !.volume = o.volume]
    BY <1>3
  <2>2. PICK ts, p, v : ts = o.ts /\ p = o.price /\ v = o.volume
    OBVIOUS
  <2>3. ts \in Words /\ p \in Prices /\ v \in Volumes
    BY <2>2 DEF Orders, AsksFor
  <2>4. LB!Replace(Key(c), ts, p, v)
    BY <1>1, <1>3, <2>1, <2>2 DEF LB!Replace, LB!Key, Key, Running
  <2>5. PICK k : k = Key(c)
    OBVIOUS
  <2>6. k \in Words \X Words
    BY <2>5 DEF Key, Orders
  <2>7. LB!Replace(k, ts, p, v)
    BY <2>4, <2>5
  <2>8. QED
    BY <2>3, <2>6, <2>7 DEF LB!Next
<1>4. QED
  BY <1>2, <1>3 DEF Asked

(* What newOrder reports when rest is left and makers have traded.         *)
Outcome(rest, makers) ==
  {"ACCEPTED"} \cup (IF rest = 0 THEN {"FULLY_FILLED"}
                     ELSE IF makers # {} THEN {"PARTIALLY_FILLED"} ELSE {})

(* A call that has matched o, and let what is left of it rest, returns.    *)
LEMMA EndIsPlace ==
  ASSUME Running, ub = FALSE, ub' = FALSE, pc' = "idle", NEW orders, Rested(orders),
         NEW o \in Orders, isValid(o), NEW makers, makers = LB!Crossing(orders, o),
         NEW rest \in Nat, NEW left, Fills(o, rest, makers, left),
         rest # 0 => \A m \in makers : left[m] = 0,
         Book' = Remaining(orders, makers, left)
                   \cup (IF rest > 0 THEN {[o EXCEPT !.volume = rest]} ELSE {}),
         before.spent \subseteq Spent',
         \A k \in Spent' \ before.spent : \E m \in makers : k = Key(m) /\ left[m] = 0,
         NEW flags, ret' = flags \cup Outcome(rest, makers)
  PROVE  LB!Place(orders, o, flags)
<1>1. /\ IsFiniteSet(makers) /\ \A m \in makers : m.volume \in Nat
      /\ o.volume \in Nat
  <2>1. orders \subseteq Orders /\ IsFiniteSet(orders) /\ makers \subseteq orders
    BY DEF Rested, LB!Crossing
  <2>2. QED
    BY <2>1, FS_Subset DEF Orders
<1>2. LB!Acceptable(o)
  BY DEF LB!Acceptable, isValid, Orders
<1>3. /\ LB!Allocation(makers, o, left)
      /\ rest = IF o.volume > LB!Sum(makers) THEN o.volume - LB!Sum(makers) ELSE 0
  BY <1>1, FillsAllocates
<1>4. left \in LB!Left(makers)
  BY DEF Fills
<1>5. Spent' \ before.spent \subseteq {LB!Key(m) : m \in {w \in makers : left[w] = 0}}
  BY DEF LB!Key, Key
<1>6. Book' = (orders \ makers)
                \cup {[m EXCEPT !.volume = left[m]] : m \in {w \in makers : left[w] > 0}}
                \cup (IF rest > 0 THEN {[o EXCEPT !.volume = rest]} ELSE {})
  BY DEF Remaining
<1>7. ret' = flags \cup {"ACCEPTED"}
               \cup (IF rest = 0 THEN {"FULLY_FILLED"}
                     ELSE IF makers # {} THEN {"PARTIALLY_FILLED"} ELSE {})
  BY DEF Outcome
<1>8. QED
  BY <1>2, <1>3, <1>4, <1>5, <1>6, <1>7 DEF LB!Place, Running

(* newOrder refuses the order.                                             *)
LEMMA RejectIsStep ==
  ASSUME Known, SeenInv, Shows', ub = FALSE, Reject PROVE AbstractStep
<1>1. /\ pc = "enter" /\ Running /\ pc' = "idle" /\ ub' = FALSE /\ UNCHANGED bookVars
      /\ ret' = carry \cup {"REJECTED"} /\ ~isValid(incoming)
  BY DEF Reject, Return, Running
<1>2. PICK orders, o : AsksFor(orders, o) /\ Seen(orders, o) /\ o \in Orders
  BY <1>1, SeenAsks DEF Known
<1>3. incoming = o /\ Book = orders /\ Spent = before.spent /\ Asked(orders, o)
  BY <1>1, <1>2 DEF Seen
<1>4. Book' = orders /\ Spent' = before.spent
  BY <1>1, <1>3, BookNotTouched, SpentStays
<1>5. ~LB!Acceptable(o)
  BY <1>1, <1>2, <1>3 DEF LB!Acceptable, isValid
<1>6. PICK flags : flags = carry
  OBVIOUS
<1>7. LB!Place(orders, o, flags)
  BY <1>1, <1>4, <1>5, <1>6 DEF LB!Place, Running
<1>8. LB!Next
  BY <1>1, <1>2, <1>3, <1>6, <1>7, PlaceIsCall DEF Known
<1>9. QED
  BY <1>1, <1>8, ReturnIsStep

(* What is shown to be left by the loop does not cross.                    *)
LEMMA NoMakerLeft ==
  ASSUME Known, NEW o \in Orders, cannotCross(o), NEW m \in Book,
         m.side = Opposite(o.side)
  PROVE  ~priceCrosses(o, m)
<1>1. BookInv /\ Opposite(o.side) \in Sides
  BY FindParts, Parts, KeyIs, OppositeIs DEF Known
<1>2. PICK n \in price_sorted_[Opposite(o.side)] : m = node[n]
  <2>1. PICK n \in Live : m = node[n]
    BY DEF Book
  <2>2. QED
    BY <1>1, <2>1, LiveIs, LiveHolds, FindParts DEF Known
<1>3. QED
  BY <1>1, <1>2, NothingCrosses DEF BookInv

(* newOrder finds nothing that crosses, and the order rests.               *)
LEMMA RestIsStep ==
  ASSUME Known, SeenInv, Shows, Shows', ub = FALSE, Rest PROVE AbstractStep
<1>1. /\ pc = "enter" /\ Running /\ pc' = "idle" /\ ub' = FALSE
      /\ ret' = carry \cup {"ACCEPTED"} /\ isValid(incoming) /\ cannotCross(incoming)
      /\ Push(incoming.side, incoming)
  BY DEF Rest, Return, Running
<1>2. PICK orders, o : AsksFor(orders, o) /\ Seen(orders, o) /\ o \in Orders
  BY <1>1, SeenAsks DEF Known
<1>3. /\ incoming = o /\ Book = orders /\ Spent = before.spent
      /\ Asked(orders, o) /\ Rested(orders)
  BY <1>1, <1>2 DEF Seen
<1>4. Clear(o) /\ o.side \in Sides
  BY <1>1, <1>2, <1>3, KeyIs DEF Known, StaleInv
<1>5. Book' = orders \cup {o} /\ Spent' = before.spent
  BY <1>1, <1>2, <1>3, <1>4, PushMends
<1>6. PICK makers : makers = LB!Crossing(orders, o)
  OBVIOUS
<1>7. makers = {}
  <2>1. makers = {m \in orders : m.side = Opposite(o.side) /\ priceCrosses(o, m)}
    BY <1>2, <1>3, <1>6, CrossingIs DEF Rested
  <2>2. QED
    BY <1>1, <1>2, <1>3, <2>1, NoMakerLeft
<1>8. PICK rest \in Nat : rest = o.volume /\ rest > 0
  BY <1>1, <1>2, <1>3 DEF isValid, Orders
<1>9. PICK left : Fills(o, rest, makers, left)
  <2>1. IsFiniteSet(makers)
    BY <1>7, FS_EmptySet
  <2>2. QED
    BY <1>7, <1>8, <2>1, FillsNothing
<1>10. /\ Remaining(orders, makers, left) = orders /\ [o EXCEPT !.volume = rest] = o
  BY <1>2, <1>7, <1>8 DEF Remaining, Orders
<1>11. PICK flags : flags = carry
  OBVIOUS
<1>12. ret' = flags \cup Outcome(rest, makers)
  BY <1>1, <1>7, <1>8, <1>11 DEF Outcome
<1>13. Book' = Remaining(orders, makers, left)
                 \cup (IF rest > 0 THEN {[o EXCEPT !.volume = rest]} ELSE {})
  BY <1>5, <1>8, <1>10
<1>14. isValid(o)
  BY <1>1, <1>3
<1>15. LB!Place(orders, o, flags)
  BY <1>1, <1>2, <1>3, <1>5, <1>6, <1>7, <1>9, <1>12, <1>13, <1>14, EndIsPlace
<1>16. LB!Next
  BY <1>1, <1>2, <1>3, <1>11, <1>15, PlaceIsCall DEF Known
<1>17. QED
  BY <1>1, <1>16, ReturnIsStep

(* matchOrder has traded the whole order, and the call returns.            *)
LEMMA FilledIsStep ==
  ASSUME Known, SeenInv, Shows', ub = FALSE, Filled PROVE AbstractStep
<1>1. /\ pc = "match" /\ Running /\ pc' = "idle" /\ ub' = FALSE
      /\ ret' = carry \cup {"FULLY_FILLED", "ACCEPTED"} /\ incoming.volume = 0
      /\ UNCHANGED bookVars
  BY DEF Filled, Return, Running
<1>2. PICK orders, o, left : Stands(orders, o, left) /\ o \in Orders
  BY <1>1, SeenStands DEF Known
<1>3. PICK makers, flags : makers = LB!Crossing(orders, o) /\ flags = carry
  OBVIOUS
<1>4. /\ AsksFor(orders, o) /\ Asked(orders, o) /\ Rested(orders)
      /\ Matched(orders, o, makers, left)
  BY <1>2, <1>3 DEF Stands
<1>5. PICK rest \in Nat : rest = incoming.volume
  BY <1>1
<1>6. /\ isValid(o) /\ Fills(o, rest, makers, left) /\ before.spent \subseteq Spent
      /\ Book = Remaining(orders, makers, left)
      /\ \A k \in Spent \ before.spent : \E m \in makers : k = Key(m) /\ left[m] = 0
  BY <1>1, <1>4, <1>5 DEF Matched, Held
<1>7. Book' = Book /\ Spent' = Spent
  BY <1>1, BookNotTouched, SpentStays
<1>8. Book' = Remaining(orders, makers, left)
                \cup (IF rest > 0 THEN {[o EXCEPT !.volume = rest]} ELSE {})
  BY <1>1, <1>5, <1>6, <1>7
<1>9. ret' = flags \cup Outcome(rest, makers)
  BY <1>1, <1>3, <1>5 DEF Outcome
<1>10. LB!Place(orders, o, flags)
  BY <1>1, <1>2, <1>3, <1>4, <1>5, <1>6, <1>7, <1>8, <1>9, EndIsPlace
<1>11. LB!Next
  BY <1>1, <1>2, <1>3, <1>4, <1>10, PlaceIsCall DEF Known
<1>12. QED
  BY <1>1, <1>11, ReturnIsStep

(* matchOrder has no more to trade with, and lets rest what is left.       *)
LEMMA RestRemainderIsStep ==
  ASSUME Known, SeenInv, Shows, Shows', ub = FALSE, RestRemainder PROVE AbstractStep
<1>1. /\ pc = "match" /\ Running /\ pc' = "idle" /\ ub' = FALSE
      /\ ret' = carry \cup {"PARTIALLY_FILLED", "ACCEPTED"} /\ incoming.volume # 0
      /\ cannotCross(incoming) /\ Push(incoming.side, incoming)
      /\ isValid(incoming)
  BY RestRemainderValid DEF RestRemainder, Return, Running, Known
<1>2. PICK orders, o, left : Stands(orders, o, left) /\ o \in Orders
  BY <1>1, SeenStands DEF Known
<1>3. PICK makers, flags : makers = LB!Crossing(orders, o) /\ flags = carry
  OBVIOUS
<1>4. /\ AsksFor(orders, o) /\ Asked(orders, o) /\ Rested(orders)
      /\ Matched(orders, o, makers, left)
  BY <1>2, <1>3 DEF Stands
<1>5. incoming \in Orders /\ incoming.side \in Sides
  BY <1>1, KeyIs DEF Known, IInv, CallInv
<1>6. PICK rest \in Nat : rest = incoming.volume /\ rest > 0
  BY <1>1, <1>5 DEF Orders
<1>7. /\ isValid(o) /\ Fills(o, rest, makers, left) /\ before.spent \subseteq Spent
      /\ Book = Remaining(orders, makers, left) /\ makers # {}
      /\ \A k \in Spent \ before.spent : \E m \in makers : k = Key(m) /\ left[m] = 0
  BY <1>1, <1>4, <1>6 DEF Matched, Held
<1>8. /\ o.side = incoming.side /\ o.price = incoming.price
      /\ incoming = [o EXCEPT !.volume = rest]
  <2>1. o = [incoming EXCEPT !.volume = o.volume]
    BY <1>4 DEF AsksFor
  <2>2. [o EXCEPT !.volume = rest] = [incoming EXCEPT !.volume = rest]
    BY <1>5, <2>1, VolumeOnly
  <2>3. [incoming EXCEPT !.volume = rest] = incoming
    BY <1>5, <1>6 DEF Orders
  <2>4. QED
    BY <1>5, <2>1, <2>2, <2>3, VolumeOnly
<1>9. Clear(incoming)
  BY <1>1 DEF Known, StaleInv
<1>10. Book' = Book \cup {incoming} /\ Spent' = Spent
  BY <1>1, <1>5, <1>9, PushMends
<1>11. \A m \in makers : left[m] = 0
  <2>1. /\ orders \subseteq Orders
        /\ makers = {m \in orders : m.side = Opposite(o.side) /\ priceCrosses(o, m)}
    BY <1>2, <1>3, <1>4, CrossingIs DEF Rested
  <2>2. left \in [makers -> Nat]
    BY <1>7, <2>1, LeftIs DEF Fills, Orders
  <2> SUFFICES ASSUME NEW m \in makers, left[m] # 0 PROVE FALSE
    OBVIOUS
  <2>3. PICK w : w = [m EXCEPT !.volume = left[m]]
    OBVIOUS
  <2>4. w \in Book
    <3>1. left[m] > 0
      BY <2>2
    <3>2. QED
      BY <1>7, <2>3, <3>1 DEF Remaining
  <2>5. w.side = m.side /\ w.price = m.price
    BY <2>1, <2>3 DEF Orders
  <2>6. priceCrosses(incoming, w) /\ w.side = Opposite(incoming.side)
    BY <1>8, <2>1, <2>5 DEF priceCrosses
  <2>7. QED
    BY <1>1, <1>5, <2>4, <2>6, NoMakerLeft
<1>12. Book' = Remaining(orders, makers, left)
                 \cup (IF rest > 0 THEN {[o EXCEPT !.volume = rest]} ELSE {})
  BY <1>6, <1>7, <1>8, <1>10
<1>13. ret' = flags \cup Outcome(rest, makers)
  BY <1>1, <1>3, <1>6, <1>7 DEF Outcome
<1>14. LB!Place(orders, o, flags)
  BY <1>1, <1>2, <1>3, <1>4, <1>7, <1>10, <1>11, <1>12, <1>13, EndIsPlace
<1>15. LB!Next
  BY <1>1, <1>2, <1>3, <1>4, <1>14, PlaceIsCall DEF Known
<1>16. QED
  BY <1>1, <1>15, ReturnIsStep

(* A handle that the index does not know.                                  *)
LEMMA NotIndexed ==
  ASSUME Known, NEW k \in Keys
  PROVE  /\ ~Indexed(SideOf(k), k) => k \notin Spent /\ \A o \in Book : Key(o) # k
         /\ ~Indexed(BUY_SIDE, k) => \A o \in Book : Key(o) = k => o.side # BUY_SIDE
<1>1. BookInv /\ Placed
  BY FindParts, Parts DEF Known
<1>2. \A o \in Book : /\ o.side \in Sides /\ Indexed(o.side, Key(o))
  <2> SUFFICES ASSUME NEW n \in Live
               PROVE  node[n].side \in Sides /\ Indexed(node[n].side, Key(node[n]))
    BY DEF Book
  <2>1. PICK s \in Sides : n \in price_sorted_[s]
    BY LiveIs
  <2>2. node[n].side = s /\ id_to_iter_[s][Key(node[n])] = n /\ n \in Addrs
    BY <1>1, <2>1, LiveHolds DEF Placed, BookInv, BookTyped
  <2>3. QED
    BY <2>1, <2>2 DEF Indexed
<1>3. ~Indexed(SideOf(k), k) => \A s \in Sides : ~Indexed(s, k)
  BY DEF SideOf, Sides
<1>4. ~Indexed(SideOf(k), k) => k \notin Spent
  BY DEF Spent, Dangling
<1>5. QED
  BY <1>2, <1>3, <1>4

(* cancelOrder, up to the use of a spent handle.                           *)
LEMMA CancelIsStep ==
  ASSUME Known, Shows, Shows', ub = FALSE, ub' = FALSE, NEW k \in Keys, CancelOrder(k)
  PROVE  AbstractStep
<1>1. pc = "idle" /\ pc' = "idle" /\ SideOf(k) \in Sides
  BY DEF CancelOrder, RejectCall, Return, Corrupt, SideOf, Sides
<1>2. CASE ~Indexed(SideOf(k), k) /\ RejectCall
  <2>1. UNCHANGED bookVars /\ ret' = {"REJECTED"}
    BY <1>2 DEF RejectCall, Return
  <2>2. Book' = Book /\ Spent' = Spent
    BY <2>1, BookNotTouched, SpentStays
  <2>3. LB!Unknown(k)
    BY <1>1, <1>2, NotIndexed DEF LB!Unknown, LB!Key, Key
  <2>4. LB!Cancel(k)
    BY <1>1, <2>1, <2>2, <2>3 DEF LB!Cancel, LB!Refuse
  <2>5. QED
    BY <1>1, <2>4, ReturnIsStep DEF LB!Next, Keys
<1>3. CASE Take(SideOf(k), k) /\ Return({"CANCELLED"})
  <2>1. PICK o : Taken(SideOf(k), k, o)
    BY <1>1, <1>3, TakeTakes DEF Known
  <2>2. /\ k = Key(o) /\ o \in Book /\ Book' = Book \ {o}
        /\ \A r \in Sides, j \in Keys : Stale(r, j)' <=> Stale(r, j)
    BY <2>1 DEF Taken
  <2>3. Spent' = Spent
    BY <2>2 DEF Shows, StaleKeys
  <2>4. ret' = {"CANCELLED"}
    BY <1>3 DEF Return
  <2>5. LB!Cancel(k)
    BY <1>1, <2>2, <2>3, <2>4 DEF LB!Cancel, LB!Key, Key
  <2>6. QED
    BY <1>1, <2>5, ReturnIsStep DEF LB!Next, Keys
<1>4. QED
  BY <1>2, <1>3 DEF CancelOrder, Corrupt

(* A step after which a call runs is not seen: the state before the call is*)
(* what is shown.                                                          *)
LEMMA HiddenStep ==
  ASSUME ub = FALSE, ub' = FALSE, ret' = ret,
         \/ Running /\ before' = before /\ pc' # "idle" /\ pc # "idle"
         \/ pc = "idle" /\ pc' # "idle" /\ before' = Snapshot
         \/ UNCHANGED <<pc, before, bookVars>>
  PROVE  AbstractStep
<1>1. CASE Running /\ before' = before /\ pc' # "idle" /\ pc # "idle"
  BY <1>1 DEF AbstractStep, LB!vars
<1>2. CASE pc = "idle" /\ pc' # "idle" /\ before' = Snapshot
  BY <1>2 DEF AbstractStep, LB!vars, Snapshot
<1>3. CASE UNCHANGED <<pc, before, bookVars>>
  <2>1. Book' = Book /\ Spent' = Spent /\ getTopOfBook' = getTopOfBook
    BY <1>3, BookNotTouched, SpentStays
  <2>2. QED
    BY <1>3, <2>1 DEF AbstractStep, LB!vars
<1>4. QED
  BY <1>1, <1>2, <1>3

(* modifyOrder, up to the use of a spent handle.                           *)
LEMMA ModifyIsStep ==
  ASSUME Known, Shows', ub = FALSE, ub' = FALSE, NEW k \in Keys, ModifyOrder(k)
  PROVE  AbstractStep
<1>1. pc = "idle"
  BY DEF ModifyOrder
<1>2. CASE ~Indexed(BUY_SIDE, k) /\ RejectCall
  <2>1. UNCHANGED bookVars /\ ret' = {"REJECTED"} /\ pc' = "idle"
    BY <1>2 DEF RejectCall, Return
  <2>2. Book' = Book /\ Spent' = Spent
    BY <2>1, BookNotTouched, SpentStays
  <2>3. LB!RefuseReplace(k)
    BY <1>1, <1>2, <2>1, <2>2, NotIndexed
       DEF LB!RefuseReplace, LB!Refuse, LB!Key, Key
  <2>4. QED
    BY <2>1, <2>3, ReturnIsStep DEF LB!Next, Keys
<1>3. CASE ~RejectCall
  <2>1. pc' = "enter" /\ before' = Snapshot /\ ret' = ret
    BY <1>3 DEF ModifyOrder, Corrupt, Enter
  <2>2. QED
    BY <1>1, <2>1, HiddenStep
<1>4. QED
  BY <1>2, <1>3 DEF ModifyOrder, Corrupt, Enter, RejectCall, Return

(* A spent handle is used: the entry it had leads to a node that is not of *)
(* its order.                                                              *)
LEMMA SpentIsUsed ==
  ASSUME Known, ub = FALSE, ub' = TRUE, NEW k \in Keys,
         CancelOrder(k) \/ ModifyOrder(k)
  PROVE  AbstractStep
<1>1. pc = "idle"
  BY DEF CancelOrder, ModifyOrder
<1>2. PICK s \in {SideOf(k), BUY_SIDE} : Take(s, k) \/ Corrupt(s, k)
  BY DEF CancelOrder, ModifyOrder, RejectCall
<1>3. Dangling(s, k)
  <2>1. CASE Take(s, k)
    BY <2>1 DEF Take, Dangling
  <2>2. CASE Corrupt(s, k)
    BY <2>2 DEF Corrupt, Dangling
  <2>3. QED
    BY <1>2, <2>1, <2>2
<1>4. k \in Spent
  BY <1>2, <1>3 DEF Dangling, SideOf, Spent
<1>5. LB!UseSpent
  BY <1>1, <1>4 DEF LB!UseSpent
<1>6. [bid_ |-> {}, ask_ |-> {}] \in LB!Tops({})
  BY DEF LB!Tops, LB!Shown, LB!Best, Sides, BUY_SIDE, SELL_SIDE
<1>7. QED
  BY <1>5, <1>6 DEF AbstractStep, LB!Step, LB!Next

(* Once a spent handle was used, nothing more is seen.                     *)
LEMMA UndefinedStays == ASSUME IInv, ub = TRUE, [Next]_vars PROVE AbstractStep
<1>1. ub' = TRUE
  <2>1. CASE Call
    BY <2>1 DEF Call, BuildOrder, NewOrder, CancelOrder, ModifyOrder, RejectCall, Take,
                Corrupt
  <2>2. CASE Step
    BY <2>2 DEF Step, Reject, Rest, BeginMatch, TakeBest, PutBack, Filled, RestRemainder
  <2>3. CASE UNCHANGED vars
    BY <2>3 DEF vars
  <2>4. QED
    BY <2>1, <2>2, <2>3 DEF Next
<1>2. QED
  BY <1>1 DEF AbstractStep, LB!vars

(* Every step of the order book is one of LimitBook or is not seen.        *)
LEMMA StepImplements ==
  Known /\ Shows /\ Shows' /\ SeenInv /\ [Next]_vars => AbstractStep
<1> SUFFICES ASSUME Known, Shows, Shows', SeenInv, [Next]_vars PROVE AbstractStep
  OBVIOUS
<1>1. IInv /\ ub \in BOOLEAN
  BY DEF Known, IInv, TypeOK
<1>2. CASE ub
  BY <1>1, <1>2, UndefinedStays
<1>3. CASE ub = FALSE
  <2>1. CASE UNCHANGED vars
    BY <1>3, <2>1, HiddenStep DEF vars, bookVars
  <2>2. CASE \E id \in OrderIds, p \in Prices, v \in Volumes, s \in Sides,
                c \in Clients : BuildOrder(id, p, v, s, c)
    BY <1>3, <2>2, HiddenStep DEF BuildOrder, bookVars
  <2>3. CASE \E m \in made : NewOrder(m[1], m[2])
    BY <1>3, <2>3, HiddenStep DEF NewOrder, Enter
  <2>4. ASSUME NEW k \in Keys, CancelOrder(k) \/ ModifyOrder(k) PROVE AbstractStep
    <3>1. ub' \in BOOLEAN
      BY <1>3, <2>4 DEF CancelOrder, ModifyOrder, RejectCall, Take, Corrupt
    <3>2. CASE ub' = TRUE
      BY <1>3, <2>4, <3>2, SpentIsUsed
    <3>3. CASE ub' = FALSE
      BY <1>3, <2>4, <3>3, CancelIsStep, ModifyIsStep
    <3>4. QED
      BY <3>1, <3>2, <3>3
  <2>5. CASE Reject \/ Rest \/ Filled \/ RestRemainder
    BY <1>3, <2>5, RejectIsStep, RestIsStep, FilledIsStep, RestRemainderIsStep
  <2>6. CASE BeginMatch \/ TakeBest \/ PutBack
    <3>1. /\ Running /\ before' = before /\ ret' = ret /\ ub' = ub
          /\ pc # "idle" /\ pc' # "idle"
      BY <2>6 DEF BeginMatch, TakeBest, PutBack, Running
    <3>2. QED
      BY <1>3, <3>1, HiddenStep
  <2>7. QED
    BY <2>1, <2>2, <2>3, <2>4, <2>5, <2>6 DEF Next, Call, Step
<1>4. QED
  BY <1>1, <1>2, <1>3

(* The book begins empty.                                                  *)
LEMMA InitImplements == Init => LB!Init
<1> SUFFICES ASSUME Init PROVE LB!Init
  OBVIOUS
<1>1. /\ pc = "idle" /\ ub = FALSE /\ ret = {}
      /\ \A s \in Sides : price_sorted_[s] = {}
      /\ \A s \in Sides, k \in Keys : id_to_iter_[s][k] = NoAddr
  BY DEF Init
<1>2. BUY_SIDE \in Sides /\ SELL_SIDE \in Sides
  BY DEF Sides
<1>3. Book = {} /\ Top(BUY_SIDE) = {} /\ Top(SELL_SIDE) = {}
  BY <1>1, <1>2 DEF Book, Live, Top, IsTop
<1>4. Spent = {}
  BY <1>1, <1>2 DEF Spent, Dangling, Indexed, SideOf
<1>5. getTopOfBook \in LB!Tops({})
  BY <1>3 DEF getTopOfBook, LB!Tops, LB!Shown, LB!Best, Sides, BUY_SIDE, SELL_SIDE
<1>6. QED
  BY <1>1, <1>3, <1>4, <1>5 DEF LB!Init

-----------------------------------------------------------------------------
(* The theorems.                                                           *)

(* Between two steps a call stands where the atomic one of LimitBook can   *)
(* be cut, and no order has the timestamp of an entry that is stale.       *)
THEOREM AtomicInvariance == MaxSubmits = 1 => (Spec => []AtomicInv)
<1> SUFFICES ASSUME MaxSubmits = 1 PROVE Spec => []AtomicInv
  OBVIOUS
<1>1. Init => AtomicInv
  BY InitStale DEF Init, AtomicInv, SeenInv
<1>2. VolumeInv => QueuesFinite
  BY DEF VolumeInv
<1>3. IInv /\ FindInv /\ StaleInv /\ [Next]_vars => StaleInv'
  BY StepStale
<1>4. Known <=> IInv /\ FindInv /\ QueuesFinite /\ StaleInv
  BY DEF Known
<1>5. Known /\ Shows /\ Shows' /\ SeenInv /\ [Next]_vars => SeenInv'
  BY StepSeen
<1>6. AtomicInv <=> StaleInv /\ SeenInv
  BY DEF AtomicInv
<1>7. QED
  BY <1>1, <1>2, <1>3, <1>4, <1>5, <1>6, KnownShows, Invariance, IndexInvariance,
     VolumeInvariance, PTL DEF Spec

(* The flags a call returns, what rests after it, which orders it traded   *)
(* with and the top it leaves are those of LimitBook, where calls are      *)
(* atomic: no reader who looks between two calls can tell the difference.  *)
THEOREM BookImplementsLimitBook == MaxSubmits = 1 => (Spec => ImplementsLimitBook)
<1> SUFFICES ASSUME MaxSubmits = 1 PROVE Spec => ImplementsLimitBook
  OBVIOUS
<1>1. VolumeInv => QueuesFinite
  BY DEF VolumeInv
<1>2. AtomicInv <=> StaleInv /\ SeenInv
  BY DEF AtomicInv
<1>3. Known <=> IInv /\ FindInv /\ QueuesFinite /\ StaleInv
  BY DEF Known
<1>4. AbstractStep => [LB!Step]_(LB!vars)
  BY DEF AbstractStep
<1>5. QED
  BY <1>1, <1>2, <1>3, <1>4, KnownShows, StepImplements, InitImplements, Invariance,
     IndexInvariance, VolumeInvariance, AtomicInvariance, PTL
     DEF Spec, ImplementsLimitBook, LB!Spec
=============================================================================

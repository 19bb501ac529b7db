----------------------------- MODULE LimitBook -----------------------------
(***************************************************************************)
(* What an order book promises its caller: each call takes effect at once, *)
(* and the volume an order trades is given by what it may trade with, not  *)
(* by a loop over a queue.  OrderBook implements this module.              *)
(*                                                                         *)
(* book holds the live orders.  spent holds the handles of orders that     *)
(* were filled while they rested and whose use is undefined: the code      *)
(* makes no promise for them, and none after one of them was used.         *)
(***************************************************************************)
EXTENDS Integers, FiniteSetsExt

CONSTANTS Words, OrderIds, Sides, BUY_SIDE, Prices, Volumes, Clients, NoClient

VARIABLES book, top, spent, ret, undefined

vars == <<book, top, spent, ret, undefined>>

Offers == [id: OrderIds, ts: Words, price: Prices, volume: Volumes, side: Sides,
           client: Clients]

Key(o) == <<o.id, o.ts>>
Acceptable(o) == o.volume > 0 /\ o.price > 0 /\ o.client # NoClient

Total(f) == MapThenSumSet(LAMBDA x : f[x], DOMAIN f)
Sum(S) == Total([o \in S |-> o.volume])

(* p is a strictly better price than q for those who trade with side s.    *)
Better(s, p, q) == IF s = BUY_SIDE THEN p > q ELSE p < q

Crossing(orders, o) ==
  {m \in orders : m.side # o.side /\ ~Better(m.side, o.price, m.price)}

(* left gives what remains of each crossing order when o trades with them: *)
(* as much as there is, the better price first, one order cut at most.     *)
Allocation(makers, o, left) ==
  LET available == Sum(makers)
  IN  /\ \A m \in makers : left[m] <= m.volume
      /\ available - Total(left) = IF o.volume < available THEN o.volume ELSE available
      /\ \A m, w \in makers :
            Better(m.side, m.price, w.price) /\ left[m] > 0 => left[w] = w.volume
      /\ \A m, w \in makers :
            left[m] \notin {0, m.volume} /\ left[w] \notin {0, w.volume} => m = w

Left(makers) == [makers -> UNION {0 .. m.volume : m \in makers}]

(* o is entered into orders; flags is what the call already has to report. *)
Place(orders, o, flags) ==
  LET makers == Crossing(orders, o)
      rest == IF o.volume > Sum(makers) THEN o.volume - Sum(makers) ELSE 0
  IN  \/ /\ ~Acceptable(o)
         /\ book' = orders /\ ret' = flags \cup {"REJECTED"} /\ spent' = spent
      \/ /\ Acceptable(o)
         /\ ret' = flags \cup {"ACCEPTED"} \cup
                   (IF rest = 0 THEN {"FULLY_FILLED"}
                    ELSE IF makers # {} THEN {"PARTIALLY_FILLED"} ELSE {})
         /\ \E left \in Left(makers) :
              /\ Allocation(makers, o, left)
              /\ book' = (orders \ makers)
                         \cup {[m EXCEPT !.volume = left[m]] :
                                 m \in {w \in makers : left[w] > 0}}
                         \cup (IF rest > 0 THEN {[o EXCEPT !.volume = rest]} ELSE {})
              /\ spent \subseteq spent'
              /\ spent' \ spent \subseteq {Key(m) : m \in {w \in makers : left[w] = 0}}

(* What a caller may be shown as the top: a best order of each side.       *)
Best(orders, s) ==
  {o \in orders : o.side = s /\ \A m \in orders :
                                  m.side = s => ~Better(s, m.price, o.price)}

Shown(orders, s) == {{o} : o \in Best(orders, s)}
                      \cup (IF Best(orders, s) = {} THEN {{}} ELSE {})

Tops(orders) == [bid_: Shown(orders, BUY_SIDE),
                 ask_: UNION {Shown(orders, s) : s \in Sides \ {BUY_SIDE}}]

Init == book = {} /\ top \in Tops({}) /\ spent = {} /\ ret = {} /\ undefined = FALSE

Enter(o) == /\ \A m \in book : m.ts # o.ts
            /\ Place(book, o, {})
            /\ UNCHANGED undefined

Refuse == ret' = {"REJECTED"} /\ UNCHANGED <<book, spent, undefined>>

Unknown(k) == k \notin spent /\ \A o \in book : Key(o) # k

Cancel(k) ==
  \/ Unknown(k) /\ Refuse
  \/ \E o \in book : /\ Key(o) = k
                     /\ book' = book \ {o} /\ ret' = {"CANCELLED"}
                     /\ UNCHANGED <<spent, undefined>>

(* Only a bid is replaced, and the handle of anything else is refused, also*)
(* that of an ask which is spent.                                          *)
RefuseReplace(k) == (\A o \in book : Key(o) = k => o.side # BUY_SIDE) /\ Refuse

(* The replacement has a new handle and may trade; when it is not          *)
(* acceptable the bid is gone all the same.                                *)
Replace(k, ts, p, v) ==
  \E o \in book :
    /\ Key(o) = k /\ o.side = BUY_SIDE
    /\ \A m \in book : m.ts # ts
    /\ Place(book \ {o}, [o EXCEPT !.ts = ts, !.price = p, !.volume = v],
             {"CANCELLED"})
    /\ UNCHANGED undefined

(* A spent handle is used: from then on nothing is promised.               *)
UseSpent == /\ spent # {} /\ undefined' = TRUE
            /\ book' = {} /\ spent' = {} /\ ret' = {}

Next == \/ \E o \in Offers : Enter(o)
        \/ \E k \in Words \X Words : Cancel(k) \/ RefuseReplace(k)
        \/ \E k \in Words \X Words, ts \in Words, p \in Prices, v \in Volumes :
             Replace(k, ts, p, v)
        \/ UseSpent

(* The first conjunct only spares TLC the search for a step where none is  *)
(* needed.                                                                 *)
Step == vars' # vars /\ ~undefined /\ top' \in Tops(book') /\ Next

Spec == Init /\ [][Step]_vars
=============================================================================

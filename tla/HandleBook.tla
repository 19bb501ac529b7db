----------------------------- MODULE HandleBook -----------------------------
(***************************************************************************)
(* An order book (core/OrderBook.cpp, OrderBook.hpp) as those see it who   *)
(* hold the handles (id_ns_) of its orders and know neither prices nor     *)
(* volumes: how many copies of an order rest (an order that is entered     *)
(* twice rests twice), and where its entry of id_to_iter_ leads: nowhere,  *)
(* to one of the copies, or to a node that was freed.  OrderBook behaves   *)
(* so (its property ImplementsHandleBook); Exchange and Venue use it.      *)
(***************************************************************************)
EXTENDS Naturals

CONSTANT Handles

Entries == {"none", "live", "freed"}
Places == {x \in [copies: Nat, entry: Entries] : x.entry = "live" => x.copies > 0}
Absent == [copies |-> 0, entry |-> "none"]
EmptyBook == [h \in Handles |-> Absent]

(* What an order is left with when another one comes in: some copies are   *)
(* filled.  pop erases the entry or, its key being cut, leaves it to the   *)
(* freed node; push of a copy that was cut makes it lead to that copy.     *)
AfterFills(x) ==
  {y \in [copies: 0 .. x.copies, entry: Entries] :
     /\ y \in Places
     /\ y.entry # "live" =>
          y.entry = x.entry \/ (x.entry = "live" /\ y.copies < x.copies)}

(* The order that comes in rests, and push makes its entry lead to the new *)
(* copy; or it does not.                                                   *)
AfterEntry(x) == {x, [copies |-> x.copies + 1, entry |-> "live"]}

(* What newOrder may make of the book.                                     *)
Entered(book, h) ==
  {b \in [Handles -> UNION {AfterFills(book[g]) \cup AfterEntry(book[g]) : g \in Handles}] :
     b[h] \in AfterEntry(book[h])
     /\ \A g \in Handles \ {h} : b[g] \in AfterFills(book[g])}

(* cancelOrder would erase a node that was freed: anything may happen.     *)
Dangling(book, h) == book[h].entry = "freed"

(* Otherwise it removes the copy the entry leads to, and the entry; other  *)
(* copies rest on.                                                         *)
Cancelled(book, h) ==
  IF book[h].entry = "live"
  THEN [book EXCEPT ![h] = [copies |-> @.copies - 1, entry |-> "none"]]
  ELSE book
=============================================================================

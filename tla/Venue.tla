------------------------------- MODULE Venue -------------------------------
(***************************************************************************)
(* What the exchange promises its clients: the calls of one client for one *)
(* symbol take effect one at a time, each once and in the order they were  *)
(* made, whatever others call; calls for different symbols, and of         *)
(* different clients, are not ordered.  Only closing drops a call.         *)
(* The promise ends with the first cancel of an order whose entry leads to *)
(* a freed node.  Exchange implements this module.                         *)
(***************************************************************************)
EXTENDS HandleBook, Sequences

CONSTANTS Clients, Symbols

VARIABLES
  phase,     \* open, closing, closed
  pending,   \* symbol -> client -> calls that have not taken effect
  books,     \* symbol -> its book
  undefined  \* a freed node was used

vars == <<phase, pending, books, undefined>>

Calls == [op: {"new", "cancel"}, order: Handles]
Nothing == [symbol \in Symbols |-> [c \in Clients |-> <<>>]]

Init == /\ phase = "open" /\ pending = Nothing
        /\ books = [symbol \in Symbols |-> EmptyBook] /\ undefined = FALSE

Submit(c, symbol, call) ==
  /\ phase = "open"
  /\ pending' = [pending EXCEPT ![symbol][c] = Append(@, call)]
  /\ UNCHANGED <<phase, books, undefined>>

New(symbol, h) ==
  \E b \in Entered(books[symbol], h) : books' = [books EXCEPT ![symbol] = b]

Cancel(symbol, h) ==
  /\ ~Dangling(books[symbol], h)
  /\ books' = [books EXCEPT ![symbol] = Cancelled(@, h)]

(* The call that is next of those c made for symbol.                       *)
NextCall(c, symbol) == Head(pending[symbol][c])
Due(c, symbol) == phase # "closed" /\ pending[symbol][c] # <<>>

TakeEffect(c, symbol) ==
  /\ Due(c, symbol)
  /\ LET call == NextCall(c, symbol) IN
     \/ call.op = "new" /\ New(symbol, call.order)
     \/ call.op = "cancel" /\ Cancel(symbol, call.order)
  /\ pending' = [pending EXCEPT ![symbol][c] = Tail(@)]
  /\ UNCHANGED <<phase, undefined>>

(* A cancel that uses a freed node: nothing is promised from there on.     *)
UseFreed(c, symbol) ==
  /\ Due(c, symbol)
  /\ LET call == NextCall(c, symbol) IN
     call.op = "cancel" /\ Dangling(books[symbol], call.order)
  /\ undefined' = TRUE /\ UNCHANGED <<phase, pending, books>>

Close == /\ phase = "open" /\ phase' = "closing"
         /\ UNCHANGED <<pending, books, undefined>>

Closed == /\ phase = "closing" /\ phase' = "closed"
          /\ pending' = Nothing /\ UNCHANGED <<books, undefined>>

Next == /\ ~undefined
        /\ \/ \E c \in Clients, symbol \in Symbols :
                \/ TakeEffect(c, symbol) \/ UseFreed(c, symbol)
                \/ \E call \in Calls : Submit(c, symbol, call)
           \/ Close \/ Closed

(* The first conjunct only spares TLC the search for a step where none is  *)
(* needed.                                                                 *)
Spec == Init /\ [][vars' # vars /\ Next]_vars
=============================================================================

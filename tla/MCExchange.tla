----------------------------- MODULE MCExchange -----------------------------
(* Exchange on small instances.                                            *)
EXTENDS Exchange

(* The symbols are of one shard, and symbols, orders and clients are only  *)
(* compared for equality, so that the first call may be of any of them: it *)
(* is fixed (and with it that the client that reads calls first).          *)
FirstCall ==
  Cardinality(Calls) = 1 =>
    \A t \in Calls : /\ t.by = CHOOSE c \in Producers : TRUE
                     /\ t.symbol = CHOOSE s \in Symbols : TRUE
                     /\ t.order = CHOOSE h \in Handles : TRUE
=============================================================================

---------------------------- MODULE MCOrderBook ----------------------------
(* OrderBook on small instances.                                           *)
EXTENDS OrderBook, TLC

(* Nodes are only compared for equality.                                   *)
AddrSymmetry == Permutations(Addrs)
=============================================================================

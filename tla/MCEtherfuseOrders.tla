-------------------------- MODULE MCEtherfuseOrders --------------------------
(* EtherfuseOrders for TLC: one transfer, an order from before a restart, and *)
(* one ID more.                                                               *)
EXTENDS EtherfuseOrders, TLC

CONSTANTS t1, o1, o2, o3

OrderIDOf == (t1 :> o1)
=============================================================================

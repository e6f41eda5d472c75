-------------------------- MODULE TransactionPoolMC --------------------------
(* A small instance of TransactionPool: a batch takes one of two that wait. *)
EXTENDS TransactionPool

CONSTANTS t1, t2

MCTx == {t1, t2}
=============================================================================

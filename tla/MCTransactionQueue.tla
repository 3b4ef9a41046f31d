------------------------- MODULE MCTransactionQueue ------------------------
(* The transaction queue over a short chain. *)
EXTENDS TransactionQueue
============================================================================

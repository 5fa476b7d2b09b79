------------------------------ MODULE MCWorker ------------------------------
(***************************************************************************)
(* Five watched transfers: the first and the last have good evidence, the  *)
(* others are one of each kind that has none.  The first scan may look     *)
(* back one block, or be late enough to miss the first transfer.           *)
(***************************************************************************)
EXTENDS Worker

MCHeight == <<1, 2, 2, 3, 3>>
=============================================================================

--------------------------- MODULE MCEmailDelivery ---------------------------
(* Small instances of EmailDelivery.  Jobs meet only in the worker's         *)
(* prefetch window, so one readable and one unreadable job are enough.       *)
EXTENDS EmailDelivery, TLC
=============================================================================

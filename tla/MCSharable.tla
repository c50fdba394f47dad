------------------------------ MODULE MCSharable ------------------------------
(* Three threads on one Sharable object. *)
EXTENDS Sharable
CONSTANTS t1, t2, t3
MCThread == {t1, t2, t3}
===============================================================================

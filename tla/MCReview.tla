------------------------------ MODULE MCReview ------------------------------
(* TLC instance of EntryReview: the worker and one pass started by hand. *)
EXTENDS EntryReview, TLC

=============================================================================

--------------------------- MODULE MCTableBatcher ---------------------------
(* Instance of TableBatcher for TLC; the bounds are in the configurations. *)
EXTENDS TableBatcher
=============================================================================

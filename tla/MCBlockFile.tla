---------------------------- MODULE MCBlockFile ----------------------------
(* Instance of BlockFile for TLC; the bounds are in the configurations. *)
EXTENDS BlockFile
=============================================================================

---------------------------- MODULE MCMakerOnly ----------------------------
(* A small instance of MakerOnly; its bounds are in the .cfg files. *)
EXTENDS MakerOnly
=============================================================================

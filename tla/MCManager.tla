-------------------------------- MODULE MCManager --------------------------------
(* A small instance of Manager.                                                 *)
EXTENDS Manager
================================================================================

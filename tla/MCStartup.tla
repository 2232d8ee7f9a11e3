----------------------------- MODULE MCStartup ------------------------------
(* A program with two ranks on the server. *)
EXTENDS Startup
=============================================================================

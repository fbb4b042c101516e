------------------------------ MODULE MCServer ------------------------------
(* Server for TLC, on the trees of MCRequestHandler.                       *)
EXTENDS MCRequestHandler, Server
=============================================================================

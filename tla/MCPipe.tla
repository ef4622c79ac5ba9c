------------------------------- MODULE MCPipe -------------------------------
(* Pipe for TLC; the constants are given in the .cfg file.                   *)
EXTENDS Pipe
=============================================================================

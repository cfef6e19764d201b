------------------------------- MODULE MCPipe -------------------------------
(* Instances of Pipe for TLC.                                               *)
EXTENDS Pipe

CONSTANTS a, b, main, other

MCProxies == {a, b}
MCCallers == {main, other}
=============================================================================

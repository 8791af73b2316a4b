----------------------------- MODULE MCShutdown -----------------------------
(* One client pipelines two commands. What the others send is a constant.     *)
EXTENDS Shutdown

CONSTANTS Pipelining, Others

MCMaxCmds == [c \in Conns |-> IF c = Pipelining THEN 2 ELSE Others]
=============================================================================

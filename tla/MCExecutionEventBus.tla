------------------------ MODULE MCExecutionEventBus ------------------------
(* Two clients;                small buffers, so that both overflow.      *)
EXTENDS ExecutionEventBus

CONSTANTS c1, c2

MCClients == {c1, c2}
=============================================================================

--------------------------- MODULE MCMockServers ---------------------------
(* Small mock servers: two that compete for two endpoints, or one with a   *)
(* queue that carries messages.                                            *)
EXTENDS MockServers

CONSTANTS A, B,        \* servers
          x, y,        \* endpoints
          q1, q2,      \* queues
          m1, m2       \* messages

Both == {A, B}
One == {A}
TwoEndpoints == {x, y}
OneEndpoint == {x}
TwoQueues == {q1, q2}
OneQueue == {q1}
NoMessages == {}
OneMessage == {m1}
TwoMessages == {m1, m2}
TwoListeners == {1, 2}
ThreeListeners == {1, 2, 3}

\* Routes only, and both queues.
Moving == {[endpoint |-> x, queues |-> {}], [endpoint |-> y, queues |-> {q1}]}
Twofold == {[endpoint |-> x, queues |-> {q1, q2}]}
Plain == {[endpoint |-> x, queues |-> {q1}]}
=============================================================================

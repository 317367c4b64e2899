---------------------------- MODULE MCDelivery ----------------------------
\* The outbox with two items of which the second is malformed and the first is given up once
\* it has failed; two writes over two connections; two endpoints and two callers; and a key
\* page that takes two top-ups; two workers that submit two outputs.
EXTENDS Bridge

\* Two outputs that callers may make depend on each other.
MCEdges == {<<1, 2>>, <<2, 1>>}

ASSUME BridgeAssumption
=============================================================================

---------------------------- MODULE MCExecution ----------------------------
\* Two workers, queries and simulations, three codes of which one is not fit for a
\* cache of one; two monitors of one transaction over two connections.
EXTENDS Contracts

ASSUME ContractsAssumption
=============================================================================

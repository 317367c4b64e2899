------------------------ MODULE MCBlockProduction --------------------------
(***************************************************************************)
(* A small instance of BlockProduction: two transactions of one sender, a  *)
(* snapshot and an anchor at every height.                                 *)
(***************************************************************************)
EXTENDS BlockProduction

CONSTANTS t1, t2, a1

MCTxs == {t1, t2}
MCAccounts == {a1}
MCFrom == [t \in MCTxs |-> a1]
MCGasPrice == [t \in MCTxs |-> IF t = t1 THEN 2 ELSE 1]
MCGasLimit == [t \in MCTxs |-> 1]
MCTxSize == [t \in MCTxs |-> 1]
=============================================================================

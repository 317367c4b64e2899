---------------------------- MODULE MCSequencer ----------------------------
(***************************************************************************)
(* A small instance of Sequencer.  The pool: three transactions of a1, two *)
(* of a2, so that a1 reaches AccountLimit and the pool GlobalLimit.  t1    *)
(* and t2 tie on priority; t3 and t4 are cheaper and overtake them with    *)
(* age; the price times limit of t5 overflows the word, which loses most   *)
(* of its priority.  The blocks: two transactions of one sender, a         *)
(* snapshot and an anchor at every height.                                 *)
(***************************************************************************)
EXTENDS Sequencer

CONSTANTS t1, t2, t3, t4, t5, a1, a2

MCTxs == {t1, t2, t3, t4, t5}
MCAccounts == {a1, a2}
MCFrom == [t \in MCTxs |-> IF t \in {t1, t2, t3} THEN a1 ELSE a2]
MCGasPrice == [t \in MCTxs |-> CASE t \in {t1, t2} -> 3 [] t = t5 -> 5 [] OTHER -> 2]
MCGasLimit == [t \in MCTxs |-> CASE t \in {t1, t2} -> 2 [] t = t5 -> 4 [] OTHER -> 3]
MCTxSize == [t \in MCTxs |-> CASE t \in {t1, t2} -> 2 [] t = t5 -> 1 [] OTHER -> 3]
MCBlockTxs == {t1, t3}
=============================================================================

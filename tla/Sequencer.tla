----------------------------- MODULE Sequencer -----------------------------
(***************************************************************************)
(* The pool and the blocks of the sequencer, side by side.  `part` says    *)
(* what a behaviour is about: the pool under every sequence of calls, or   *)
(* block production with the pool beneath it.                              *)
(***************************************************************************)
EXTENDS BlockProduction

CONSTANTS
  BlockTxs,     \* bounds on block production: the transactions that clients submit,
  MaxBlockAdds  \* and how many additions the pool sees in one run of the process

VARIABLE part

sequencerVars == <<part, vars>>

\* Everything but the pool.
loopVars == <<backend, boot, pc, blockVars, heightVars, headers, snaps, anchorVars, stale,
              failures, runs>>

SequencerInit ==
  /\ part \in {"pool", "blocks"}
  /\ Init
  /\ part = "pool" => backend = (CHOOSE b \in Backends : TRUE)

\* Bounds on block production.  A pool without its cleanup routine behaves like
\* one whose ticks find nothing: here the routine leaves after mainLoop.
ScopedBlocks ==
  /\ transactions' \subseteq BlockTxs /\ totalAdded' =< MaxBlockAdds
  /\ cleaner' \/ pc' \in {"down", "stopped"}

SequencerNext ==
  /\ UNCHANGED part
  /\ \/ part = "pool" /\ PoolNext /\ UNCHANGED loopVars
     \/ part = "blocks" /\ Next /\ ScopedBlocks

\* The goroutines of mainLoop and of cleanupRoutine are scheduled, and their
\* tickers tick.
SequencerSpec ==
  /\ SequencerInit /\ [][SequencerNext]_sequencerVars
  /\ WF_vars(LoopStep) /\ PoolFairness
=============================================================================

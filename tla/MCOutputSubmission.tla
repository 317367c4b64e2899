----------------------- MODULE MCOutputSubmission ---------------------------
(***************************************************************************)
(* A small instance of OutputSubmission: two workers, two outputs that     *)
(* callers may make depend on each other.                                  *)
(***************************************************************************)
EXTENDS OutputSubmission

CONSTANTS w1, w2

MCWorkers == {w1, w2}
MCEdges == {<<1, 2>>, <<2, 1>>}
=============================================================================

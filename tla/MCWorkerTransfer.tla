-------------------------- MODULE MCWorkerTransfer --------------------------
(***************************************************************************)
(* Two inputs of up to MaxChunks chunks, of sizes below and above the      *)
(* watermark, with every way to fail.                                      *)
(***************************************************************************)
EXTENDS WorkerTransfer
=============================================================================

----------------------------- MODULE MCLoopPool -----------------------------
(* LoopPool on small instances.                                            *)
EXTENDS LoopPool

UpToMax == 0 .. MaxThreads
Both == {FALSE, TRUE}
=============================================================================

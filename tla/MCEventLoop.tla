---------------------------- MODULE MCEventLoop ----------------------------
(* EventLoop on small instances.                                           *)
EXTENDS EventLoop

Everyone == Callers \cup {LoopThread}

Both == {FALSE, TRUE}
AsCommitted == {FALSE}
=============================================================================

----------------------------- MODULE TaskQueue -----------------------------
(***************************************************************************)
(* What EventLoop promises to the threads that hand it work: a functor     *)
(* given to queueInLoop is called once, by the loop thread, after every    *)
(* functor queued before it; a functor that the loop thread itself gives   *)
(* to runInLoop is called on the spot.  EventLoop.tla implements this.     *)
(***************************************************************************)
EXTENDS Sequences

CONSTANT Functors           \* the callables that are ever handed to the loop

VARIABLES
  posted,                   \* functors handed over so far
  queue,                    \* functors accepted and not yet called, in order
  ran                       \* functors called, in the order of the calls

vars == <<posted, queue, ran>>

Init ==
  /\ posted = {}
  /\ queue = <<>>
  /\ ran = <<>>

(* queueInLoop, by any thread. *)
Post(f) ==
  /\ f \notin posted
  /\ posted' = posted \cup {f}
  /\ queue' = Append(queue, f)
  /\ UNCHANGED ran

(* The loop thread calls the oldest functor. *)
Run ==
  /\ queue # <<>>
  /\ queue' = Tail(queue)
  /\ ran' = Append(ran, Head(queue))
  /\ UNCHANGED posted

(* runInLoop, by the loop thread. *)
RunNow(f) ==
  /\ f \notin posted
  /\ posted' = posted \cup {f}
  /\ ran' = Append(ran, f)
  /\ UNCHANGED queue

Next ==
  \/ \E f \in Functors : Post(f) \/ RunNow(f)
  \/ Run

Spec == Init /\ [][Next]_vars
=============================================================================

-------------------------- MODULE EventLoopProofs --------------------------
(***************************************************************************)
(* Proofs about EventLoop: type correctness, the absence of lost wakeups,  *)
(* and that the loop implements TaskQueue, for any number of threads and   *)
(* functors, any eventfd limit, and poll() dispatching or not.             *)
(***************************************************************************)
EXTENDS EventLoop, SequenceTheorems, TLAPS

LEMMA NoElements == ASSUME NEW S PROVE <<>> \in Seq(S)
  OBVIOUS

(* Every variable keeps its type: the steps of EventLoop only move values. *)
THEOREM TypeCorrect == Spec => []TypeOK
<1>1. Init => TypeOK
  <2> SUFFICES ASSUME Init PROVE TypeOK
    OBVIOUS
  <2>1. /\ pendingFunctors_ \in Seq(Functors)
        /\ functors \in Seq(Functors)
        /\ ran \in Seq(Functors)
    BY NoElements DEF Init
  <2>2. wakeCount \in 0 .. EventFdMax
    BY LoopAssumption DEF Init
  <2>3. op \in [Threads -> {"idle", "wake"}]
    BY DEF Init
  <2>4. dispatches \in BOOLEAN
    BY LoopAssumption DEF Init
  <2> QED
    BY <2>1, <2>2, <2>3, <2>4 DEF Init, TypeOK
<1>2. TypeOK /\ [Next]_vars => TypeOK'
  <2> SUFFICES ASSUME TypeOK, [Next]_vars PROVE TypeOK'
    OBVIOUS
  <2>0. UNCHANGED dispatches
    BY DEF Next, vars
  <2> USE <2>0
  <2> USE LoopAssumption DEF TypeOK, loopVars, queueVars, fdVars, LoopAt,
          CanCall
  <2>1. ASSUME NEW t \in Threads, NEW f \in Functors, QueueInLoop(t, f)
        PROVE  TypeOK'
    BY <2>1 DEF QueueInLoop
  <2>2. ASSUME NEW t \in Threads, NEW f \in Functors, RunInLoop(t, f)
        PROVE  TypeOK'
    <3>1. CASE QueueInLoop(t, f)
      BY <2>1, <3>1
    <3>2. CASE ~QueueInLoop(t, f)
      <4>1. Append(ran, f) \in Seq(Functors)
        BY AppendProperties
      <4> QED
        BY <2>2, <3>2, <4>1 DEF RunInLoop
    <3> QED
      BY <3>1, <3>2
  <2>3. ASSUME NEW t \in Quitters, Quit(t) PROVE TypeOK'
    BY <2>3 DEF Quit
  <2>4. ASSUME NEW t \in Threads, WakeUp(t) PROVE TypeOK'
    <3>1. wakeCount' \in 0 .. EventFdMax
      BY <2>4 DEF WakeUp, Writen
    <3>2. wakeReady' \in BOOLEAN
      BY <2>4 DEF WakeUp, Writen
    <3>3. op' \in [Threads -> {"idle", "wake"}]
      BY <2>4 DEF WakeUp, Writen
    <3> QED
      BY <2>4, <3>1, <3>2, <3>3 DEF WakeUp, Writen
  <2>5. ASSUME NEW reported \in SUBSET {Wake, Conn}, PollReturns(reported)
        PROVE  TypeOK'
    BY <2>5 DEF PollReturns
  <2>6. CASE PollTimesOut
    BY <2>6 DEF PollTimesOut
  <2>7. CASE LoopEnter \/ LoopCheck \/ HandleExpired
    BY <2>7 DEF LoopEnter, LoopCheck, HandleExpired
  <2>8. CASE WakeHandleRead \/ WakeHandleConn
    <3>1. CASE WakeHandleRead
      BY <3>1 DEF WakeHandleRead, Readn
    <3>2. CASE WakeHandleConn
      <4>1. wakeReady' \in BOOLEAN
        BY <3>2, Zenon DEF WakeHandleConn
      <4> QED
        BY <3>2, <4>1 DEF WakeHandleConn
    <3> QED
      BY <2>8, <3>1, <3>2
  <2>9. CASE HandlerEnter \/ HandlerReturn
    BY <2>9 DEF HandlerEnter, HandlerReturn
  <2>10. CASE SwapFunctors \/ FunctorReturn \/ FunctorsDone
    BY <2>10, NoElements DEF SwapFunctors, FunctorReturn, FunctorsDone
  <2>11. CASE CallFunctor
    <3>1. Head(functors) \in Functors /\ Tail(functors) \in Seq(Functors)
      BY <2>11 DEF CallFunctor
    <3> QED
      BY <2>11, <3>1 DEF CallFunctor
  <2>12. CASE UNCHANGED vars
    BY <2>12 DEF vars
  <2> QED
    BY <2>1, <2>2, <2>3, <2>4, <2>5, <2>6, <2>7, <2>8, <2>9, <2>10, <2>11,
       <2>12 DEF Next, Step, LoopStep, Poll
<1> QED
  BY <1>1, <1>2, PTL DEF Spec
-----------------------------------------------------------------------------
(***************************************************************************)
(* No lost wakeup.  NoLostWakeup is not inductive: from "poll" alone one   *)
(* cannot see that the counter a full eventfd shows is still to be         *)
(* reported (EdgeKept), nor that what is queued after the swap was         *)
(* announced (WakeCovers).  IInv says both for every phase of the loop.    *)
(***************************************************************************)
LEMMA InitCovered == Init => Phases /\ WakeCovers /\ EdgeKept /\ NotDrained
  BY LoopAssumption DEF Init, Phases, WakeCovers, EdgeKept, NotDrained,
     Threads

(* The calls of the threads: what they queue they also announce. *)
LEMMA CallsCovered ==
  ASSUME IInv, UNCHANGED dispatches, NEW t \in Threads,
         \/ \E f \in Functors : QueueInLoop(t, f) \/ RunInLoop(t, f)
         \/ Quit(t)
  PROVE  Phases' /\ WakeCovers' /\ EdgeKept' /\ NotDrained'
<1> USE LoopAssumption DEF IInv, TypeOK, loopVars, queueVars, fdVars, CanCall,
        Threads
<1>1. ASSUME NEW f \in Functors, QueueInLoop(t, f)
      PROVE  Phases' /\ WakeCovers' /\ EdgeKept' /\ NotDrained'
  <2>1. Phases'
    BY <1>1 DEF QueueInLoop, Phases, NeedsWake
  <2>2. WakeCovers'
    BY <1>1 DEF QueueInLoop, Phases, NeedsWake, WakeCovers, WakeComing,
       WakeReported, Saturated, BeforePoll
  <2>3. EdgeKept' /\ NotDrained'
    BY <1>1 DEF QueueInLoop, EdgeKept, NotDrained
  <2> QED
    BY <2>1, <2>2, <2>3
<1>2. ASSUME NEW f \in Functors, RunInLoop(t, f)
      PROVE  Phases' /\ WakeCovers' /\ EdgeKept' /\ NotDrained'
  <2>1. CASE t # LoopThread
    BY <1>1, <1>2, <2>1 DEF RunInLoop
  <2>2. CASE t = LoopThread
    BY <1>2, <2>2 DEF RunInLoop, Phases, WakeCovers, WakeComing,
       WakeReported, Saturated, BeforePoll, EdgeKept, NotDrained
  <2> QED
    BY <2>1, <2>2
<1>3. CASE Quit(t)
  <2>1. Phases' /\ EdgeKept' /\ NotDrained'
    BY <1>3 DEF Quit, Phases, EdgeKept, NotDrained
  <2>2. WakeCovers'
    BY <1>3 DEF Quit, Phases, WakeCovers, WakeComing, WakeReported,
       Saturated, BeforePoll
  <2> QED
    BY <2>1, <2>2
<1> QED
  BY <1>1, <1>2, <1>3

(* The write to the eventfd: what it announces stays visible. *)
LEMMA WriteCovered ==
  ASSUME IInv, UNCHANGED dispatches, NEW t \in Threads, WakeUp(t)
  PROVE  Phases' /\ WakeCovers' /\ EdgeKept' /\ NotDrained'
<1> USE LoopAssumption DEF IInv, TypeOK, loopVars, queueVars, fdVars, Threads
<1>1. Phases'
  BY DEF WakeUp, Writen, Phases
<1>2. WakeCovers'
  <2>1. CASE wakeCount < EventFdMax
    BY <2>1 DEF WakeUp, Writen, WakeCovers, WakeComing, WakeReported
  <2>2. CASE ~(wakeCount < EventFdMax)
    <3>1. wakeCount = EventFdMax /\ wakeCount > 0
      BY <2>2
    <3> QED
      BY <2>2, <3>1 DEF WakeUp, Writen, WakeCovers, Saturated
  <2> QED
    BY <2>1, <2>2
<1>3. EdgeKept' /\ NotDrained'
  BY DEF WakeUp, Writen, EdgeKept, NotDrained
<1> QED
  BY <1>1, <1>2, <1>3

(* The loop thread enters epoll_wait only with nothing left unannounced,   *)
(* and takes an edge only to dispatch it.                                  *)
LEMMA PollCovered ==
  ASSUME IInv, UNCHANGED dispatches, Poll \/ PollTimesOut
  PROVE  Phases' /\ WakeCovers' /\ EdgeKept' /\ NotDrained'
<1> USE LoopAssumption DEF IInv, TypeOK, loopVars, queueVars, fdVars, LoopAt,
        Threads, BeforePoll
<1>1. ASSUME NEW reported \in SUBSET {Wake, Conn}, PollReturns(reported)
      PROVE  Phases' /\ WakeCovers' /\ EdgeKept' /\ NotDrained'
  <2>1. Phases'
    BY <1>1 DEF PollReturns, Phases
  <2>2. WakeCovers' /\ NotDrained'
    BY <1>1 DEF PollReturns, WakeCovers, NotDrained
  <2>3. EdgeKept'
    BY <1>1 DEF PollReturns, EdgeKept, WakeReported, Phases
  <2> QED
    BY <2>1, <2>2, <2>3
<1>2. CASE PollTimesOut
  BY <1>2 DEF PollTimesOut, Phases, WakeCovers, EdgeKept, NotDrained
<1> QED
  BY <1>1, <1>2 DEF Poll

(* The callbacks: the eventfd is emptied only on the way to the swap. *)
LEMMA HandlersCovered ==
  ASSUME IInv, UNCHANGED dispatches,
         WakeHandleRead \/ WakeHandleConn \/ HandlerEnter \/ HandlerReturn
  PROVE  Phases' /\ WakeCovers' /\ EdgeKept' /\ NotDrained'
<1> USE LoopAssumption DEF IInv, TypeOK, loopVars, queueVars, fdVars, LoopAt,
        Threads, BeforePoll, Phases, WakeCovers, EdgeKept, NotDrained
<1>1. CASE WakeHandleRead
  <2>1. dispatches
    BY <1>1 DEF WakeHandleRead, Readn
  <2>2. ~(wakeCount' > 0)
    BY <1>1 DEF WakeHandleRead, Readn
  <2>3. Phases'
    BY <1>1, <2>1 DEF WakeHandleRead, Readn
  <2>4. WakeCovers' /\ EdgeKept' /\ NotDrained'
    BY <1>1, <2>1, <2>2 DEF WakeHandleRead, Readn
  <2> QED
    BY <2>3, <2>4
<1>2. CASE WakeHandleConn
  BY <1>2, Zenon DEF WakeHandleConn
<1>3. CASE HandlerEnter
  BY <1>3 DEF HandlerEnter, Wake, Conn
<1>4. CASE HandlerReturn
  BY <1>4 DEF HandlerReturn
<1> QED
  BY <1>1, <1>2, <1>3, <1>4

(* doPendingFunctors: after the swap nothing is queued, and what a functor *)
(* queues is announced because callingPendingFunctors_ is set.             *)
LEMMA FunctorsCovered ==
  ASSUME IInv, UNCHANGED dispatches,
         SwapFunctors \/ CallFunctor \/ FunctorReturn \/ FunctorsDone
  PROVE  Phases' /\ WakeCovers' /\ EdgeKept' /\ NotDrained'
<1> USE LoopAssumption DEF IInv, TypeOK, loopVars, queueVars, fdVars, LoopAt,
        Threads, BeforePoll, Phases, WakeCovers, EdgeKept, NotDrained,
        WakeComing, WakeReported, Saturated
<1>1. CASE SwapFunctors
  BY <1>1 DEF SwapFunctors
<1>2. CASE CallFunctor
  BY <1>2 DEF CallFunctor
<1>3. CASE FunctorReturn
  BY <1>3 DEF FunctorReturn
<1>4. CASE FunctorsDone
  BY <1>4 DEF FunctorsDone
<1> QED
  BY <1>1, <1>2, <1>3, <1>4

(* The rest of loop(): looping_ is read, and the poller's timers expire. *)
LEMMA ControlCovered ==
  ASSUME IInv, UNCHANGED dispatches, LoopEnter \/ LoopCheck \/ HandleExpired
  PROVE  Phases' /\ WakeCovers' /\ EdgeKept' /\ NotDrained'
<1> USE LoopAssumption DEF IInv, TypeOK, loopVars, queueVars, fdVars, LoopAt,
        Threads, BeforePoll, Phases, WakeCovers, EdgeKept, NotDrained,
        WakeComing, WakeReported, Saturated
<1>1. CASE LoopEnter
  BY <1>1 DEF LoopEnter
<1>2. CASE LoopCheck
  BY <1>2 DEF LoopCheck
<1>3. CASE HandleExpired
  BY <1>3 DEF HandleExpired
<1> QED
  BY <1>1, <1>2, <1>3

LEMMA StepCovered ==
  ASSUME IInv, [Next]_vars
  PROVE  Phases' /\ WakeCovers' /\ EdgeKept' /\ NotDrained'
<1> UNCHANGED dispatches
  BY DEF Next, vars
<1>1. CASE \/ \E t \in Threads, f \in Functors :
                QueueInLoop(t, f) \/ RunInLoop(t, f)
           \/ \E t \in Quitters : Quit(t)
  BY <1>1, CallsCovered, LoopAssumption
<1>2. CASE \E t \in Threads : WakeUp(t)
  BY <1>2, WriteCovered
<1>3. CASE UNCHANGED vars
  BY <1>3 DEF IInv, vars, loopVars, queueVars, fdVars, Phases, WakeCovers,
     EdgeKept, NotDrained, WakeComing, WakeReported, Saturated
<1> QED
  BY <1>1, <1>2, <1>3, PollCovered, HandlersCovered, FunctorsCovered,
     ControlCovered DEF Next, Step, LoopStep

(* The strengthening holds of every reachable state. *)
THEOREM CoverInvariant == Spec => []IInv
<1>1. Init => Phases /\ WakeCovers /\ EdgeKept /\ NotDrained
  BY InitCovered
<1>2. IInv /\ [Next]_vars => (Phases /\ WakeCovers /\ EdgeKept /\ NotDrained)'
  BY StepCovered
<1>3. Spec => []TypeOK
  BY TypeCorrect
<1>4. IInv <=> TypeOK /\ (Phases /\ WakeCovers /\ EdgeKept /\ NotDrained)
  BY DEF IInv
<1> QED
  BY <1>1, <1>2, <1>3, <1>4, PTL DEF Spec

(* The loop never blocks over work that nobody will announce (queueInLoop, *)
(* quit, wakeUp, doPendingFunctors).                                       *)
THEOREM NoLostWakeupHolds == Spec => []NoLostWakeup
<1>1. IInv => NoLostWakeup
  BY DEF IInv, TypeOK, Phases, WakeCovers, EdgeKept, NoLostWakeup,
     WakeComing, WakeReported, BeforePoll
<1> QED
  BY <1>1, CoverInvariant, PTL
-----------------------------------------------------------------------------
(***************************************************************************)
(* Refinement: queueInLoop posts, CallFunctor runs, runInLoop on the loop  *)
(* thread runs at once, and every other step stutters.                     *)
(***************************************************************************)
LEMMA ConcatAppend ==
  ASSUME NEW S, NEW s \in Seq(S), NEW t \in Seq(S), NEW e \in S
  PROVE  s \o Append(t, e) = Append(s \o t, e)
<1>1. Append(t, e) = t \o <<e>> /\ <<e>> \in Seq(S)
  BY AppendIsConcat
<1>2. s \o t \in Seq(S) /\ Append(s \o t, e) = (s \o t) \o <<e>>
  BY ConcatProperties, AppendIsConcat
<1> QED
  BY <1>1, <1>2, ConcatAssociative

LEMMA ConcatHeadTail ==
  ASSUME NEW S, NEW s \in Seq(S), NEW t \in Seq(S), s # <<>>
  PROVE  /\ s \o t # <<>>
         /\ Head(s \o t) = Head(s)
         /\ Tail(s \o t) = Tail(s) \o t
<1>1. s = <<Head(s)>> \o Tail(s) /\ Tail(s) \in Seq(S) /\ Head(s) \in S
  BY HeadTailProperties
<1>2. s \o t = <<Head(s)>> \o (Tail(s) \o t) /\ Tail(s) \o t \in Seq(S)
  BY <1>1, ConcatAssociative, ConcatProperties
<1> QED
  BY <1>1, <1>2

(* Every step of the loop is a step of TaskQueue or leaves it alone. *)
LEMMA StepRefines == ASSUME IInv, [Next]_vars PROVE [TQ!Next]_TQ!vars
<1> USE DEF IInv, TypeOK, TQ!vars, loopVars, queueVars, fdVars, LoopAt, CanCall
<1>1. ASSUME NEW t \in Threads, NEW f \in Functors, QueueInLoop(t, f)
      PROVE  TQ!Post(f)
  <2>1. functors \o Append(pendingFunctors_, f)
          = Append(functors \o pendingFunctors_, f)
    BY ConcatAppend
  <2> QED
    BY <1>1, <2>1 DEF QueueInLoop, TQ!Post
<1>2. ASSUME NEW t \in Threads, NEW f \in Functors, RunInLoop(t, f)
      PROVE  TQ!Post(f) \/ TQ!RunNow(f)
  BY <1>1, <1>2 DEF RunInLoop, TQ!RunNow
<1>3. CASE CallFunctor
  <2>1. /\ functors \o pendingFunctors_ # <<>>
        /\ Head(functors \o pendingFunctors_) = Head(functors)
        /\ Tail(functors \o pendingFunctors_)
             = Tail(functors) \o pendingFunctors_
    BY <1>3, ConcatHeadTail DEF CallFunctor
  <2> QED
    BY <1>3, <2>1 DEF CallFunctor, TQ!Run, TQ!Next
<1>4. CASE SwapFunctors
  <2>1. functors = <<>>
    BY <1>4 DEF SwapFunctors, Phases
  <2>2. <<>> \o pendingFunctors_ = pendingFunctors_ \o <<>>
    BY ConcatEmptySeq
  <2> QED
    BY <1>4, <2>1, <2>2 DEF SwapFunctors
<1>5. CASE \/ \E t \in Quitters : Quit(t)
           \/ \E t \in Threads : WakeUp(t)
           \/ Poll \/ PollTimesOut \/ UNCHANGED vars
  BY <1>5 DEF Quit, WakeUp, Writen, Poll, PollReturns, PollTimesOut, vars
<1>6. CASE LoopStep /\ ~CallFunctor /\ ~SwapFunctors
  BY <1>5, <1>6 DEF LoopStep, LoopEnter, LoopCheck, WakeHandleRead, Readn,
     WakeHandleConn, HandlerEnter, HandlerReturn, FunctorReturn, FunctorsDone,
     HandleExpired
<1> QED
  BY <1>1, <1>2, <1>3, <1>4, <1>5, <1>6 DEF Next, Step, TQ!Next

(* Functors are called once each, in the order they were queued in, by any *)
(* interleaving of any number of threads (queueInLoop, doPendingFunctors). *)
THEOREM LoopImplementsTaskQueue == Spec => ImplementsTaskQueue
<1>1. Init => TQ!Init
  BY ConcatEmptySeq, NoElements DEF Init, TQ!Init
<1>2. IInv /\ [Next]_vars => [TQ!Next]_TQ!vars
  BY StepRefines
<1> QED
  BY <1>1, <1>2, CoverInvariant, PTL DEF Spec, ImplementsTaskQueue, TQ!Spec
=============================================================================

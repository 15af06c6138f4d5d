----------------------------- MODULE EventLoop -----------------------------
(***************************************************************************)
(* One EventLoop (EventLoop.h, EventLoop.cpp): the thread that runs        *)
(* loop(), the other threads that call queueInLoop, runInLoop and quit on  *)
(* it, the eventfd they wake it with, and the edge-triggered epoll         *)
(* instance it blocks in.                                                  *)
(*                                                                         *)
(* Every step is one the threads can interleave at: a critical section of  *)
(* mutex_, one system call, one read or write of looping_.  The fields     *)
(* that only the loop thread touches move with the step that needs them.   *)
(*                                                                         *)
(* An operator named X_Y is X with the defect Y: the properties below have *)
(* to tell it from X.                                                      *)
(***************************************************************************)
EXTENDS Naturals, Sequences

CONSTANTS
  Functors,         \* callables handed to the loop, each at most once
  Callers,          \* threads other than the loop's (the acceptor's thread)
  LoopThread,       \* the thread whose id is threadId_
  Quitters,         \* the threads that may call quit()
  EventFdMax,       \* largest value of an eventfd counter (2^64 - 2)
  Builds            \* the values of dispatches looked at

Threads == Callers \cup {LoopThread}

ASSUME LoopAssumption ==
  /\ LoopThread \notin Callers
  /\ Quitters \subseteq Threads
  /\ EventFdMax \in Nat \ {0}
  /\ Builds \subseteq BOOLEAN

(* wakeUpChannel_, and one that stands for all the others of the poller. *)
Wake == "wakeUpChannel_"
Conn == "another channel"

VARIABLES
  dispatches,               \* whether poll() reaches fillActiveChannels: FALSE
                            \* is the code as committed (while (false)), TRUE
                            \* its loop body run; never changes
  pc,                       \* where the loop thread is
  op,                       \* op[t] = "wake": t is about to call wakeUp()
  looping_,
  pendingFunctors_,
  functors,                 \* the local vector of doPendingFunctors
  callingPendingFunctors_,
  activeChannels_,
  wakeCount,                \* the counter of wakeUpFd_
  wakeReady,                \* wakeUpFd_ is on the ready list of the epoll set
  posted,                   \* history: functors handed over
  ran                       \* history: functors called, in order

loopVars == <<looping_, functors, callingPendingFunctors_, activeChannels_>>
queueVars == <<pendingFunctors_, posted, ran>>
fdVars == <<wakeCount, wakeReady>>
vars == <<dispatches, pc, op, loopVars, queueVars, fdVars>>

Init ==
  /\ dispatches \in Builds
  /\ pc = "start"
  /\ op = [t \in Threads |-> "idle"]
  /\ looping_ = FALSE
  /\ pendingFunctors_ = <<>>
  /\ functors = <<>>
  /\ callingPendingFunctors_ = FALSE
  /\ activeChannels_ = {}
  /\ wakeCount = 0
  /\ wakeReady = FALSE
  /\ posted = {}
  /\ ran = <<>>
-----------------------------------------------------------------------------
(***************************************************************************)
(* The operations the threads call.  The loop thread calls them from a     *)
(* channel's callback ("handler") or from a functor ("body").  Nobody      *)
(* calls an EventLoop whose loop() has returned: it lives on the stack of  *)
(* its thread.                                                             *)
(***************************************************************************)
CanCall(t) ==
  /\ op[t] = "idle"
  /\ IF t = LoopThread THEN pc \in {"handler", "body"} ELSE pc # "exited"

NeedsWake_OnlyOtherThreads(t) == t # LoopThread

NeedsWake(t) == t # LoopThread \/ callingPendingFunctors_

QueueInLoop(t, f) ==
  /\ CanCall(t)
  /\ f \notin posted
  /\ posted' = posted \cup {f}
  /\ pendingFunctors_' = Append(pendingFunctors_, f)
  /\ op' = [op EXCEPT ![t] = IF NeedsWake(t) THEN "wake" ELSE "idle"]
  /\ UNCHANGED <<pc, loopVars, ran, fdVars>>

RunInLoop(t, f) ==
  \/ t # LoopThread /\ QueueInLoop(t, f)
  \/ /\ t = LoopThread
     /\ CanCall(t)
     /\ f \notin posted
     /\ posted' = posted \cup {f}
     /\ ran' = Append(ran, f)
     /\ UNCHANGED <<pc, op, loopVars, pendingFunctors_, fdVars>>

Quit_NoWake(t) ==
  /\ CanCall(t)
  /\ looping_' = FALSE
  /\ UNCHANGED <<pc, op, functors, callingPendingFunctors_, activeChannels_,
                 queueVars, fdVars>>

Quit(t) ==
  /\ CanCall(t)
  /\ looping_' = FALSE
  /\ op' = [op EXCEPT ![t] = IF t # LoopThread THEN "wake" ELSE "idle"]
  /\ UNCHANGED <<pc, functors, callingPendingFunctors_, activeChannels_,
                 queueVars, fdVars>>

(***************************************************************************)
(* writen(wakeUpFd_, &one, 8).  A write that succeeds writes all 8 bytes   *)
(* and raises an edge, even if the counter was not zero; one that would    *)
(* overflow the counter fails with EAGAIN, writes nothing and raises none; *)
(* an interrupted one is tried again.                                      *)
(***************************************************************************)
Writen ==
  IF wakeCount < EventFdMax
  THEN wakeCount' = wakeCount + 1 /\ wakeReady' = TRUE
  ELSE UNCHANGED fdVars

(* wakeUp(): a short or failed write is looked at and forgotten. *)
WakeUp(t) ==
  /\ op[t] = "wake"
  /\ op' = [op EXCEPT ![t] = "idle"]
  /\ Writen
  /\ UNCHANGED <<pc, loopVars, queueVars>>
-----------------------------------------------------------------------------
(***************************************************************************)
(* The loop thread.                                                        *)
(***************************************************************************)
LoopAt(p) == pc = p /\ op[LoopThread] = "idle"

LoopEnter ==
  /\ LoopAt("start")
  /\ looping_' = TRUE
  /\ pc' = "check"
  /\ UNCHANGED <<op, functors, callingPendingFunctors_, activeChannels_,
                 queueVars, fdVars>>

LoopCheck ==
  /\ LoopAt("check")
  /\ pc' = IF looping_ THEN "poll" ELSE "exited"
  /\ activeChannels_' = {}
  /\ UNCHANGED <<op, looping_, functors, callingPendingFunctors_,
                 queueVars, fdVars>>

WakeReported == wakeReady /\ wakeCount > 0

(* epoll_wait returns: it takes the edge and reports what is readable. *)
PollReturns(reported) ==
  /\ LoopAt("poll")
  /\ reported # {}
  /\ (Wake \in reported) <=> WakeReported
  /\ wakeReady' = FALSE
  /\ activeChannels_' = IF dispatches THEN reported ELSE {}
  /\ pc' = "events"
  /\ UNCHANGED <<op, looping_, functors, callingPendingFunctors_,
                 queueVars, wakeCount>>

(* EPOLLTIME has passed with no event, or a signal interrupted the wait. *)
PollTimesOut ==
  /\ LoopAt("poll")
  /\ ~WakeReported
  /\ pc' = "events"
  /\ UNCHANGED <<op, loopVars, queueVars, fdVars>>

Readn_Unread == UNCHANGED wakeCount

(* readn(wakeUpFd_, &one, 8): one read takes the whole counter. *)
Readn == wakeCount' = 0

(* handleEvents of wakeUpChannel_, first handleRead ... *)
WakeHandleRead ==
  /\ LoopAt("events")
  /\ Wake \in activeChannels_
  /\ activeChannels_' = activeChannels_ \ {Wake}
  /\ Readn
  /\ pc' = "wakeConn"
  /\ UNCHANGED <<op, looping_, functors, callingPendingFunctors_,
                 queueVars, wakeReady>>

(* ... then handleConn: EPOLL_CTL_MOD looks at the descriptor again. *)
WakeHandleConn ==
  /\ LoopAt("wakeConn")
  /\ wakeReady' = (wakeReady \/ wakeCount > 0)
  /\ pc' = "events"
  /\ UNCHANGED <<op, loopVars, queueVars, wakeCount>>

(* handleEvents of another channel: its callbacks run until it returns. *)
HandlerEnter ==
  /\ LoopAt("events")
  /\ Conn \in activeChannels_
  /\ activeChannels_' = activeChannels_ \ {Conn}
  /\ pc' = "handler"
  /\ UNCHANGED <<op, looping_, functors, callingPendingFunctors_,
                 queueVars, fdVars>>

HandlerReturn ==
  /\ LoopAt("handler")
  /\ pc' = "events"
  /\ UNCHANGED <<op, loopVars, queueVars, fdVars>>

Swap_Overwrites ==
  /\ LoopAt("events")
  /\ activeChannels_ = {}
  /\ callingPendingFunctors_' = TRUE
  /\ functors' = pendingFunctors_
  /\ pc' = "run"
  /\ UNCHANGED <<op, looping_, activeChannels_, queueVars, fdVars>>

(* doPendingFunctors: the swap under mutex_, the calls, the end. *)
SwapFunctors ==
  /\ LoopAt("events")
  /\ activeChannels_ = {}
  /\ callingPendingFunctors_' = TRUE
  /\ functors' = pendingFunctors_
  /\ pendingFunctors_' = <<>>
  /\ pc' = "run"
  /\ UNCHANGED <<op, looping_, activeChannels_, posted, ran, fdVars>>

CallFunctor ==
  /\ LoopAt("run")
  /\ functors # <<>>
  /\ ran' = Append(ran, Head(functors))
  /\ functors' = Tail(functors)
  /\ pc' = "body"
  /\ UNCHANGED <<op, looping_, callingPendingFunctors_, activeChannels_,
                 pendingFunctors_, posted, fdVars>>

FunctorReturn ==
  /\ LoopAt("body")
  /\ pc' = "run"
  /\ UNCHANGED <<op, loopVars, queueVars, fdVars>>

FunctorsDone ==
  /\ LoopAt("run")
  /\ functors = <<>>
  /\ callingPendingFunctors_' = FALSE
  /\ pc' = "expire"
  /\ UNCHANGED <<op, looping_, functors, activeChannels_, queueVars, fdVars>>

(* poller_->handleExpired(): closes connections, queues nothing. *)
HandleExpired ==
  /\ LoopAt("expire")
  /\ pc' = "check"
  /\ UNCHANGED <<op, loopVars, queueVars, fdVars>>
-----------------------------------------------------------------------------
Poll == \E reported \in SUBSET {Wake, Conn} : PollReturns(reported)

(* The steps the loop thread takes without waiting for anything outside. *)
LoopStep ==
  \/ LoopEnter \/ LoopCheck
  \/ WakeReported /\ Poll
  \/ WakeHandleRead \/ WakeHandleConn \/ HandlerEnter \/ HandlerReturn
  \/ SwapFunctors \/ CallFunctor \/ FunctorReturn \/ FunctorsDone
  \/ HandleExpired

Step ==
  \/ \E t \in Threads, f \in Functors : QueueInLoop(t, f) \/ RunInLoop(t, f)
  \/ \E t \in Quitters : Quit(t)
  \/ \E t \in Threads : WakeUp(t)
  \/ Poll \/ PollTimesOut
  \/ LoopStep

Next == Step /\ UNCHANGED dispatches

Spec == Init /\ [][Next]_vars

(***************************************************************************)
(* The threads are scheduled.  Neither the 30 second timeout of epoll_wait *)
(* nor an event of another channel is relied upon.                         *)
(***************************************************************************)
Fairness ==
  /\ WF_vars(LoopStep /\ UNCHANGED dispatches)
  /\ \A t \in Threads : WF_vars(WakeUp(t) /\ UNCHANGED dispatches)

FairSpec == Spec /\ Fairness
-----------------------------------------------------------------------------
TypeOK ==
  /\ dispatches \in BOOLEAN
  /\ pc \in {"start", "check", "poll", "events", "wakeConn", "handler",
             "run", "body", "expire", "exited"}
  /\ op \in [Threads -> {"idle", "wake"}]
  /\ looping_ \in BOOLEAN
  /\ pendingFunctors_ \in Seq(Functors)
  /\ functors \in Seq(Functors)
  /\ callingPendingFunctors_ \in BOOLEAN
  /\ activeChannels_ \in SUBSET {Wake, Conn}
  /\ wakeCount \in 0 .. EventFdMax
  /\ wakeReady \in BOOLEAN
  /\ posted \in SUBSET Functors
  /\ ran \in Seq(Functors)

(* A caller has still to write, or the written edge is still to be taken. *)
WakeComing == WakeReported \/ \E t \in Threads : op[t] = "wake"

(* The loop never drains a counter that poll() does not dispatch. *)
Saturated == ~dispatches /\ wakeCount = EventFdMax

(***************************************************************************)
(* The loop never blocks in epoll_wait over work: if a functor is queued,  *)
(* or quit() has cleared looping_, while the loop is in poll(), a wakeup   *)
(* is on its way (queueInLoop, quit, wakeUp, doPendingFunctors).  Only an  *)
(* eventfd that is full and never read could break this.                   *)
(***************************************************************************)
NoLostWakeup ==
  pc = "poll" /\ (pendingFunctors_ # <<>> \/ ~looping_)
    => WakeComing \/ Saturated

(***************************************************************************)
(* Every functor handed to a loop that does not end is called, although    *)
(* epoll_wait may never time out (queueInLoop, doPendingFunctors).         *)
(***************************************************************************)
PostedRuns ==
  \A f \in Functors :
    (f \in posted) ~>
      (pc = "exited" \/ Saturated \/ \E i \in DOMAIN ran : ran[i] = f)

(***************************************************************************)
(* Once quit() has cleared looping_ of a loop that has entered loop(), the *)
(* loop returns, blocked or not (quit, wakeUp, loop), unless a full        *)
(* eventfd that nobody reads keeps it from waking.                         *)
(***************************************************************************)
QuitStops == (~looping_ /\ pc # "start") ~> (pc = "exited" \/ Saturated)

(***************************************************************************)
(* Where poll() dispatches, the eventfd is read after every wakeup, so     *)
(* that its counter is bounded by the callers of one round (wakeUp,        *)
(* handleRead, handleConn), unless the loop ends.                          *)
(***************************************************************************)
WakeupRead ==
  (dispatches /\ wakeCount > 0) ~> (wakeCount = 0 \/ pc = "exited")

(***************************************************************************)
(* A wakeup is handled by wakeUpChannel_: its callback reads the eventfd   *)
(* (EventLoop::handleRead, Channel::handleEvents), unless the loop ends.   *)
(***************************************************************************)
WakeupHandled == (wakeCount > 0) ~> (wakeCount = 0 \/ pc = "exited")

(***************************************************************************)
(* The loop keeps the promise of TaskQueue: its queue is what is left of   *)
(* the batch being run, followed by pendingFunctors_.                      *)
(***************************************************************************)
TQ == INSTANCE TaskQueue WITH queue <- functors \o pendingFunctors_

(* Functors run once and in order (queueInLoop, doPendingFunctors). *)
ImplementsTaskQueue == TQ!Spec
-----------------------------------------------------------------------------
(***************************************************************************)
(* The inductive strengthening of NoLostWakeup.                            *)
(***************************************************************************)

(* In these phases the next epoll_wait comes before the next swap. *)
BeforePoll == {"start", "run", "body", "expire", "check", "poll"}

WakeCovers ==
  \/ pc \in BeforePoll /\ pendingFunctors_ # <<>>
  \/ pc = "poll" /\ ~looping_
  => WakeComing \/ (wakeCount > 0 /\ dispatches) \/ Saturated

(* A counter that is not zero is still to be reported or to be read. *)
EdgeKept ==
  dispatches /\ wakeCount > 0 =>
    wakeReady \/ Wake \in activeChannels_

NotDrained == ~dispatches /\ wakeReady => wakeCount > 0

Phases ==
  /\ pc \notin {"events", "wakeConn", "handler"} => activeChannels_ = {}
  /\ callingPendingFunctors_ <=> (pc \in {"run", "body"})
  /\ op[LoopThread] = "wake" => pc \in {"handler", "body"}
  /\ pc \notin {"run", "body"} => functors = <<>>
  /\ ~dispatches => activeChannels_ = {} /\ pc \notin {"wakeConn", "handler"}

IInv == TypeOK /\ Phases /\ WakeCovers /\ EdgeKept /\ NotDrained
=============================================================================

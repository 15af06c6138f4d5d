------------------------------ MODULE LoopPool ------------------------------
(***************************************************************************)
(* The threads of the server: the main thread, which starts the loop       *)
(* threads one after another (EventLoopThreadPool::threadPoolInit,         *)
(* EventLoopThread::threadStart), accepts connections and deals them out   *)
(* (Acceptor::handleNewConn, getNextPool, queueInLoop), and destroys the   *)
(* pool; and one thread per EventLoopThread, which builds its EventLoop on *)
(* its own stack and runs it (threadFunc).                                 *)
(*                                                                         *)
(* A loop is reduced to what the threads see of each other: looping_, the  *)
(* edge of its eventfd and how many functors wait; EventLoop models the    *)
(* rest.  What happens to a connection a loop has taken is ConnLifetime's. *)
(*                                                                         *)
(* A step that reads or writes an object another thread has already freed  *)
(* is undefined: it goes unnoticed or it crashes the process.              *)
(***************************************************************************)
EXTENDS Naturals, Sequences

CONSTANTS
  MaxThreads,       \* bound on threadNum_
  ThreadNums,       \* the values of threadNum_ looked at
  Builds,           \* the values of listening looked at
  MaxArrivals,      \* bound on the connections that arrive
  Null

ASSUME PoolAssumption ==
  /\ MaxThreads \in Nat /\ ThreadNums \subseteq 0 .. MaxThreads
  /\ Builds \subseteq BOOLEAN
  /\ MaxArrivals \in Nat
  /\ Null \notin Nat

Threads == 1 .. MaxThreads
Own == 0            \* ownLoop_, the loop of the main thread

VARIABLES
  threadNum_,
  listening,    \* whether acceptChannel_ has its two callbacks and is polled
                \* (readme.md) or not (as committed); never changes
  pc,           \* where the main thread is
  loops_,       \* loops_[i] is the loop of thread i, or Null
  next_,
  victim,       \* the EventLoopThread being destroyed
  tpc,          \* where each loop thread is
  count_,       \* of each CountDownLatch
  ownloop_,     \* of each EventLoopThread
  freed,        \* the EventLoopThreads destroyed
  looping_,     \* of each thread's loop
  wakeReady,    \* the edge of each eventfd
  inbox,        \* how many functors wait in each loop
  backlog,      \* connections the listening socket holds
  edge,         \* the edge of the listening socket, if it is registered
  arrived,      \* history: how many connections have arrived
  given,        \* history: how many connections each loop was given
  crashed

fixed == <<threadNum_, listening>>
poolVars == <<loops_, next_, given>>
startVars == <<count_, ownloop_>>
freeVars == <<victim, freed>>
loopVars == <<looping_, wakeReady, inbox>>
socketVars == <<backlog, edge, arrived>>
vars == <<fixed, pc, poolVars, freeVars, tpc, startVars, loopVars, socketVars,
          crashed>>

Init ==
  /\ threadNum_ \in ThreadNums
  /\ listening \in Builds
  /\ pc = "create"
  /\ loops_ = <<>>
  /\ next_ = 0
  /\ victim = 1
  /\ tpc = [t \in Threads |-> "none"]
  /\ count_ = [t \in Threads |-> 1]
  /\ ownloop_ = [t \in Threads |-> Null]
  /\ freed = {}
  /\ looping_ = [t \in Threads |-> FALSE]
  /\ wakeReady = [t \in Threads |-> FALSE]
  /\ inbox = [l \in Threads \cup {Own} |-> 0]
  /\ backlog = 0 /\ edge = FALSE /\ arrived = 0
  /\ given = [l \in Threads \cup {Own} |-> 0]
  /\ crashed = FALSE

(* The access is to an object that may be gone: anything may come of it. *)
Access(gone) == IF gone THEN crashed' \in BOOLEAN ELSE UNCHANGED crashed
-----------------------------------------------------------------------------
(***************************************************************************)
(* The main thread, threadPoolInit: the threads are started one by one.    *)
(***************************************************************************)
Starting == Len(loops_) + 1         \* i of threadPoolInit, counted from 1

PthreadCreate ==
  /\ pc = "create"
  /\ Starting <= threadNum_
  /\ tpc' = [tpc EXCEPT ![Starting] = "started"]
  /\ pc' = "latch"
  /\ UNCHANGED <<poolVars, freeVars, startVars, loopVars, socketVars, crashed>>

(* pthread_create fails: threadStart returns nullptr, which is kept. *)
PthreadCreateFails ==
  /\ pc = "create"
  /\ Starting <= threadNum_
  /\ loops_' = Append(loops_, Null)
  /\ UNCHANGED <<pc, next_, given, freeVars, tpc, startVars, loopVars,
                 socketVars, crashed>>

LatchWait_NoWait ==
  /\ pc = "latch"
  /\ loops_' = Append(loops_, ownloop_[Starting])
  /\ pc' = "create"
  /\ UNCHANGED <<next_, given, freeVars, tpc, startVars, loopVars, socketVars,
                 crashed>>

(* latch_.wait() returns, and threadStart hands on what it finds. *)
LatchWait ==
  /\ pc = "latch"
  /\ count_[Starting] = 0
  /\ loops_' = Append(loops_, ownloop_[Starting])
  /\ pc' = "create"
  /\ UNCHANGED <<next_, given, freeVars, tpc, startVars, loopVars, socketVars,
                 crashed>>

PoolInitDone ==
  /\ pc = "create"
  /\ Starting > threadNum_
  /\ pc' = "poll"
  /\ UNCHANGED <<poolVars, freeVars, tpc, startVars, loopVars, socketVars,
                 crashed>>
-----------------------------------------------------------------------------
(***************************************************************************)
(* The main thread in its loop: the listening socket, edge-triggered.      *)
(***************************************************************************)
ListenEvent ==
  /\ pc = "poll"
  /\ listening /\ edge /\ backlog > 0
  /\ edge' = FALSE
  /\ pc' = "accept"
  /\ UNCHANGED <<poolVars, freeVars, tpc, startVars, loopVars, backlog,
                 arrived, crashed>>

AdvanceNext_SkipsLast == IF next_ + 2 < threadNum_ THEN next_ + 1 ELSE 0
AdvanceNext_NoModulo == next_ + 1

AdvanceNext == (next_ + 1) % threadNum_

NextLoop == IF loops_ = <<>> THEN Own ELSE loops_[next_ + 1]

Hand_NoWake(l) ==
  /\ inbox' = [inbox EXCEPT ![l] = @ + 1]
  /\ UNCHANGED wakeReady

(* queueInLoop: the main thread has to wake any loop but its own. *)
Hand(l) ==
  /\ inbox' = [inbox EXCEPT ![l] = @ + 1]
  /\ wakeReady' = [t \in Threads |-> wakeReady[t] \/ t = l]

Accepts == pc = "accept" /\ backlog > 0 /\ backlog' = backlog - 1

(* accept, getNextPool, queueInLoop; assert(loop) ends the process. *)
AcceptConn ==
  /\ Accepts
  /\ next_' = IF loops_ = <<>> THEN next_ ELSE AdvanceNext
  /\ IF NextLoop = Null
     THEN crashed' = TRUE /\ UNCHANGED <<given, loopVars>>
     ELSE /\ Hand(NextLoop)
          /\ given' = [given EXCEPT ![NextLoop] = @ + 1]
          /\ UNCHANGED <<looping_, crashed>>
  /\ UNCHANGED <<pc, loops_, freeVars, tpc, startVars, edge, arrived>>

(* A descriptor above MAXFDS is closed; the accept loop goes on. *)
AcceptAboveMaxFds ==
  /\ Accepts
  /\ UNCHANGED <<pc, poolVars, freeVars, tpc, startVars, loopVars, edge,
                 arrived, crashed>>

(* setSocketNonBlocking fails: the descriptor is dropped, the loop ends. *)
AcceptThenFcntlFails ==
  /\ Accepts
  /\ pc' = "rearm"
  /\ UNCHANGED <<poolVars, freeVars, tpc, startVars, loopVars, edge, arrived,
                 crashed>>

(* accept() returns -1: nothing is left, or no descriptor is. *)
AcceptEnds ==
  /\ pc = "accept"
  /\ pc' = "rearm"
  /\ UNCHANGED <<poolVars, freeVars, tpc, startVars, loopVars, socketVars,
                 crashed>>

HandleThisConn_NoModify ==
  /\ pc = "rearm"
  /\ pc' = "serve"
  /\ UNCHANGED <<poolVars, freeVars, tpc, startVars, loopVars, socketVars,
                 crashed>>

(* EPOLL_CTL_MOD looks at the listening socket again. *)
HandleThisConn ==
  /\ pc = "rearm"
  /\ edge' = (edge \/ backlog > 0)
  /\ pc' = "serve"
  /\ UNCHANGED <<poolVars, freeVars, tpc, startVars, loopVars, backlog,
                 arrived, crashed>>

(* doPendingFunctors of ownLoop_. *)
MainServes ==
  /\ pc = "serve"
  /\ inbox' = [inbox EXCEPT ![Own] = 0]
  /\ pc' = "poll"
  /\ UNCHANGED <<poolVars, freeVars, tpc, startVars, looping_, wakeReady,
                 socketVars, crashed>>

(* The kernel reports it only where the listening socket is registered.    *)
ConnArrives ==
  /\ arrived < MaxArrivals
  /\ arrived' = arrived + 1
  /\ backlog' = backlog + 1
  /\ edge' = (edge \/ listening)
  /\ UNCHANGED <<pc, poolVars, freeVars, tpc, startVars, loopVars, crashed>>
-----------------------------------------------------------------------------
(***************************************************************************)
(* The pool is destroyed, and with threads_ each EventLoopThread in turn.  *)
(***************************************************************************)
DestroyPool ==
  /\ pc = "poll"
  /\ pc' = "destroy"
  /\ UNCHANGED <<poolVars, freeVars, tpc, startVars, loopVars, socketVars,
                 crashed>>

DestroyNext == freed' = freed \cup {victim} /\ victim' = victim + 1

LoopGone(t) == tpc[t] = "ended"

(* ~EventLoopThread: the test of ownloop_, and quit() up to the write. *)
DestructorQuits ==
  /\ pc = "destroy"
  /\ victim <= threadNum_
  /\ IF ownloop_[victim] = Null
     THEN DestroyNext /\ UNCHANGED <<pc, loopVars>>
     ELSE /\ looping_' = [looping_ EXCEPT ![victim] = FALSE]
          /\ pc' = "wake"
          /\ UNCHANGED <<freeVars, wakeReady, inbox>>
  /\ UNCHANGED <<poolVars, tpc, startVars, socketVars, crashed>>

DestructorWakes_NoWrite ==
  /\ pc = "wake"
  /\ Access(LoopGone(victim))
  /\ DestroyNext
  /\ pc' = "destroy"
  /\ UNCHANGED <<poolVars, tpc, startVars, loopVars, socketVars>>

(* wakeUp() of a loop that may have ended; then the object is freed. *)
DestructorWakes ==
  /\ pc = "wake"
  /\ Access(LoopGone(victim))
  /\ wakeReady' = [wakeReady EXCEPT ![victim] = @ \/ ~LoopGone(victim)]
  /\ DestroyNext
  /\ pc' = "destroy"
  /\ UNCHANGED <<poolVars, tpc, startVars, looping_, inbox, socketVars>>

PoolDestroyed ==
  /\ pc = "destroy"
  /\ victim > threadNum_
  /\ pc' = "done"
  /\ UNCHANGED <<poolVars, freeVars, tpc, startVars, loopVars, socketVars,
                 crashed>>
-----------------------------------------------------------------------------
(***************************************************************************)
(* A loop thread, threadFunc.                                              *)
(***************************************************************************)
ConstructLoop(t) ==
  /\ tpc[t] = "started"
  /\ ownloop_' = [ownloop_ EXCEPT ![t] = t]
  /\ tpc' = [tpc EXCEPT ![t] = "constructed"]
  /\ UNCHANGED <<pc, poolVars, freeVars, count_, loopVars, socketVars,
                 crashed>>

CountDown_Missing(t) ==
  /\ tpc[t] = "constructed"
  /\ tpc' = [tpc EXCEPT ![t] = "entering"]
  /\ UNCHANGED <<pc, poolVars, freeVars, startVars, loopVars, socketVars,
                 crashed>>

CountDown(t) ==
  /\ tpc[t] = "constructed"
  /\ count_' = [count_ EXCEPT ![t] = @ - 1]
  /\ tpc' = [tpc EXCEPT ![t] = "entering"]
  /\ UNCHANGED <<pc, poolVars, freeVars, ownloop_, loopVars, socketVars,
                 crashed>>

(* temp->ownloop_ is read, and loop() sets looping_ whatever it was. *)
LoopEnter(t) ==
  /\ tpc[t] = "entering"
  /\ Access(t \in freed)
  /\ looping_' = [looping_ EXCEPT ![t] = TRUE]
  /\ tpc' = [tpc EXCEPT ![t] = "check"]
  /\ UNCHANGED <<pc, poolVars, freeVars, startVars, wakeReady, inbox,
                 socketVars>>

LoopCheck(t) ==
  /\ tpc[t] = "check"
  /\ tpc' = [tpc EXCEPT ![t] = IF looping_[t] THEN "poll" ELSE "left"]
  /\ UNCHANGED <<pc, poolVars, freeVars, startVars, loopVars, socketVars,
                 crashed>>

LoopWakes(t) ==
  /\ tpc[t] = "poll"
  /\ wakeReady[t]
  /\ wakeReady' = [wakeReady EXCEPT ![t] = FALSE]
  /\ tpc' = [tpc EXCEPT ![t] = "run"]
  /\ UNCHANGED <<pc, poolVars, freeVars, startVars, looping_, inbox,
                 socketVars, crashed>>

LoopTimesOut(t) ==
  /\ tpc[t] = "poll"
  /\ ~wakeReady[t]
  /\ tpc' = [tpc EXCEPT ![t] = "run"]
  /\ UNCHANGED <<pc, poolVars, freeVars, startVars, loopVars, socketVars,
                 crashed>>

LoopServes(t) ==
  /\ tpc[t] = "run"
  /\ inbox' = [inbox EXCEPT ![t] = 0]
  /\ tpc' = [tpc EXCEPT ![t] = "check"]
  /\ UNCHANGED <<pc, poolVars, freeVars, startVars, looping_, wakeReady,
                 socketVars, crashed>>

(* temp->ownloop_ = nullptr, then the EventLoop leaves the stack. *)
LoopLeaves(t) ==
  /\ tpc[t] = "left"
  /\ Access(t \in freed)
  /\ ownloop_' = [ownloop_ EXCEPT ![t] = IF t \in freed THEN @ ELSE Null]
  /\ tpc' = [tpc EXCEPT ![t] = "ended"]
  /\ UNCHANGED <<pc, poolVars, freeVars, count_, loopVars, socketVars>>
-----------------------------------------------------------------------------
StartStep ==
  PthreadCreate \/ PthreadCreateFails \/ LatchWait \/ PoolInitDone

AcceptStep ==
  \/ ListenEvent \/ AcceptConn \/ AcceptAboveMaxFds \/ AcceptThenFcntlFails
  \/ AcceptEnds \/ HandleThisConn \/ MainServes

DestroyStep == DestructorQuits \/ DestructorWakes \/ PoolDestroyed

MainStep == StartStep \/ AcceptStep \/ DestroyStep

ThreadStep(t) ==
  \/ ConstructLoop(t) \/ CountDown(t) \/ LoopEnter(t) \/ LoopCheck(t)
  \/ LoopWakes(t) \/ LoopServes(t) \/ LoopLeaves(t)

Running == ~crashed /\ UNCHANGED fixed

Next ==
  /\ Running
  /\ \/ MainStep \/ ConnArrives \/ DestroyPool
     \/ \E t \in Threads : ThreadStep(t) \/ LoopTimesOut(t)

Spec == Init /\ [][Next]_vars

(***************************************************************************)
(* Every thread is scheduled.  The timeout of epoll_wait is not relied     *)
(* upon, and nobody has to connect or to destroy the pool.                 *)
(***************************************************************************)
FairSpec ==
  /\ Spec
  /\ WF_vars(Running /\ MainStep)
  /\ \A t \in Threads : WF_vars(Running /\ ThreadStep(t))
-----------------------------------------------------------------------------
TypeOK ==
  /\ threadNum_ \in 0 .. MaxThreads
  /\ listening \in BOOLEAN
  /\ pc \in {"create", "latch", "poll", "accept", "rearm", "serve", "destroy",
             "wake", "done"}
  /\ loops_ \in Seq(Threads \cup {Null}) /\ Len(loops_) <= threadNum_
  /\ next_ \in 0 .. MaxThreads /\ (loops_ # <<>> => next_ < threadNum_)
  /\ victim \in 1 .. threadNum_ + 1
  /\ tpc \in [Threads -> {"none", "started", "constructed", "entering",
                          "check", "poll", "run", "left", "ended"}]
  /\ count_ \in [Threads -> 0 .. 1]
  /\ ownloop_ \in [Threads -> Threads \cup {Null}]
  /\ freed \in SUBSET Threads
  /\ looping_ \in [Threads -> BOOLEAN]
  /\ wakeReady \in [Threads -> BOOLEAN]
  /\ inbox \in [Threads \cup {Own} -> 0 .. MaxArrivals]
  /\ backlog \in 0 .. MaxArrivals /\ edge \in BOOLEAN
  /\ arrived \in 0 .. MaxArrivals
  /\ given \in [Threads \cup {Own} -> 0 .. MaxArrivals]
  /\ crashed \in BOOLEAN

Destroying == pc \in {"destroy", "wake", "done"}

(***************************************************************************)
(* Until the pool is destroyed, every loop getNextPool can hand out is a   *)
(* loop that exists, of a thread that has not left it, or the null of a    *)
(* thread that was never created; so nothing queued into it can be lost    *)
(* (threadStart, threadFunc, the latch, getNextPool).                      *)
(***************************************************************************)
HandedLive ==
  ~Destroying =>
    \A i \in DOMAIN loops_ :
      IF loops_[i] = Null
      THEN tpc[i] = "none"
      ELSE loops_[i] = i /\ tpc[i] \in {"entering", "check", "poll", "run"}

(***************************************************************************)
(* Connections are dealt out in turn: no loop is ever more than one ahead  *)
(* of another (getNextPool; "轮询" in readme.md:19).                       *)
(***************************************************************************)
Balanced ==
  \A t, u \in 1 .. threadNum_ : given[t] <= given[u] + 1

(***************************************************************************)
(* Once acceptChannel_ is registered (in the committed build it never is,  *)
(* and there is no edge), the main thread does not block over a connection *)
(* that has arrived: if accepting stopped early, for a failed fcntl or for *)
(* want of descriptors, the edge is there again before the next epoll_wait *)
(* (handleNewConn, handleThisConn).                                        *)
(***************************************************************************)
EdgeKept == listening /\ pc = "poll" /\ backlog > 0 => edge

(***************************************************************************)
(* A connection given to a loop is taken by it, although its epoll_wait    *)
(* may never time out, unless the pool goes first (queueInLoop, loop).     *)
(***************************************************************************)
GivenIsTaken ==
  \A l \in Threads \cup {Own} :
    (inbox[l] > 0) ~> (inbox[l] = 0 \/ Destroying \/ crashed)

(***************************************************************************)
(* start() returns, whichever threads could not be created: the latch of   *)
(* each thread that was is released (threadPoolInit, CountDownLatch).      *)
(***************************************************************************)
PoolStarts == (pc = "create") ~> (pc = "poll" \/ crashed)

(***************************************************************************)
(* A thread whose loop the destructor's quit() has reached ends, blocked   *)
(* or not, although nobody waits for it.  A quit() that comes before       *)
(* loop() sets looping_ has not reached it (~EventLoopThread, loop).       *)
(***************************************************************************)
QuitEnds ==
  \A t \in Threads :
    (tpc[t] \in {"check", "poll", "run"} /\ ~looping_[t])
      ~> (tpc[t] = "ended" \/ crashed)
(***************************************************************************)
(* What ties the variables together at every step; with it the properties  *)
(* above are inductive.                                                    *)
(***************************************************************************)
(* Where the main thread is says how far the pool has come. *)
MainAgrees ==
  /\ pc \notin {"create", "latch"} => Len(loops_) = threadNum_
  /\ pc = "latch" => Starting <= threadNum_
  /\ pc \in {"create", "latch"} =>
       next_ = 0 /\ \A l \in Threads : given[l] = 0
  /\ pc = "wake" => victim <= threadNum_
  /\ ~Destroying => freed = {} /\ victim = 1

(* How far a thread has come shows in its latch, its loop and its pool. *)
ThreadsAgree ==
  \A t \in Threads :
    /\ tpc[t] = "none" <=> \/ t > Len(loops_) /\ (pc = "latch" => t # Starting)
                           \/ t <= Len(loops_) /\ loops_[t] = Null
    /\ count_[t] =
         IF tpc[t] \in {"none", "started", "constructed"} THEN 1 ELSE 0
    /\ tpc[t] \in {"none", "started"} => ownloop_[t] = Null
    /\ tpc[t] \in {"constructed", "entering", "check", "poll", "run", "left"}
         => ownloop_[t] = t
    /\ ~Destroying =>
         /\ tpc[t] \notin {"left", "ended"}
         /\ tpc[t] \in {"check", "poll", "run"} => looping_[t]

(* Who has had one connection more is who comes before next_. *)
TurnKept ==
  ~crashed =>
    \A t, u \in 1 .. threadNum_ :
      /\ t <= next_ /\ u > next_ => given[t] = given[u] + 1
      /\ (t <= next_ <=> u <= next_) => given[t] = given[u]

(* Nobody is given what has not arrived, or takes what it was not given. *)
CountsAgree ==
  /\ backlog <= arrived
  /\ \A l \in Threads \cup {Own} :
       inbox[l] <= given[l] /\ given[l] + backlog <= arrived

(* Outside accept() and its epilogue, what waits has raised the edge, if   *)
(* the listening socket is registered; else there is none, and no event.   *)
EdgeRaised ==
  IF listening
  THEN pc \in {"create", "latch", "poll", "serve"} /\ backlog > 0 => edge
  ELSE ~edge /\ pc \notin {"accept", "rearm"}

IInv ==
  /\ TypeOK /\ HandedLive /\ Balanced /\ EdgeKept
  /\ MainAgrees /\ ThreadsAgree /\ TurnKept /\ CountsAgree /\ EdgeRaised
=============================================================================

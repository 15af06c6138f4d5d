--------------------------- MODULE LoopPoolProofs ---------------------------
(***************************************************************************)
(* Proofs about LoopPool, for any number of threads, any of which may fail *)
(* to be created, and any number of connections.                           *)
(*                                                                         *)
(* IInv is inductive: a latch is open only when its thread's loop is known *)
(* to the pool's object, so what threadPoolInit keeps runs; only the       *)
(* destructor ends it; next_ divides the loops into those that have had    *)
(* their turn and those that have not; and whoever leaves the accept loop  *)
(* has the edge raised again before the next epoll_wait, if the listening  *)
(* socket is registered.                                                   *)
(***************************************************************************)
EXTENDS LoopPool, TLAPS

(* The invariant in four parts, each about variables of its own.           *)
Loops == HandedLive /\ MainAgrees /\ ThreadsAgree
Turns == Balanced /\ TurnKept
Queues == CountsAgree /\ EdgeKept /\ EdgeRaised

LEMMA IInvParts == IInv <=> TypeOK /\ Loops /\ Turns /\ Queues
BY DEF IInv, Loops, Turns, Queues

LEMMA InitIInv == Init => IInv
<1> SUFFICES ASSUME Init PROVE IInv
  OBVIOUS
<1> USE PoolAssumption DEF Init
<1>1. TypeOK
  <2>1. /\ looping_ \in [Threads -> BOOLEAN]
        /\ wakeReady \in [Threads -> BOOLEAN]
    BY Zenon
  <2>2. loops_ \in Seq(Threads \cup {Null}) /\ Len(loops_) = 0
    OBVIOUS
  <2>3. /\ inbox \in [Threads \cup {Own} -> 0 .. MaxArrivals]
        /\ given \in [Threads \cup {Own} -> 0 .. MaxArrivals]
    OBVIOUS
  <2>4. ownloop_ \in [Threads -> Threads \cup {Null}]
    OBVIOUS
  <2>5. tpc = [t \in Threads |-> "none"] /\ count_ = [t \in Threads |-> 1]
    OBVIOUS
  <2>6. /\ threadNum_ \in 0 .. MaxThreads /\ listening \in BOOLEAN
        /\ victim \in 1 .. threadNum_ + 1 /\ next_ \in 0 .. MaxThreads
    OBVIOUS
  <2>7. /\ backlog \in 0 .. MaxArrivals /\ arrived \in 0 .. MaxArrivals
        /\ pc = "create" /\ loops_ = <<>> /\ freed = {}
        /\ edge = FALSE /\ crashed = FALSE
    OBVIOUS
  <2> HIDE DEF Init
  <2>8. /\ tpc \in [Threads -> {"none", "started", "constructed", "entering",
                                "check", "poll", "run", "left", "ended"}]
        /\ count_ \in [Threads -> 0 .. 1]
    BY <2>5
  <2>9. Len(loops_) <= threadNum_
    BY <2>2, <2>6
  <2> QED
    BY <2>1, <2>2, <2>3, <2>4, <2>6, <2>7, <2>8, <2>9 DEF TypeOK
<1>2. Loops
  BY DEF Loops, HandedLive, MainAgrees, ThreadsAgree, Starting, Destroying,
         Threads
<1>3. Turns
  BY DEF Turns, Balanced, TurnKept, Threads
<1>4. Queues
  BY DEF Queues, CountsAgree, EdgeKept, EdgeRaised
<1> QED
  BY <1>1, <1>2, <1>3, <1>4, IInvParts

LEMMA PthreadCreateIInv ==
  ASSUME IInv, Running, PthreadCreate
  PROVE  IInv'
<1> USE PoolAssumption DEF IInv, Running, fixed, PthreadCreate, poolVars,
         freeVars, startVars, loopVars, socketVars
<1>1. TypeOK'
  BY DEF TypeOK
<1>2. Loops'
  BY DEF TypeOK, Loops, HandedLive, MainAgrees, ThreadsAgree, Destroying,
     Starting, Threads
<1>3. Turns'
  BY DEF TypeOK, Turns, Balanced, TurnKept
<1>4. Queues'
  BY DEF TypeOK, Queues, CountsAgree, EdgeKept, EdgeRaised
<1> QED
  BY <1>1, <1>2, <1>3, <1>4 DEF Loops, Turns, Queues

LEMMA PthreadCreateFailsIInv ==
  ASSUME IInv, Running, PthreadCreateFails
  PROVE  IInv'
<1> USE PoolAssumption DEF IInv, Running, fixed, PthreadCreateFails, poolVars,
         freeVars, startVars, loopVars, socketVars
<1>1. TypeOK'
  <2>1. loops_' \in Seq(Threads \cup {Null}) /\ Len(loops_') = Starting
    BY DEF TypeOK, Starting
  <2> QED
    BY <2>1 DEF TypeOK, MainAgrees, Starting
<1>2. Loops'
  BY DEF TypeOK, Loops, HandedLive, MainAgrees, ThreadsAgree, Destroying,
     Starting, Threads
<1>3. Turns'
  BY DEF TypeOK, Turns, Balanced, TurnKept
<1>4. Queues'
  BY DEF TypeOK, Queues, CountsAgree, EdgeKept, EdgeRaised
<1> QED
  BY <1>1, <1>2, <1>3, <1>4 DEF Loops, Turns, Queues

LEMMA LatchWaitIInv ==
  ASSUME IInv, Running, LatchWait
  PROVE  IInv'
<1> USE PoolAssumption DEF IInv, Running, fixed, LatchWait, poolVars, freeVars,
         startVars, loopVars, socketVars
<1>1. TypeOK'
  <2>1. Starting \in Threads /\ Starting <= threadNum_
    BY DEF TypeOK, MainAgrees, Starting, Threads
  <2>2. loops_' \in Seq(Threads \cup {Null}) /\ Len(loops_') = Starting
    BY <2>1 DEF TypeOK, Starting
  <2> QED
    BY <2>1, <2>2 DEF TypeOK, MainAgrees
<1>2. Loops'
  BY SMTT(30) DEF TypeOK, Loops, HandedLive, MainAgrees, ThreadsAgree,
     Destroying, Starting, Threads
<1>3. Turns'
  BY DEF TypeOK, Turns, Balanced, TurnKept
<1>4. Queues'
  BY DEF TypeOK, Queues, CountsAgree, EdgeKept, EdgeRaised
<1> QED
  BY <1>1, <1>2, <1>3, <1>4 DEF Loops, Turns, Queues

LEMMA PoolInitDoneIInv ==
  ASSUME IInv, Running, PoolInitDone
  PROVE  IInv'
<1> USE PoolAssumption DEF IInv, Running, fixed, PoolInitDone, poolVars,
         freeVars, startVars, loopVars, socketVars
<1>1. TypeOK'
  BY DEF TypeOK
<1>2. Loops'
  BY DEF TypeOK, Loops, HandedLive, MainAgrees, ThreadsAgree, Destroying,
     Starting, Threads
<1>3. Turns'
  BY DEF TypeOK, Turns, Balanced, TurnKept
<1>4. Queues'
  BY DEF TypeOK, Queues, CountsAgree, EdgeKept, EdgeRaised
<1> QED
  BY <1>1, <1>2, <1>3, <1>4 DEF Loops, Turns, Queues

LEMMA ListenEventIInv ==
  ASSUME IInv, Running, ListenEvent
  PROVE  IInv'
<1> USE PoolAssumption DEF IInv, Running, fixed, ListenEvent, poolVars,
         freeVars, startVars, loopVars, socketVars
<1>1. TypeOK'
  BY DEF TypeOK
<1>2. Loops'
  BY DEF TypeOK, Loops, HandedLive, MainAgrees, ThreadsAgree, Destroying,
     Starting, Threads
<1>3. Turns'
  BY DEF TypeOK, Turns, Balanced, TurnKept
<1>4. Queues'
  BY DEF TypeOK, Queues, CountsAgree, EdgeKept, EdgeRaised
<1> QED
  BY <1>1, <1>2, <1>3, <1>4 DEF Loops, Turns, Queues

(* next_ goes to the next loop, or after the last one to the first.        *)
LEMMA NextIsNext ==
  ASSUME TypeOK, loops_ # <<>>
  PROVE  AdvanceNext = IF next_ + 1 < threadNum_ THEN next_ + 1 ELSE 0
<1>1. next_ \in Nat /\ threadNum_ \in Nat /\ next_ < threadNum_
  BY DEF TypeOK
<1>2. CASE next_ + 1 < threadNum_
  BY <1>1, <1>2 DEF AdvanceNext
<1>3. CASE next_ + 1 = threadNum_
  <2>1. threadNum_ % threadNum_ = 0
    BY <1>1
  <2> QED
    BY <1>1, <1>3, <2>1 DEF AdvanceNext
<1> QED
  BY <1>1, <1>2, <1>3

(* What getNextPool hands out while the pool lives.                        *)
LEMMA NextLoopLive ==
  ASSUME IInv, pc = "accept", NextLoop # Null
  PROVE  /\ NextLoop \in Threads \cup {Own}
         /\ loops_ # <<>> => NextLoop = next_ + 1
         /\ loops_ = <<>> => NextLoop = Own /\ threadNum_ = 0
<1> USE PoolAssumption DEF IInv, TypeOK, NextLoop
<1>1. CASE loops_ = <<>>
  BY <1>1 DEF MainAgrees
<1>2. CASE loops_ # <<>>
  <2>1. next_ + 1 \in DOMAIN loops_ /\ Len(loops_) = threadNum_
    BY <1>2 DEF MainAgrees
  <2>2. loops_[next_ + 1] = next_ + 1
    BY <1>2, <2>1 DEF HandedLive, Destroying
  <2> QED
    BY <1>2, <2>1, <2>2 DEF Threads
<1> QED
  BY <1>1, <1>2

LEMMA AcceptConnIInv ==
  ASSUME IInv, Running, AcceptConn
  PROVE  IInv'
<1> USE PoolAssumption DEF IInv, Running, fixed, AcceptConn, Accepts, Hand
<1>1. next_' \in 0 .. MaxThreads /\ (loops_ # <<>> => next_' < threadNum_)
  BY NextIsNext DEF TypeOK
<1>2. CASE NextLoop = Null
  <2>1. TypeOK'
    BY <1>1, <1>2 DEF TypeOK, loopVars, freeVars, startVars
  <2>2. Loops'
    BY <1>2 DEF TypeOK, Loops, HandedLive, MainAgrees, ThreadsAgree,
                Destroying, Starting, loopVars, freeVars, startVars
  <2>3. Turns' /\ Queues'
    BY <1>2 DEF TypeOK, Turns, Balanced, TurnKept, Queues, CountsAgree,
                EdgeKept, EdgeRaised, loopVars
  <2> QED
    BY <2>1, <2>2, <2>3 DEF Loops, Turns, Queues
<1>3. CASE NextLoop # Null
  <2> DEFINE l == NextLoop
  <2>1. /\ l \in Threads \cup {Own}
        /\ loops_ # <<>> => l = next_ + 1
        /\ loops_ = <<>> => l = Own /\ threadNum_ = 0
    BY <1>3, NextLoopLive
  <2>2. /\ given' = [given EXCEPT ![l] = @ + 1]
        /\ inbox' = [inbox EXCEPT ![l] = @ + 1]
        /\ wakeReady' = [t \in Threads |-> wakeReady[t] \/ t = l]
        /\ UNCHANGED <<looping_, crashed>>
    BY <1>3
  <2> HIDE DEF l
  <2>3. CountsAgree'
    BY <2>1, <2>2, SMTT(30) DEF TypeOK, CountsAgree
  <2>4. /\ inbox' \in [Threads \cup {Own} -> 0 .. MaxArrivals]
        /\ given' \in [Threads \cup {Own} -> 0 .. MaxArrivals]
    BY <2>1, <2>2, SMTT(30) DEF TypeOK, CountsAgree
  <2>5. wakeReady' \in [Threads -> BOOLEAN]
    <3>1. wakeReady \in [Threads -> BOOLEAN]
      BY DEF TypeOK
    <3> QED
      BY <2>2, <3>1, Zenon
  <2>6. TypeOK'
    BY <1>1, <2>2, <2>4, <2>5 DEF TypeOK, freeVars, startVars
  <2>7. Loops'
    BY <2>2 DEF TypeOK, Loops, HandedLive, MainAgrees, ThreadsAgree,
                Destroying, Starting, freeVars, startVars
  <2>8. Turns'
    <3>1. CASE loops_ = <<>>
      BY <2>1, <3>1 DEF TypeOK, Turns, Balanced, TurnKept
    <3>2. CASE loops_ # <<>>
      <4>1. next_' = IF next_ + 1 < threadNum_ THEN next_ + 1 ELSE 0
        BY <3>2, NextIsNext
      <4>2. \A t \in 1 .. threadNum_ :
              /\ t \in Threads /\ given[t] \in Nat
              /\ given'[t] = given[t] + IF t = next_ + 1 THEN 1 ELSE 0
        <5>1. \A t \in 1 .. threadNum_ : t \in Threads
          BY DEF TypeOK, Threads
        <5>2. given \in [Threads \cup {Own} -> Nat]
          BY DEF TypeOK
        <5> QED
          BY <2>1, <2>2, <3>2, <5>1, <5>2
      <4>3. TurnKept'
        <5> SUFFICES ASSUME NEW t \in 1 .. threadNum_,
                            NEW u \in 1 .. threadNum_
                     PROVE  /\ t <= next_' /\ u > next_' =>
                                 given'[t] = given'[u] + 1
                            /\ (t <= next_' <=> u <= next_') =>
                                 given'[t] = given'[u]
          BY DEF TurnKept
        <5>1. next_ \in Nat /\ threadNum_ \in Nat /\ next_ < threadNum_
          BY <3>2 DEF TypeOK
        <5>2. /\ t <= next_ /\ u > next_ => given[t] = given[u] + 1
              /\ u <= next_ /\ t > next_ => given[u] = given[t] + 1
              /\ (t <= next_ <=> u <= next_) => given[t] = given[u]
          BY DEF TurnKept
        <5> QED
          BY <4>1, <4>2, <5>1, <5>2, SMTT(30)
      <4>4. Balanced'
        <5> SUFFICES ASSUME NEW t \in 1 .. threadNum_,
                            NEW u \in 1 .. threadNum_
                     PROVE  given'[t] <= given'[u] + 1
          BY DEF Balanced
        <5>1. given'[t] \in Nat /\ given'[u] \in Nat /\ next_' \in Nat
          BY <1>1, <4>2
        <5> QED
          BY <2>2, <4>3, <5>1, SMTT(30) DEF TurnKept
      <4> QED
        BY <4>3, <4>4 DEF Turns
    <3> QED
      BY <3>1, <3>2
  <2>9. Queues'
    BY <2>3 DEF Queues, EdgeKept, EdgeRaised
  <2> QED
    BY <2>6, <2>7, <2>8, <2>9 DEF Loops, Turns, Queues
<1> QED
  BY <1>2, <1>3

LEMMA AcceptAboveMaxFdsIInv ==
  ASSUME IInv, Running, AcceptAboveMaxFds
  PROVE  IInv'
<1> USE PoolAssumption DEF IInv, Running, fixed, AcceptAboveMaxFds, poolVars,
         freeVars, startVars, loopVars, socketVars, Accepts
<1>1. TypeOK'
  BY DEF TypeOK
<1>2. Loops'
  BY DEF TypeOK, Loops, HandedLive, MainAgrees, ThreadsAgree, Destroying,
     Starting, Threads
<1>3. Turns'
  BY DEF TypeOK, Turns, Balanced, TurnKept
<1>4. Queues'
  BY DEF TypeOK, Queues, CountsAgree, EdgeKept, EdgeRaised
<1> QED
  BY <1>1, <1>2, <1>3, <1>4 DEF Loops, Turns, Queues

LEMMA AcceptThenFcntlFailsIInv ==
  ASSUME IInv, Running, AcceptThenFcntlFails
  PROVE  IInv'
<1> USE PoolAssumption DEF IInv, Running, fixed, AcceptThenFcntlFails,
         poolVars, freeVars, startVars, loopVars, socketVars, Accepts
<1>1. TypeOK'
  BY DEF TypeOK
<1>2. Loops'
  BY DEF TypeOK, Loops, HandedLive, MainAgrees, ThreadsAgree, Destroying,
     Starting, Threads
<1>3. Turns'
  BY DEF TypeOK, Turns, Balanced, TurnKept
<1>4. Queues'
  BY DEF TypeOK, Queues, CountsAgree, EdgeKept, EdgeRaised
<1> QED
  BY <1>1, <1>2, <1>3, <1>4 DEF Loops, Turns, Queues

LEMMA AcceptEndsIInv ==
  ASSUME IInv, Running, AcceptEnds
  PROVE  IInv'
<1> USE PoolAssumption DEF IInv, Running, fixed, AcceptEnds, poolVars,
         freeVars, startVars, loopVars, socketVars
<1>1. TypeOK'
  BY DEF TypeOK
<1>2. Loops'
  BY DEF TypeOK, Loops, HandedLive, MainAgrees, ThreadsAgree, Destroying,
     Starting, Threads
<1>3. Turns'
  BY DEF TypeOK, Turns, Balanced, TurnKept
<1>4. Queues'
  BY DEF TypeOK, Queues, CountsAgree, EdgeKept, EdgeRaised
<1> QED
  BY <1>1, <1>2, <1>3, <1>4 DEF Loops, Turns, Queues

LEMMA HandleThisConnIInv ==
  ASSUME IInv, Running, HandleThisConn
  PROVE  IInv'
<1> USE PoolAssumption DEF IInv, Running, fixed, HandleThisConn, poolVars,
         freeVars, startVars, loopVars, socketVars
<1>1. TypeOK'
  BY DEF TypeOK
<1>2. Loops'
  BY DEF TypeOK, Loops, HandedLive, MainAgrees, ThreadsAgree, Destroying,
     Starting, Threads
<1>3. Turns'
  BY DEF TypeOK, Turns, Balanced, TurnKept
<1>4. Queues'
  BY DEF TypeOK, Queues, CountsAgree, EdgeKept, EdgeRaised
<1> QED
  BY <1>1, <1>2, <1>3, <1>4 DEF Loops, Turns, Queues

LEMMA MainServesIInv ==
  ASSUME IInv, Running, MainServes
  PROVE  IInv'
<1> USE PoolAssumption DEF IInv, Running, fixed, MainServes, poolVars,
         freeVars, startVars, loopVars, socketVars
<1>1. TypeOK'
  BY DEF TypeOK
<1>2. Loops'
  BY DEF TypeOK, Loops, HandedLive, MainAgrees, ThreadsAgree, Destroying,
     Starting, Threads
<1>3. Turns'
  BY DEF TypeOK, Turns, Balanced, TurnKept
<1>4. Queues'
  BY DEF TypeOK, Queues, CountsAgree, EdgeKept, EdgeRaised
<1> QED
  BY <1>1, <1>2, <1>3, <1>4 DEF Loops, Turns, Queues

LEMMA ConnArrivesIInv ==
  ASSUME IInv, Running, ConnArrives
  PROVE  IInv'
<1> USE PoolAssumption DEF IInv, Running, fixed, ConnArrives, poolVars,
         freeVars, startVars, loopVars, socketVars
<1>1. TypeOK'
  BY SMTT(30) DEF TypeOK, CountsAgree
<1>2. Loops'
  BY DEF TypeOK, Loops, HandedLive, MainAgrees, ThreadsAgree, Destroying,
     Starting, Threads
<1>3. Turns'
  BY DEF TypeOK, Turns, Balanced, TurnKept
<1>4. Queues'
  BY DEF TypeOK, Queues, CountsAgree, EdgeKept, EdgeRaised
<1> QED
  BY <1>1, <1>2, <1>3, <1>4 DEF Loops, Turns, Queues

LEMMA DestroyPoolIInv ==
  ASSUME IInv, Running, DestroyPool
  PROVE  IInv'
<1> USE PoolAssumption DEF IInv, Running, fixed, DestroyPool, poolVars,
         freeVars, startVars, loopVars, socketVars
<1>1. TypeOK'
  BY DEF TypeOK
<1>2. Loops'
  BY DEF TypeOK, Loops, HandedLive, MainAgrees, ThreadsAgree, Destroying,
     Starting, Threads
<1>3. Turns'
  BY DEF TypeOK, Turns, Balanced, TurnKept
<1>4. Queues'
  BY DEF TypeOK, Queues, CountsAgree, EdgeKept, EdgeRaised
<1> QED
  BY <1>1, <1>2, <1>3, <1>4 DEF Loops, Turns, Queues

LEMMA DestructorQuitsIInv ==
  ASSUME IInv, Running, DestructorQuits
  PROVE  IInv'
<1> USE PoolAssumption DEF IInv, Running, fixed, DestructorQuits, poolVars,
         freeVars, startVars, loopVars, socketVars, DestroyNext
<1>1. TypeOK'
  <2>1. CASE ownloop_[victim] = Null
    <3>1. victim \in Threads /\ victim + 1 \in 1 .. threadNum_ + 1
      BY DEF TypeOK, Threads
    <3> QED
      BY <2>1, <3>1 DEF TypeOK
  <2>2. CASE ownloop_[victim] # Null
    BY <2>2 DEF TypeOK
  <2> QED
    BY <2>1, <2>2
<1>2. Loops'
  BY DEF TypeOK, Loops, HandedLive, MainAgrees, ThreadsAgree, Destroying,
     Starting, Threads
<1>3. Turns'
  BY DEF TypeOK, Turns, Balanced, TurnKept
<1>4. Queues'
  BY DEF TypeOK, Queues, CountsAgree, EdgeKept, EdgeRaised
<1> QED
  BY <1>1, <1>2, <1>3, <1>4 DEF Loops, Turns, Queues

LEMMA DestructorWakesIInv ==
  ASSUME IInv, Running, DestructorWakes
  PROVE  IInv'
<1> USE PoolAssumption DEF IInv, Running, fixed, DestructorWakes, poolVars,
         freeVars, startVars, loopVars, socketVars, DestroyNext, Access,
         LoopGone
<1>1. TypeOK'
  <2>1. victim \in Threads /\ victim <= threadNum_
    BY DEF TypeOK, Threads, MainAgrees
  <2>2. wakeReady' \in [Threads -> BOOLEAN]
    <3>1. wakeReady \in [Threads -> BOOLEAN]
      BY DEF TypeOK
    <3> QED
      BY <3>1, Zenon
  <2> QED
    BY <2>1, <2>2 DEF TypeOK
<1>2. Loops'
  BY DEF TypeOK, Loops, HandedLive, MainAgrees, ThreadsAgree, Destroying,
     Starting, Threads
<1>3. Turns'
  BY DEF TypeOK, Turns, Balanced, TurnKept
<1>4. Queues'
  BY DEF TypeOK, Queues, CountsAgree, EdgeKept, EdgeRaised
<1> QED
  BY <1>1, <1>2, <1>3, <1>4 DEF Loops, Turns, Queues

LEMMA PoolDestroyedIInv ==
  ASSUME IInv, Running, PoolDestroyed
  PROVE  IInv'
<1> USE PoolAssumption DEF IInv, Running, fixed, PoolDestroyed, poolVars,
         freeVars, startVars, loopVars, socketVars
<1>1. TypeOK'
  BY DEF TypeOK
<1>2. Loops'
  BY DEF TypeOK, Loops, HandedLive, MainAgrees, ThreadsAgree, Destroying,
     Starting, Threads
<1>3. Turns'
  BY DEF TypeOK, Turns, Balanced, TurnKept
<1>4. Queues'
  BY DEF TypeOK, Queues, CountsAgree, EdgeKept, EdgeRaised
<1> QED
  BY <1>1, <1>2, <1>3, <1>4 DEF Loops, Turns, Queues

LEMMA ConstructLoopIInv ==
  ASSUME NEW t \in Threads, IInv, Running, ConstructLoop(t)
  PROVE  IInv'
<1> USE PoolAssumption DEF IInv, Running, fixed, ConstructLoop, poolVars,
         freeVars, startVars, loopVars, socketVars
<1>1. TypeOK'
  BY DEF TypeOK
<1>2. Loops'
  BY DEF TypeOK, Loops, HandedLive, MainAgrees, ThreadsAgree, Destroying,
     Starting, Threads
<1>3. Turns'
  BY DEF TypeOK, Turns, Balanced, TurnKept
<1>4. Queues'
  BY DEF TypeOK, Queues, CountsAgree, EdgeKept, EdgeRaised
<1> QED
  BY <1>1, <1>2, <1>3, <1>4 DEF Loops, Turns, Queues

LEMMA CountDownIInv ==
  ASSUME NEW t \in Threads, IInv, Running, CountDown(t)
  PROVE  IInv'
<1> USE PoolAssumption DEF IInv, Running, fixed, CountDown, poolVars, freeVars,
         startVars, loopVars, socketVars
<1>1. TypeOK'
  BY DEF TypeOK, ThreadsAgree
<1>2. Loops'
  BY DEF TypeOK, Loops, HandedLive, MainAgrees, ThreadsAgree, Destroying,
     Starting, Threads
<1>3. Turns'
  BY DEF TypeOK, Turns, Balanced, TurnKept
<1>4. Queues'
  BY DEF TypeOK, Queues, CountsAgree, EdgeKept, EdgeRaised
<1> QED
  BY <1>1, <1>2, <1>3, <1>4 DEF Loops, Turns, Queues

LEMMA LoopEnterIInv ==
  ASSUME NEW t \in Threads, IInv, Running, LoopEnter(t)
  PROVE  IInv'
<1> USE PoolAssumption DEF IInv, Running, fixed, LoopEnter, poolVars, freeVars,
         startVars, loopVars, socketVars, Access
<1>1. TypeOK'
  BY DEF TypeOK
<1>2. Loops'
  BY DEF TypeOK, Loops, HandedLive, MainAgrees, ThreadsAgree, Destroying,
     Starting, Threads
<1>3. Turns'
  BY DEF TypeOK, Turns, Balanced, TurnKept
<1>4. Queues'
  BY DEF TypeOK, Queues, CountsAgree, EdgeKept, EdgeRaised
<1> QED
  BY <1>1, <1>2, <1>3, <1>4 DEF Loops, Turns, Queues

LEMMA LoopCheckIInv ==
  ASSUME NEW t \in Threads, IInv, Running, LoopCheck(t)
  PROVE  IInv'
<1> USE PoolAssumption DEF IInv, Running, fixed, LoopCheck, poolVars, freeVars,
         startVars, loopVars, socketVars
<1>1. TypeOK'
  BY DEF TypeOK
<1>2. Loops'
  BY DEF TypeOK, Loops, HandedLive, MainAgrees, ThreadsAgree, Destroying,
     Starting, Threads
<1>3. Turns'
  BY DEF TypeOK, Turns, Balanced, TurnKept
<1>4. Queues'
  BY DEF TypeOK, Queues, CountsAgree, EdgeKept, EdgeRaised
<1> QED
  BY <1>1, <1>2, <1>3, <1>4 DEF Loops, Turns, Queues

LEMMA LoopWakesIInv ==
  ASSUME NEW t \in Threads, IInv, Running, LoopWakes(t)
  PROVE  IInv'
<1> USE PoolAssumption DEF IInv, Running, fixed, LoopWakes, poolVars, freeVars,
         startVars, loopVars, socketVars
<1>1. TypeOK'
  BY DEF TypeOK
<1>2. Loops'
  BY DEF TypeOK, Loops, HandedLive, MainAgrees, ThreadsAgree, Destroying,
     Starting, Threads
<1>3. Turns'
  BY DEF TypeOK, Turns, Balanced, TurnKept
<1>4. Queues'
  BY DEF TypeOK, Queues, CountsAgree, EdgeKept, EdgeRaised
<1> QED
  BY <1>1, <1>2, <1>3, <1>4 DEF Loops, Turns, Queues

LEMMA LoopTimesOutIInv ==
  ASSUME NEW t \in Threads, IInv, Running, LoopTimesOut(t)
  PROVE  IInv'
<1> USE PoolAssumption DEF IInv, Running, fixed, LoopTimesOut, poolVars,
         freeVars, startVars, loopVars, socketVars
<1>1. TypeOK'
  BY DEF TypeOK
<1>2. Loops'
  BY DEF TypeOK, Loops, HandedLive, MainAgrees, ThreadsAgree, Destroying,
     Starting, Threads
<1>3. Turns'
  BY DEF TypeOK, Turns, Balanced, TurnKept
<1>4. Queues'
  BY DEF TypeOK, Queues, CountsAgree, EdgeKept, EdgeRaised
<1> QED
  BY <1>1, <1>2, <1>3, <1>4 DEF Loops, Turns, Queues

LEMMA LoopServesIInv ==
  ASSUME NEW t \in Threads, IInv, Running, LoopServes(t)
  PROVE  IInv'
<1> USE PoolAssumption DEF IInv, Running, fixed, LoopServes, poolVars,
         freeVars, startVars, loopVars, socketVars
<1>1. TypeOK'
  BY SMTT(30) DEF TypeOK
<1>2. Loops'
  BY DEF TypeOK, Loops, HandedLive, MainAgrees, ThreadsAgree, Destroying,
     Starting, Threads
<1>3. Turns'
  BY DEF TypeOK, Turns, Balanced, TurnKept
<1>4. Queues'
  BY DEF TypeOK, Queues, CountsAgree, EdgeKept, EdgeRaised
<1> QED
  BY <1>1, <1>2, <1>3, <1>4 DEF Loops, Turns, Queues

LEMMA LoopLeavesIInv ==
  ASSUME NEW t \in Threads, IInv, Running, LoopLeaves(t)
  PROVE  IInv'
<1> USE PoolAssumption DEF IInv, Running, fixed, LoopLeaves, poolVars,
         freeVars, startVars, loopVars, socketVars, Access
<1>1. TypeOK'
  BY DEF TypeOK
<1>2. Loops'
  BY DEF TypeOK, Loops, HandedLive, MainAgrees, ThreadsAgree, Destroying,
     Starting, Threads
<1>3. Turns'
  BY DEF TypeOK, Turns, Balanced, TurnKept
<1>4. Queues'
  BY DEF TypeOK, Queues, CountsAgree, EdgeKept, EdgeRaised
<1> QED
  BY <1>1, <1>2, <1>3, <1>4 DEF Loops, Turns, Queues

LEMMA NextIInv == IInv /\ [Next]_vars => IInv'
<1> SUFFICES ASSUME IInv, [Next]_vars PROVE IInv'
  OBVIOUS
<1>1. CASE UNCHANGED vars
  BY <1>1 DEF IInv, TypeOK, HandedLive, Balanced, EdgeKept,
              MainAgrees, ThreadsAgree, TurnKept, CountsAgree, EdgeRaised,
              Destroying, Starting, vars, fixed, poolVars, freeVars,
              startVars, loopVars, socketVars
<1>2. CASE Running /\ StartStep
  BY <1>2, PthreadCreateIInv, PthreadCreateFailsIInv, LatchWaitIInv,
     PoolInitDoneIInv DEF StartStep
<1>3. CASE Running /\ AcceptStep
  BY <1>3, ListenEventIInv, AcceptConnIInv, AcceptAboveMaxFdsIInv,
     AcceptThenFcntlFailsIInv, AcceptEndsIInv, HandleThisConnIInv,
     MainServesIInv DEF AcceptStep
<1>4. CASE Running /\ DestroyStep
  BY <1>4, DestructorQuitsIInv, DestructorWakesIInv, PoolDestroyedIInv
     DEF DestroyStep
<1>5. CASE Running /\ (ConnArrives \/ DestroyPool)
  BY <1>5, ConnArrivesIInv, DestroyPoolIInv
<1>6. ASSUME NEW t \in Threads, Running, ThreadStep(t) \/ LoopTimesOut(t)
      PROVE  IInv'
  BY <1>6, ConstructLoopIInv, CountDownIInv, LoopEnterIInv, LoopCheckIInv,
     LoopWakesIInv, LoopServesIInv, LoopLeavesIInv, LoopTimesOutIInv
     DEF ThreadStep
<1> QED
  BY <1>1, <1>2, <1>3, <1>4, <1>5, <1>6 DEF Next, MainStep

(* The strengthening is invariant. *)
THEOREM PoolInvariant == Spec => []IInv
BY InitIInv, NextIInv, PTL DEF Spec

(* Every variable keeps its type (all of LoopPool). *)
THEOREM TypeCorrect == Spec => []TypeOK
<1>1. IInv => TypeOK
  BY DEF IInv
<1> QED
  BY <1>1, PoolInvariant, PTL

(* Whichever threads could be created, a loop that getNextPool hands out   *)
(* runs until the pool is destroyed (threadStart, threadFunc).             *)
THEOREM HandedLiveHolds == Spec => []HandedLive
<1>1. IInv => HandedLive
  BY DEF IInv
<1> QED
  BY <1>1, PoolInvariant, PTL

(* However many loops and connections, no loop gets more than one          *)
(* connection ahead of another (getNextPool).                              *)
THEOREM BalancedHolds == Spec => []Balanced
<1>1. IInv => Balanced
  BY DEF IInv
<1> QED
  BY <1>1, PoolInvariant, PTL

(* With the listening socket registered, the main thread never goes back   *)
(* to epoll_wait with connections in the socket and no edge                *)
(* (handleNewConn, handleThisConn).                                        *)
THEOREM EdgeKeptHolds == Spec => []EdgeKept
<1>1. IInv => EdgeKept
  BY DEF IInv
<1> QED
  BY <1>1, PoolInvariant, PTL
=============================================================================

---------------------------- MODULE TimerProofs ----------------------------
(***************************************************************************)
(* Proofs about Timer, for any nodes, any timeouts and any cycle that is   *)
(* no shorter than the longest of them.                                    *)
(*                                                                         *)
(* IInv is inductive: in a cycle's time after it was added, a node's       *)
(* expiredTime_ and age fix the clock's reading up to one wrap, so a       *)
(* reading at or past expiredTime_ means that the timeout has passed; and  *)
(* a node in the heap is either not cleared and owns its connection, or    *)
(* cleared and deleted.                                                    *)
(***************************************************************************)
EXTENDS Timer, TLAPS

USE DEF Fates

LEMMA InitIInv == Init => IInv
<1> SUFFICES ASSUME Init PROVE IInv
  OBVIOUS
<1>1. TypeOK
  <2>1. age \in [Nodes -> 0 .. Wrap]
    BY TimerAssumption DEF Init
  <2>2. deleted_ \in [Nodes -> BOOLEAN] /\ ownHttp_ \in [Nodes -> BOOLEAN]
    BY DEF Init
  <2> QED
    BY <2>1, <2>2 DEF Init, TypeOK
<1>2. NeverEarly
  BY DEF Init, NeverEarly
<1>3. OwnerPresent /\ ClockAgrees /\ OwnersAgree
  BY DEF Init, OwnerPresent, ClockAgrees, OwnersAgree
<1> QED
  BY <1>1, <1>2, <1>3 DEF IInv

(* What the invariant says of the numbers of a node in the heap. *)
LEMMA NodeNumbers ==
  ASSUME NEW n \in timerNodeQueue, IInv
  PROVE  /\ n \in Nodes /\ age[n] \in 0 .. Wrap /\ now \in 0 .. Wrap - 1
         /\ expiredTime_[n] \in Nat /\ timeout[n] \in 1 .. Wrap
         /\ Wrap \in Nat
<1>1. timeout[n] \in Timeouts
  BY DEF IInv, ClockAgrees
<1>2. timeout[n] \in 1 .. Wrap /\ Wrap \in Nat
  BY <1>1, TimerAssumption
<1> QED
  BY <1>2 DEF IInv, TypeOK

LEMMA TickIInv == IInv /\ Tick => IInv'
<1> SUFFICES ASSUME IInv, Tick PROVE IInv'
  OBVIOUS
<1> USE TimerAssumption DEF IInv, Tick, node
<1>1. TypeOK'
  BY DEF TypeOK
<1>2. NeverEarly' /\ OwnerPresent' /\ OwnersAgree'
  BY DEF TypeOK, NeverEarly, OwnerPresent, OwnersAgree
<1>3. ClockAgrees'
  <2> SUFFICES ASSUME NEW n \in timerNodeQueue
               PROVE  /\ timeout[n] \in Timeouts
                      /\ expiredTime_[n]
                           \in timeout[n] .. timeout[n] + Wrap - 1
                      /\ age'[n] < Wrap =>
                           \/ expiredTime_[n] + age'[n] = now' + timeout[n]
                           \/ expiredTime_[n] + age'[n] =
                                now' + timeout[n] + Wrap
    BY DEF ClockAgrees
  <2>1. /\ n \in Nodes /\ age[n] \in 0 .. Wrap /\ now \in 0 .. Wrap - 1
        /\ expiredTime_[n] \in Nat /\ timeout[n] \in 1 .. Wrap
    BY NodeNumbers
  <2>2. age[n] < Wrap => age'[n] = age[n] + 1
    BY <2>1
  <2>3. age[n] >= Wrap => age'[n] = age[n]
    BY <2>1
  <2> QED
    BY <2>1, <2>2, <2>3 DEF ClockAgrees
<1> QED
  BY <1>1, <1>2, <1>3

LEMMA AddTimerIInv ==
  ASSUME NEW n \in Nodes, NEW t \in Timeouts, IInv, AddTimer(n, t)
  PROVE  IInv'
<1> USE TimerAssumption DEF IInv, AddTimer, Expiry
<1>1. TypeOK'
  BY DEF TypeOK
<1>2. NeverEarly' /\ OwnerPresent' /\ OwnersAgree'
  BY DEF TypeOK, NeverEarly, OwnerPresent, OwnersAgree
<1>3. ClockAgrees'
  BY DEF TypeOK, ClockAgrees
<1> QED
  BY <1>1, <1>2, <1>3

LEMMA SeparateIInv ==
  ASSUME NEW n \in Nodes, IInv, Separate(n)
  PROVE  IInv'
<1> USE DEF IInv, Separate, ClearHttp
<1>1. TypeOK'
  BY DEF TypeOK
<1>2. NeverEarly' /\ OwnerPresent' /\ OwnersAgree'
  BY DEF TypeOK, NeverEarly, OwnerPresent, OwnersAgree
<1>3. ClockAgrees'
  BY DEF TypeOK, ClockAgrees
<1> QED
  BY <1>1, <1>2, <1>3

(* A reading at or past expiredTime_ means that the timeout has passed. *)
LEMMA InvalidIsOverdue ==
  ASSUME NEW n \in timerNodeQueue, IInv, ~Valid(n)
  PROVE  age[n] >= timeout[n]
BY NodeNumbers DEF IInv, ClockAgrees, Valid

LEMMA PopDeletedIInv ==
  ASSUME NEW n \in Nodes, IInv, PopDeleted(n)
  PROVE  IInv'
<1> USE DEF IInv, PopDeleted, Top, Pop, Destroyed
<1>1. fate' = fate
  BY DEF TypeOK, OwnersAgree
<1>2. TypeOK'
  BY <1>1 DEF TypeOK
<1>3. NeverEarly' /\ OwnerPresent' /\ OwnersAgree'
  BY <1>1 DEF TypeOK, NeverEarly, OwnerPresent, OwnersAgree
<1>4. ClockAgrees'
  BY DEF ClockAgrees
<1> QED
  BY <1>2, <1>3, <1>4

LEMMA PopExpiredIInv ==
  ASSUME NEW n \in Nodes, IInv, PopExpired(n)
  PROVE  IInv'
<1> USE DEF IInv, PopExpired, Top, Pop, Destroyed
<1>1. ownHttp_[n]
  BY DEF TypeOK, OwnersAgree
<1>2. age[n] >= timeout[n]
  BY InvalidIsOverdue
<1>3. TypeOK'
  BY <1>1 DEF TypeOK
<1>4. OwnerPresent' /\ OwnersAgree'
  BY <1>1 DEF TypeOK, OwnerPresent, OwnersAgree
<1>5. NeverEarly'
  BY <1>2 DEF TypeOK, NeverEarly
<1>6. ClockAgrees'
  BY DEF ClockAgrees
<1> QED
  BY <1>3, <1>4, <1>5, <1>6

LEMMA NextIInv == IInv /\ [Next]_vars => IInv'
<1> SUFFICES ASSUME IInv, [Next]_vars PROVE IInv'
  OBVIOUS
<1> USE DEF IInv, TypeOK, NeverEarly, OwnerPresent, ClockAgrees, OwnersAgree
<1>1. CASE Tick
  BY <1>1, TickIInv
<1>2. CASE \E n \in Nodes, t \in Timeouts : AddTimer(n, t)
  BY <1>2, AddTimerIInv
<1>3. CASE \E n \in Nodes : Separate(n)
  BY <1>3, SeparateIInv
<1>4. CASE \E n \in Nodes : PopDeleted(n)
  BY <1>4, PopDeletedIInv
<1>5. CASE \E n \in Nodes : PopExpired(n)
  BY <1>5, PopExpiredIInv
<1>6. CASE HandleExpired
  BY <1>6 DEF HandleExpired, node
<1>7. CASE Break
  BY <1>7 DEF Break, node
<1>8. CASE UNCHANGED vars
  BY <1>8 DEF vars, node
<1> QED
  BY <1>1, <1>2, <1>3, <1>4, <1>5, <1>6, <1>7, <1>8 DEF Next

(* The strengthening is invariant. *)
THEOREM ClockInvariant == Spec => []IInv
BY InitIInv, NextIInv, PTL DEF Spec

(* Every variable keeps its type (all of Timer). *)
THEOREM TypeCorrect == Spec => []TypeOK
<1>1. IInv => TypeOK
  BY DEF IInv
<1> QED
  BY <1>1, ClockInvariant, PTL

(* No node closes its connection before its timeout has passed, however   *)
(* the clock wraps (TimerNode, isVaild, handleExpiredEvent).               *)
THEOREM NeverEarlyHolds == Spec => []NeverEarly
<1>1. IInv => NeverEarly
  BY DEF IInv
<1> QED
  BY <1>1, ClockInvariant, PTL

(* handleExpiredEvent never looks into a null ownHttp_. *)
THEOREM OwnerPresentHolds == Spec => []OwnerPresent
<1>1. IInv => OwnerPresent
  BY DEF IInv
<1> QED
  BY <1>1, ClockInvariant, PTL

(* A node that was cleared never closes its connection (clearHttp,        *)
(* ~TimerNode).                                                            *)
THEOREM ClearedNeverClosesHolds == Spec => ClearedNeverCloses
<1>1. IInv /\ [Next]_vars =>
        \A n \in Nodes : fate[n] = "cleared" => fate'[n] # "closed"
  <2> SUFFICES ASSUME IInv, [Next]_vars, NEW n \in Nodes, fate[n] = "cleared"
               PROVE  fate'[n] # "closed"
    OBVIOUS
  <2>1. fate \in [Nodes -> Fates]
    BY DEF IInv, TypeOK
  <2>2. CASE Tick \/ HandleExpired \/ Break \/ UNCHANGED vars
    BY <2>2 DEF Tick, HandleExpired, Break, vars, node
  <2>3. ASSUME NEW m \in Nodes, NEW t \in Timeouts, AddTimer(m, t)
        PROVE  fate'[n] # "closed"
    BY <2>1, <2>3 DEF AddTimer
  <2>4. ASSUME NEW m \in Nodes, Separate(m)
        PROVE  fate'[n] # "closed"
    BY <2>1, <2>4 DEF Separate
  <2>5. ASSUME NEW m \in Nodes, PopDeleted(m) \/ PopExpired(m)
        PROVE  fate'[n] # "closed"
    BY <2>1, <2>5
       DEF PopDeleted, PopExpired, Destroyed, Top, IInv, OwnersAgree
  <2> QED
    BY <2>2, <2>3, <2>4, <2>5 DEF Next
<1> QED
  BY <1>1, ClockInvariant, PTL DEF Spec, ClearedNeverCloses

(* A pass leaves no overdue node in the heap that has not seen the clock  *)
(* wrap (handleExpiredEvent, TimerCmp).                                    *)
THEOREM PassDrainsHolds == Spec => PassDrains
<1>1. IInv /\ [Next]_vars => (Ending => \A n \in Overdue : age[n] > now)
  <2> SUFFICES ASSUME IInv, [Next]_vars, Ending, NEW n \in Overdue
               PROVE  age[n] > now
    OBVIOUS
  <2>1. Break
    BY DEF Ending, Next, Tick, AddTimer, Separate, PopDeleted, PopExpired,
           HandleExpired, vars
  <2>2. n \in timerNodeQueue /\ age[n] >= timeout[n]
    BY DEF Overdue
  <2>3. PICK m \in Nodes : Top(m) /\ Valid(m)
    BY <2>1, <2>2 DEF Break
  <2>4. now < expiredTime_[n]
    BY <2>2, <2>3 DEF Top, Valid, IInv, TypeOK
  <2> QED
    BY <2>2, <2>4, NodeNumbers DEF IInv, ClockAgrees
<1> QED
  BY <1>1, ClockInvariant, PTL DEF Spec, PassDrains
=============================================================================

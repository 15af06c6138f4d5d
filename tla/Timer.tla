------------------------------- MODULE Timer -------------------------------
(***************************************************************************)
(* The timer of one loop: TimerNode and Timer over a clock that wraps.     *)
(*                                                                         *)
(* A node's expiredTime_ and every later reading of the clock are          *)
(* (tv_sec % 10000) * 1000 + tv_usec / 1000: milliseconds in a cycle of    *)
(* Wrap = 10^7.  now is that reading and age a node's true time in the     *)
(* heap, which only the properties look at; it stops growing at Wrap.      *)
(* One loop thread calls everything here, handleExpiredEvent once a round. *)
(*                                                                         *)
(* An operator named X_Y is X with the defect Y: the properties below have *)
(* to tell it from X.                                                      *)
(***************************************************************************)
EXTENDS Integers

CONSTANTS
  Nodes,                    \* TimerNode objects, used again once destroyed
  Timeouts,                 \* 2000 and 5000
  Wrap                      \* the length of the clock's cycle

ASSUME TimerAssumption ==
  /\ Wrap \in Nat
  /\ Timeouts \subseteq 1 .. Wrap

VARIABLES
  now,                      \* the clock's reading
  timerNodeQueue,           \* the nodes in the heap
  expiredTime_, deleted_, ownHttp_,  \* of each node; ownHttp_: not null?
  pc,                       \* "expiring" inside handleExpiredEvent
  failed,                   \* a null ownHttp_ was dereferenced
  timeout, age, fate        \* history of each node

node == <<expiredTime_, deleted_, ownHttp_, timeout, fate>>
vars == <<now, timerNodeQueue, node, pc, failed, age>>

Init ==
  /\ now \in 0 .. Wrap - 1
  /\ timerNodeQueue = {}
  /\ expiredTime_ = [n \in Nodes |-> 0]
  /\ deleted_ = [n \in Nodes |-> FALSE]
  /\ ownHttp_ = [n \in Nodes |-> FALSE]
  /\ pc = "idle"
  /\ failed = FALSE
  /\ timeout = [n \in Nodes |-> 0]
  /\ age = [n \in Nodes |-> 0]
  /\ fate = [n \in Nodes |-> "none"]
-----------------------------------------------------------------------------
Tick_LateWrap ==
  /\ now' = IF now = Wrap THEN 0 ELSE now + 1
  /\ UNCHANGED <<timerNodeQueue, node, pc, failed, age>>

(* A millisecond passes, whatever the loop thread is doing. *)
Tick ==
  /\ now' = IF now + 1 = Wrap THEN 0 ELSE now + 1
  /\ age' = [n \in Nodes |->
               IF n \in timerNodeQueue /\ age[n] < Wrap THEN age[n] + 1
                                                        ELSE age[n]]
  /\ UNCHANGED <<timerNodeQueue, node, pc, failed>>

Expiry_Wrapped(t) == (now + t) % Wrap

(* TimerNode's constructor; the sum may pass the end of the cycle. *)
Expiry(t) == now + t

(* Timer::addTimer. *)
AddTimer(n, t) ==
  /\ pc = "idle" /\ ~failed
  /\ n \notin timerNodeQueue
  /\ timerNodeQueue' = timerNodeQueue \cup {n}
  /\ expiredTime_' = [expiredTime_ EXCEPT ![n] = Expiry(t)]
  /\ deleted_' = [deleted_ EXCEPT ![n] = FALSE]
  /\ ownHttp_' = [ownHttp_ EXCEPT ![n] = TRUE]
  /\ timeout' = [timeout EXCEPT ![n] = t]
  /\ age' = [age EXCEPT ![n] = 0]
  /\ fate' = [fate EXCEPT ![n] = "none"]
  /\ UNCHANGED <<now, pc, failed>>

ClearHttp_NotDeleted(n) ==
  /\ ownHttp_' = [ownHttp_ EXCEPT ![n] = FALSE]
  /\ UNCHANGED deleted_

ClearHttp_KeepsHttp(n) ==
  /\ deleted_' = [deleted_ EXCEPT ![n] = TRUE]
  /\ UNCHANGED ownHttp_

(* TimerNode::clearHttp. *)
ClearHttp(n) ==
  /\ ownHttp_' = [ownHttp_ EXCEPT ![n] = FALSE]
  /\ deleted_' = [deleted_ EXCEPT ![n] = TRUE]

(* HttpData::seperaterTimer finds its node as long as it lives. *)
Separate(n) ==
  /\ pc = "idle" /\ ~failed
  /\ n \in timerNodeQueue /\ fate[n] = "none"
  /\ ClearHttp(n)
  /\ fate' = [fate EXCEPT ![n] = "cleared"]
  /\ UNCHANGED <<now, timerNodeQueue, expiredTime_, pc, failed, timeout, age>>
-----------------------------------------------------------------------------
(***************************************************************************)
(* Timer::handleExpiredEvent, one turn of its loop at a time.              *)
(***************************************************************************)
Top_Latest(n) ==
  /\ n \in timerNodeQueue
  /\ \A m \in timerNodeQueue : expiredTime_[m] <= expiredTime_[n]

Top(n) ==
  /\ n \in timerNodeQueue
  /\ \A m \in timerNodeQueue : expiredTime_[n] <= expiredTime_[m]

Valid(n) == now < expiredTime_[n]

Pop(n) == timerNodeQueue' = timerNodeQueue \ {n}

(* Popped, the node is destroyed, and closes the connection it still owns. *)
Destroyed(n) ==
  fate' = [fate EXCEPT ![n] = IF ownHttp_[n] THEN "closed" ELSE @]

HandleExpired ==
  /\ pc = "idle" /\ ~failed
  /\ pc' = "expiring"
  /\ UNCHANGED <<now, timerNodeQueue, node, failed, age>>

PopDeleted(n) ==
  /\ pc = "expiring" /\ ~failed
  /\ Top(n)
  /\ deleted_[n]
  /\ Pop(n)
  /\ Destroyed(n)
  /\ UNCHANGED <<now, expiredTime_, deleted_, ownHttp_, pc, failed, timeout,
                 age>>

(* isVaild sets deleted_; the message printed looks into ownHttp_. *)
PopExpired(n) ==
  /\ pc = "expiring" /\ ~failed
  /\ Top(n)
  /\ ~deleted_[n] /\ ~Valid(n)
  /\ deleted_' = [deleted_ EXCEPT ![n] = TRUE]
  /\ failed' = ~ownHttp_[n]
  /\ Pop(n)
  /\ Destroyed(n)
  /\ UNCHANGED <<now, expiredTime_, ownHttp_, pc, timeout, age>>

Break ==
  /\ pc = "expiring" /\ ~failed
  /\ timerNodeQueue = {} \/ \E n \in Nodes : Top(n) /\ ~deleted_[n] /\ Valid(n)
  /\ pc' = "idle"
  /\ UNCHANGED <<now, timerNodeQueue, node, failed, age>>
-----------------------------------------------------------------------------
Next ==
  \/ Tick
  \/ \E n \in Nodes :
       \/ \E t \in Timeouts : AddTimer(n, t)
       \/ Separate(n)
       \/ PopDeleted(n)
       \/ PopExpired(n)
  \/ HandleExpired
  \/ Break

Spec == Init /\ [][Next]_vars
-----------------------------------------------------------------------------
Fates == {"none", "cleared", "closed"}

TypeOK ==
  /\ now \in 0 .. Wrap - 1
  /\ timerNodeQueue \subseteq Nodes
  /\ expiredTime_ \in [Nodes -> Nat]
  /\ deleted_ \in [Nodes -> BOOLEAN]
  /\ ownHttp_ \in [Nodes -> BOOLEAN]
  /\ pc \in {"idle", "expiring"}
  /\ failed \in BOOLEAN
  /\ timeout \in [Nodes -> Timeouts \cup {0}]
  /\ age \in [Nodes -> 0 .. Wrap]
  /\ fate \in [Nodes -> Fates]

(***************************************************************************)
(* A node that closed its connection has left the heap and was there for   *)
(* all of its timeout, however the clock wrapped meanwhile (TimerNode,     *)
(* isVaild, handleExpiredEvent).                                           *)
(***************************************************************************)
NeverEarly ==
  \A n \in Nodes :
    fate[n] = "closed" => n \notin timerNodeQueue /\ age[n] >= timeout[n]

(***************************************************************************)
(* Once seperaterTimer has taken the connection from a node, that node     *)
(* never closes it (clearHttp, ~TimerNode).                                *)
(***************************************************************************)
ClearedNeverCloses ==
  [][\A n \in Nodes : fate[n] = "cleared" => fate'[n] # "closed"]_vars

(* handleExpiredEvent finds an owner in every node it prints about.        *)
OwnerPresent == ~failed

(***************************************************************************)
(* handleExpiredEvent leaves no node in the heap whose timeout has passed, *)
(* deleted or not, unless the clock wrapped while the node was in it: then *)
(* the reading is less than its age (handleExpiredEvent, TimerCmp).        *)
(***************************************************************************)
Ending == pc = "expiring" /\ pc' = "idle"

Overdue == {n \in timerNodeQueue : age[n] >= timeout[n]}

PassDrains == [][Ending => \A n \in Overdue : age[n] > now]_vars

(* The timer "releases resources at their timeout": no overdue node stays. *)
PassDrainsAll == [][Ending => Overdue = {}]_vars
-----------------------------------------------------------------------------
(***************************************************************************)
(* The inductive strengthening of NeverEarly and PassDrains.               *)
(***************************************************************************)

(* A node younger than a cycle was added at this cycle's or the last       *)
(* cycle's reading expiredTime_ - timeout.                                 *)
ClockAgrees ==
  \A n \in timerNodeQueue :
    /\ timeout[n] \in Timeouts
    /\ expiredTime_[n] \in timeout[n] .. timeout[n] + Wrap - 1
    /\ age[n] < Wrap =>
         \/ expiredTime_[n] + age[n] = now + timeout[n]
         \/ expiredTime_[n] + age[n] = now + timeout[n] + Wrap

(* A node in the heap owns its connection until it is cleared. *)
OwnersAgree ==
  \A n \in timerNodeQueue :
    \/ fate[n] = "none" /\ ownHttp_[n] /\ ~deleted_[n]
    \/ fate[n] = "cleared" /\ ~ownHttp_[n] /\ deleted_[n]

IInv == TypeOK /\ NeverEarly /\ OwnerPresent /\ ClockAgrees /\ OwnersAgree
=============================================================================

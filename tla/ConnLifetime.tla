---------------------------- MODULE ConnLifetime ----------------------------
(***************************************************************************)
(* The life of the connections: Acceptor::handleNewConn creates an         *)
(* HttpData and queues newEvent on a loop; that loop registers the channel,*)
(* dispatches its events, re-arms it or closes it; a timer node closes it  *)
(* when it has been idle.  An HttpData lives as long as something holds a  *)
(* shared_ptr to it, and its destructor closes the descriptor, which the   *)
(* kernel may then hand out again, to a connection of another loop.        *)
(*                                                                         *)
(* One action is one callback, or one phase of EventLoop::loop(), of a     *)
(* loop thread; loops and the acceptor interleave.  What the bytes say is  *)
(* reduced to what handleRead makes of them (Outcomes), a timeout to the   *)
(* fact that it may pass in any handleExpired.                             *)
(*                                                                         *)
(* An operator named X_Y is X with the defect Y: the properties below have *)
(* to tell it from X.                                                      *)
(***************************************************************************)
EXTENDS Naturals

CONSTANTS
  Conns,                    \* HttpData objects, each created at most once
  Fds,                      \* descriptors that accept may return
  Loops,                    \* the loops getNextPool chooses from
  Silent,                   \* connections whose peer may fall silent for good
  None                      \* the null pointer, the absent map entry

ASSUME ConnAssumption ==
  /\ Silent \subseteq Conns
  /\ None \notin Conns \cup Fds \cup Loops

VARIABLES
  fd_, ownloop_,            \* HttpData: descriptor and loop
  http,                     \* the other fields of an HttpData, its channel's
                            \* events_, and what its socket is registered for
  timer_,                   \* HttpData: the weak pointer to its node locks
  revents_,                 \* Channel: {} once it was handled
  nodes,                    \* Timer: nodes in the heap that hold c
  channels_, httpdatas_,    \* EPollPoller, per loop
  accPc, newHttpConn,       \* the acceptor's thread and its local variable
  pc, current,              \* the loop threads and the channel they handle
  pendingFunctors_,         \* newEvent calls queued (their order: EventLoop)
  functors, todo,           \* the swapped batch, and what is not yet called
  alive,                    \* the HttpData objects that exist
  quiet,                    \* connections of which no event comes any more
  failed                    \* assertions and dereferences that failed

timerVars == <<timer_, nodes>>
pollerVars == <<channels_, httpdatas_>>
accVars == <<fd_, ownloop_, accPc, newHttpConn>>
loopVars == <<pc, current>>
queueVars == <<pendingFunctors_, functors, todo>>
objVars == <<http, alive>>
vars == <<accVars, objVars, timerVars, revents_, pollerVars, loopVars,
          queueVars, quiet, failed>>

(* unsent: outBuffer_ is not empty; interest: {} is "not registered". *)
FreshHttp == [error_ |-> FALSE, connectionState_ |-> "H_CONNECTED",
              unsent |-> FALSE, events_ |-> {}, interest |-> {}]

Init ==
  /\ fd_ = [c \in Conns |-> None]
  /\ ownloop_ = [c \in Conns |-> None]
  /\ http = [c \in Conns |-> FreshHttp]
  /\ timer_ = [c \in Conns |-> FALSE]
  /\ revents_ = [c \in Conns |-> {}]
  /\ nodes = [c \in Conns |-> 0]
  /\ channels_ = [l \in Loops |-> [f \in Fds |-> None]]
  /\ httpdatas_ = [l \in Loops |-> [f \in Fds |-> None]]
  /\ accPc = "accept"
  /\ newHttpConn = None
  /\ pc = [l \in Loops |-> "poll"]
  /\ current = [l \in Loops |-> None]
  /\ pendingFunctors_ = [l \in Loops |-> {}]
  /\ functors = [l \in Loops |-> {}]
  /\ todo = [l \in Loops |-> {}]
  /\ alive = {}
  /\ quiet = {}
  /\ failed = {}
-----------------------------------------------------------------------------
(***************************************************************************)
(* Ownership.  Only these hold a shared_ptr to an HttpData between two     *)
(* actions; the channel holds a weak one, and its callbacks a raw this.    *)
(***************************************************************************)
Held_RawFunctor(c) ==
  \/ newHttpConn = c
  \/ nodes[c] > 0
  \/ \E l \in Loops, f \in Fds : httpdatas_[l][f] = c

Held(c) ==
  \/ newHttpConn = c
  \/ nodes[c] > 0
  \/ \E l \in Loops : c \in pendingFunctors_[l] \cup functors[l]
  \/ \E l \in Loops, f \in Fds : httpdatas_[l][f] = c

Open == {fd_[c] : c \in alive}

(* ~HttpData when the last holder is gone: close(fd_), which also takes    *)
(* the socket out of its epoll set.  The fields end with the object.       *)
Destroy(objects, fields) ==
  /\ alive' = {c \in objects : Held(c)'}
  /\ http' = [c \in Conns |-> IF c \in alive' THEN fields[c] ELSE FreshHttp]

Registered(c) == c \in alive /\ http[c].interest # {}

Check(what, ok) == failed' = failed \cup IF ok THEN {} ELSE {what}

(* EPollPoller::addTimer: a node that holds c, and c's way back to it. *)
AddTimer(c) ==
  /\ nodes' = [nodes EXCEPT ![c] = @ + 1]
  /\ timer_' = [timer_ EXCEPT ![c] = TRUE]

SeperaterTimer_Skipped(c) == UNCHANGED timerVars

(* HttpData::seperaterTimer, TimerNode::clearHttp. *)
SeperaterTimer(c) ==
  /\ nodes' = [nodes EXCEPT ![c] = IF timer_[c] THEN @ - 1 ELSE @]
  /\ timer_' = [timer_ EXCEPT ![c] = FALSE]

Insert_ChannelOnly(l, c) ==
  /\ channels_' = [channels_ EXCEPT ![l][fd_[c]] = c]
  /\ UNCHANGED httpdatas_

(* The two maps of the poller of l. *)
Insert(l, c) ==
  /\ channels_' = [channels_ EXCEPT ![l][fd_[c]] = c]
  /\ httpdatas_' = [httpdatas_ EXCEPT ![l][fd_[c]] = c]

Erase_HttpOnly(l, c) ==
  /\ UNCHANGED channels_
  /\ httpdatas_' = [httpdatas_ EXCEPT ![l][fd_[c]] = None]

Erase(l, c) ==
  /\ channels_' = [channels_ EXCEPT ![l][fd_[c]] = None]
  /\ httpdatas_' = [httpdatas_ EXCEPT ![l][fd_[c]] = None]

(* HttpData::handleClose and EPollPoller::removeChannel. *)
HandleClose(l, c) ==
  /\ Check("EPOLL_CTL_DEL", Registered(c))
  /\ Erase(l, c)
  /\ Destroy(alive, [http EXCEPT ![c].connectionState_ = "H_DISCONNECTED",
                                 ![c].interest = {}])
-----------------------------------------------------------------------------
(* Acceptor::handleNewConn, one iteration in the acceptor's thread. *)
AcceptNew(c, f, l) ==
  /\ accPc = "accept"
  /\ fd_[c] = None
  /\ f \notin Open
  /\ fd_' = [fd_ EXCEPT ![c] = f]
  /\ ownloop_' = [ownloop_ EXCEPT ![c] = l]
  /\ newHttpConn' = c
  /\ alive' = alive \cup {c}
  /\ accPc' = "queue"
  /\ UNCHANGED <<http, timerVars, revents_, pollerVars, loopVars, queueVars,
                 quiet, failed>>

QueueNewEvent ==
  /\ accPc = "queue"
  /\ LET l == ownloop_[newHttpConn]
     IN  pendingFunctors_' =
           [pendingFunctors_ EXCEPT ![l] = @ \cup {newHttpConn}]
  /\ accPc' = "release"
  /\ UNCHANGED <<fd_, ownloop_, newHttpConn, objVars, timerVars, revents_,
                 pollerVars, loopVars, functors, todo, quiet, failed>>

DropLocal ==
  /\ accPc = "release"
  /\ newHttpConn' = None
  /\ accPc' = "accept"
  /\ UNCHANGED <<fd_, ownloop_, timerVars, revents_, pollerVars, loopVars,
                 queueVars, quiet, failed>>
  /\ Destroy(alive, http)
-----------------------------------------------------------------------------
(***************************************************************************)
(* EPollPoller::poll and fillActiveChannels.  A socket registered with     *)
(* ONESHOT is disabled by its first event; EPOLLET sockets stay enabled.   *)
(***************************************************************************)
Disabled == {"disabled"}

Reportable(l) ==
  {c \in alive \ quiet :
     ownloop_[c] = l /\ http[c].interest \notin {{}, Disabled}}

Signals(c) ==
  SUBSET ((http[c].interest \cap {"IN", "OUT"}) \cup {"HUP", "ERR"}) \ {{}}

Active(l) == {c \in Conns : ownloop_[c] = l /\ revents_[c] # {}}

PollReturns(l, reported, signal) ==
  /\ pc[l] = "poll"
  /\ \A c \in reported : signal[c] \in Signals(c)
  /\ revents_' = [c \in Conns |-> IF c \in reported THEN signal[c]
                                  ELSE revents_[c]]
  /\ http' = [c \in Conns |->
                IF c \in reported /\ "ONESHOT" \in http[c].interest
                THEN [http[c] EXCEPT !.interest = Disabled] ELSE http[c]]
  /\ Check("fillActiveChannels",
           \A c \in reported : channels_[l][fd_[c]] = c)
  /\ pc' = [pc EXCEPT ![l] = "events"]
  /\ UNCHANGED <<accVars, timerVars, pollerVars, current, queueVars, alive,
                 quiet>>

Poll(l) ==
  \E reported \in SUBSET Reportable(l) :
    \E signal \in [reported -> SUBSET {"IN", "OUT", "HUP", "ERR"}] :
      PollReturns(l, reported, signal)

(* Channel::handleEvents, up to connCallback_. *)
Hangup(c) == "HUP" \in revents_[c] /\ "IN" \notin revents_[c]
Failure(c) == ~Hangup(c) /\ "ERR" \in revents_[c]

(* No closeCallback_ and no errorCallback_ was set: nothing is called. *)
HandleNothing(l, c) ==
  /\ pc[l] = "events"
  /\ c \in Active(l)
  /\ Hangup(c) \/ Failure(c)
  /\ http' = IF Hangup(c) THEN [http EXCEPT ![c].events_ = {}] ELSE http
  /\ revents_' = [revents_ EXCEPT ![c] = {}]
  /\ UNCHANGED <<accVars, timerVars, pollerVars, loopVars, queueVars, alive,
                 quiet, failed>>

(***************************************************************************)
(* HttpData::handleRead on the fields h.  It ends in an error; or waits    *)
(* for the rest of a request; or has answered one and goes on with what is *)
(* left in inBuffer_.  handleWrite sends everything or leaves a rest: the  *)
(* size_t that writen returns is never < 0, so a failed write leaves one   *)
(* too.  EPOLLET is left out of events_, handleConn always adds it.        *)
(***************************************************************************)
Written(h) ==
  {[h EXCEPT !.events_ = {}, !.unsent = FALSE],
   [h EXCEPT !.events_ = @ \cup {"OUT"}, !.unsent = TRUE]}

Waiting(h) ==
  {[x EXCEPT !.events_ = @ \cup {"IN"}] :
     x \in IF h.unsent THEN Written(h) ELSE {h}}

Answered(h) == Written(h) \cup UNION {Written(x) : x \in Written(h)}

Outcomes(h) ==
  IF h.error_ \/ h.connectionState_ # "H_CONNECTED" THEN {h}
  ELSE {[h EXCEPT !.error_ = TRUE]} \cup Answered(h)
         \cup UNION {Waiting(x) : x \in {h} \cup Answered(h)}

(* readCallback_ and writeCallback_ are both handleRead. *)
Twice(h) == UNION {Outcomes(x) : x \in Outcomes(h)}

HandleRead(l, c) ==
  /\ pc[l] = "events"
  /\ c \in Active(l)
  /\ ~Hangup(c) /\ ~Failure(c)
  /\ SeperaterTimer(c)
  /\ revents_' = [revents_ EXCEPT ![c] = {}]
  /\ current' = [current EXCEPT ![l] = c]
  /\ pc' = [pc EXCEPT ![l] = "conn"]
  /\ Check("handleRead", c \in alive)
  /\ UNCHANGED <<accVars, pollerVars, queueVars, quiet>>
  /\ \E h \in IF {"IN", "OUT"} \subseteq revents_[c] THEN Twice(http[c])
             ELSE Outcomes(http[c]) :
       Destroy(alive, [http EXCEPT ![c] = h])

(* HttpData::handleConn: what the channel is armed for next ... *)
Rearmed(events) ==
  IF events = {} THEN {"IN"}
  ELSE IF {"IN", "OUT"} \subseteq events THEN {"OUT"} ELSE events

Rearm_NoTimeout(l, c) ==
  LET events == Rearmed(http[c].events_)
  IN  /\ UNCHANGED timerVars
      /\ Insert(l, c)
      /\ Check("EPOLL_CTL_MOD", Registered(c))
      /\ http' = [http EXCEPT ![c].events_ = events, ![c].interest = events]
      /\ UNCHANGED alive

(* ... and EPollPoller::updateChannel, or the close after an error. *)
Rearm(l, c) ==
  LET events == Rearmed(http[c].events_)
  IN  /\ AddTimer(c)
      /\ Insert(l, c)
      /\ Check("EPOLL_CTL_MOD", Registered(c))
      /\ http' = [http EXCEPT ![c].events_ = events, ![c].interest = events]
      /\ UNCHANGED alive

HandleConn(l) ==
  LET c == current[l]
  IN  /\ pc[l] = "conn"
      /\ current' = [current EXCEPT ![l] = None]
      /\ pc' = [pc EXCEPT ![l] = "events"]
      /\ UNCHANGED <<accVars, revents_, queueVars, quiet>>
      /\ IF ~http[c].error_ /\ http[c].connectionState_ = "H_CONNECTED"
         THEN Rearm(l, c)
         ELSE UNCHANGED timerVars /\ HandleClose(l, c)

(* EventLoop::doPendingFunctors, each functor a call of HttpData::newEvent. *)
SwapFunctors(l) ==
  /\ pc[l] = "events"
  /\ Active(l) = {}
  /\ functors' = [functors EXCEPT ![l] = pendingFunctors_[l]]
  /\ todo' = [todo EXCEPT ![l] = pendingFunctors_[l]]
  /\ pendingFunctors_' = [pendingFunctors_ EXCEPT ![l] = {}]
  /\ pc' = [pc EXCEPT ![l] = "functors"]
  /\ UNCHANGED <<accVars, objVars, timerVars, revents_, pollerVars, current,
                 quiet, failed>>

NewEvent(l, c) ==
  LET events == {"IN", "ONESHOT"}
  IN  /\ pc[l] = "functors"
      /\ c \in todo[l]
      /\ todo' = [todo EXCEPT ![l] = @ \ {c}]
      /\ AddTimer(c)
      /\ Insert(l, c)
      /\ Check("EPOLL_CTL_ADD", c \in alive /\ ~Registered(c))
      /\ http' = [http EXCEPT ![c].events_ = events, ![c].interest = events]
      /\ UNCHANGED <<accVars, revents_, loopVars, pendingFunctors_, functors,
                     alive, quiet>>

FunctorsDone(l) ==
  /\ pc[l] = "functors"
  /\ todo[l] = {}
  /\ functors' = [functors EXCEPT ![l] = {}]
  /\ pc' = [pc EXCEPT ![l] = "expire"]
  /\ UNCHANGED <<accVars, timerVars, revents_, pollerVars, current,
                 pendingFunctors_, todo, quiet, failed>>
  /\ Destroy(alive, http)

ExpireNode_Deleted(l, c) ==
  /\ pc[l] = "expire"
  /\ ownloop_[c] = l
  /\ nodes' = [nodes EXCEPT ![c] = @ - 1]
  /\ timer_' = [timer_ EXCEPT ![c] = @ /\ nodes[c] > 1]
  /\ UNCHANGED <<accVars, revents_, loopVars, queueVars, quiet>>
  /\ HandleClose(l, c)

(* Timer::handleExpiredEvent: a node that expired is popped, ~TimerNode    *)
(* closes its connection; cleared nodes are popped without effect.         *)
ExpireNode(l, c) ==
  /\ pc[l] = "expire"
  /\ ownloop_[c] = l
  /\ nodes[c] > 0
  /\ nodes' = [nodes EXCEPT ![c] = @ - 1]
  /\ timer_' = [timer_ EXCEPT ![c] = @ /\ nodes[c] > 1]
  /\ UNCHANGED <<accVars, revents_, loopVars, queueVars, quiet>>
  /\ HandleClose(l, c)

ExpireDone(l) ==
  /\ pc[l] = "expire"
  /\ pc' = [pc EXCEPT ![l] = "poll"]
  /\ UNCHANGED <<accVars, objVars, timerVars, revents_, pollerVars, current,
                 queueVars, quiet, failed>>

(* The peer of c, which still has a connection, stays silent from now on. *)
GoQuiet(c) ==
  /\ c \in (alive \cap Silent) \ quiet
  /\ quiet' = quiet \cup {c}
  /\ UNCHANGED <<accVars, objVars, timerVars, revents_, pollerVars, loopVars,
                 queueVars, failed>>
-----------------------------------------------------------------------------
LoopStep(l) ==
  \/ Poll(l)
  \/ \E c \in Conns : HandleNothing(l, c) \/ HandleRead(l, c)
  \/ HandleConn(l)
  \/ SwapFunctors(l)
  \/ \E c \in Conns : NewEvent(l, c)
  \/ FunctorsDone(l)
  \/ \E c \in Conns : ExpireNode(l, c)
  \/ ExpireDone(l)

Next ==
  \/ \E c \in Conns, f \in Fds, l \in Loops : AcceptNew(c, f, l)
  \/ QueueNewEvent
  \/ DropLocal
  \/ \E l \in Loops : LoopStep(l)
  \/ \E c \in Conns : GoQuiet(c)

Spec == Init /\ [][Next]_vars

(***************************************************************************)
(* Loops and acceptor are scheduled; epoll_wait returns after EPOLLTIME at *)
(* the latest, so a node that stays in the heap is found expired in the    *)
(* end (but see Timer for the clock it is compared with).                  *)
(***************************************************************************)
Fairness ==
  /\ \A l \in Loops : WF_vars(LoopStep(l))
  /\ \A l \in Loops, c \in Conns : SF_vars(ExpireNode(l, c))
  /\ WF_vars(QueueNewEvent) /\ WF_vars(DropLocal)

FairSpec == Spec /\ Fairness
-----------------------------------------------------------------------------
Interests == SUBSET {"IN", "OUT", "ONESHOT"}

Https ==
  [error_: BOOLEAN, connectionState_: {"H_CONNECTED", "H_DISCONNECTED"},
   unsent: BOOLEAN, events_: Interests, interest: Interests \cup {Disabled}]

TypeOK ==
  /\ fd_ \in [Conns -> Fds \cup {None}]
  /\ ownloop_ \in [Conns -> Loops \cup {None}]
  /\ http \in [Conns -> Https]
  /\ timer_ \in [Conns -> BOOLEAN]
  /\ revents_ \in [Conns -> SUBSET {"IN", "OUT", "HUP", "ERR"}]
  /\ nodes \in [Conns -> Nat]
  /\ channels_ \in [Loops -> [Fds -> Conns \cup {None}]]
  /\ httpdatas_ \in [Loops -> [Fds -> Conns \cup {None}]]
  /\ accPc \in {"accept", "queue", "release"}
  /\ newHttpConn \in Conns \cup {None}
  /\ pc \in [Loops -> {"poll", "events", "conn", "functors", "expire"}]
  /\ current \in [Loops -> Conns \cup {None}]
  /\ pendingFunctors_ \in [Loops -> SUBSET Conns]
  /\ functors \in [Loops -> SUBSET Conns]
  /\ todo \in [Loops -> SUBSET Conns]
  /\ alive \in SUBSET Conns
  /\ quiet \in SUBSET Conns
  /\ failed \in SUBSET {"handleRead", "fillActiveChannels", "EPOLL_CTL_ADD",
                        "EPOLL_CTL_MOD", "EPOLL_CTL_DEL"}

(***************************************************************************)
(* No assertion about epoll_ctl fails, no event finds another channel than *)
(* its own, no callback starts on a destroyed HttpData (addChannel,        *)
(* updateChannel, removeChannel, fillActiveChannels, handleEvents), in any *)
(* interleaving of loops that reuse each other's descriptors.              *)
(***************************************************************************)
NothingFails == failed = {}

(***************************************************************************)
(* While a callback of a connection runs, and as long as an event of it is *)
(* still to be dispatched, its HttpData exists, although seperaterTimer    *)
(* takes the timer's hold away (handleRead, handleConn, httpdatas_).       *)
(***************************************************************************)
CallbacksLive ==
  \A l \in Loops :
    /\ Active(l) \subseteq alive
    /\ pc[l] = "conn" => current[l] \in alive

(***************************************************************************)
(* A registered connection has exactly one node that can close it, and     *)
(* while its callbacks run it has none (addTimer, seperaterTimer).         *)
(***************************************************************************)
Handled(c) == \E l \in Loops : current[l] = c

OneTimer ==
  \A c \in Conns :
    nodes[c] = IF Registered(c) /\ ~Handled(c) THEN 1 ELSE 0

(***************************************************************************)
(* An HttpData is destroyed for the two reasons the readme gives and no    *)
(* other: its timer expired, or handling it ended in an error (handleConn, *)
(* ~TimerNode); if one of these found it still in use, it is destroyed     *)
(* when its last user lets go (DropLocal, FunctorsDone).                   *)
(***************************************************************************)
ClosedForAReason ==
  [][\A c \in alive \ alive' :
       \/ http[c].error_
       \/ http[c].connectionState_ = "H_DISCONNECTED"
       \/ pc[ownloop_[c]] = "expire" /\ nodes[c] > 0]_vars

(***************************************************************************)
(* A connection whose peer stays silent is destroyed and its descriptor    *)
(* closed, whatever state its last event left it in (handleEvents,         *)
(* handleConn, handleExpiredEvent).                                        *)
(***************************************************************************)
QuietCloses == \A c \in Conns : (c \in quiet) ~> (c \notin alive)

(***************************************************************************)
(* The connections keep the promise of Descriptors.                        *)
(***************************************************************************)
Stage(c) ==
  IF fd_[c] = None THEN "none"
  ELSE IF c \notin alive THEN "closed"
  ELSE IF http[c].connectionState_ = "H_DISCONNECTED" THEN "withdrawn"
  ELSE IF http[c].interest = {} THEN "accepted" ELSE "served"

D == INSTANCE Descriptors WITH
       stage <- [c \in Conns |-> Stage(c)], lease <- fd_, serves <- channels_

(* One connection and one loop to a descriptor, until it is closed         *)
(* (handleNewConn, newEvent, removeChannel, ~HttpData).                    *)
ImplementsDescriptors == D!Spec
-----------------------------------------------------------------------------
(***************************************************************************)
(* What makes these properties inductive.                                  *)
(***************************************************************************)
(* Whoever is held exists, with a loop and a descriptor that no other has; *)
(* of the others nothing is left.                                          *)
AliveAgrees ==
  /\ \A c \in Conns : c \in alive <=> Held(c)
  /\ \A c \in alive : fd_[c] # None /\ ownloop_[c] # None
  /\ \A c, d \in alive : fd_[c] = fd_[d] => c = d
  /\ \A c \in Conns \ alive : http[c] = FreshHttp

(* On its way to its loop a connection is in one place, and untouched.     *)
Entering(c) ==
  \/ accPc = "queue" /\ newHttpConn = c
  \/ \E l \in Loops : c \in pendingFunctors_[l] \cup todo[l]

QueuesAgree ==
  /\ accPc = "accept" <=> newHttpConn = None
  /\ \A l \in Loops :
       /\ accPc = "queue"
            => newHttpConn \notin pendingFunctors_[l] \cup functors[l]
       /\ todo[l] \subseteq functors[l]
       /\ pendingFunctors_[l] \cap functors[l] = {}
       /\ pc[l] # "functors" => functors[l] = {}
       /\ \A c \in pendingFunctors_[l] \cup functors[l] : ownloop_[c] = l

StatesAgree ==
  \A c \in alive :
    IF Entering(c) THEN http[c] = FreshHttp
    ELSE http[c].connectionState_ =
           IF Registered(c) THEN "H_CONNECTED" ELSE "H_DISCONNECTED"

(* The two maps hold the registered connections, each at its descriptor.   *)
MapsAgree ==
  /\ httpdatas_ = channels_
  /\ \A l \in Loops, f \in Fds, c \in Conns :
       channels_[l][f] = c <=> /\ Registered(c)
                               /\ ownloop_[c] = l /\ fd_[c] = f

(* Events and callbacks are those of registered connections, by their loop.*)
EventsAgree ==
  /\ \A c \in Conns :
       revents_[c] # {} => /\ Registered(c)
                           /\ pc[ownloop_[c]] \in {"events", "conn"}
  /\ \A l \in Loops :
       /\ current[l] = None <=> pc[l] # "conn"
       /\ \A c \in Conns :
            current[l] = c => /\ ownloop_[c] = l
                              /\ Registered(c)
                              /\ revents_[c] = {}

TimersAgree == \A c \in Conns : timer_[c] <=> nodes[c] = 1

Agreement ==
  /\ TypeOK /\ NothingFails /\ OneTimer /\ TimersAgree
  /\ AliveAgrees /\ QueuesAgree /\ StatesAgree /\ MapsAgree /\ EventsAgree

(* While a batch of functors runs, those that were called are registered:  *)
(* only their own loop could close them.                                   *)
BatchServed ==
  \A l \in Loops : \A c \in functors[l] \ todo[l] : Registered(c)

IInv == Agreement /\ BatchServed
=============================================================================

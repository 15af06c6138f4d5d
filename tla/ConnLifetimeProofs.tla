------------------------- MODULE ConnLifetimeProofs -------------------------
(***************************************************************************)
(* Proofs about ConnLifetime, for any number of connections, descriptors   *)
(* and loops.  The argument:                                               *)
(*                                                                         *)
(* - whoever is held exists (AliveAgrees), and who is registered is held   *)
(*   by the maps of the poller of its own loop (MapsAgree): events and     *)
(*   callbacks, which are those of registered connections (EventsAgree),   *)
(*   find their HttpData alive;                                            *)
(* - only its own loop registers, handles and unregisters a connection,    *)
(*   and never while it calls functors, so that the steps of other loops,  *)
(*   also those that reuse a descriptor, leave it alone (QueuesAgree,      *)
(*   BatchServed);                                                         *)
(* - handleRead takes the node away and updateChannel brings it back, or   *)
(*   the connection is unregistered with it: one node or none (OneTimer).  *)
(*                                                                         *)
(* The lemmas named X...Agrees show that action X preserves Agreement, the *)
(* ones named X...Keeps what X leaves alone; the stages of Descriptors     *)
(* follow from the latter.                                                 *)
(***************************************************************************)
EXTENDS ConnLifetime, TLAPS

LEMMA FreshType == FreshHttp \in Https
BY DEF FreshHttp, Https, Interests

(* What handleRead leaves alone.                                           *)
SameSocket(x, h) ==
  /\ x \in Https
  /\ x.interest = h.interest /\ x.connectionState_ = h.connectionState_

LEMMA WrittenSame ==
  ASSUME NEW h \in Https, NEW x \in Written(h) PROVE SameSocket(x, h)
<1>1. CASE x = [h EXCEPT !.events_ = {}, !.unsent = FALSE]
  BY <1>1 DEF SameSocket, Https, Interests
<1>2. CASE x = [h EXCEPT !.events_ = @ \cup {"OUT"}, !.unsent = TRUE]
  BY <1>2 DEF SameSocket, Https, Interests
<1> QED
  BY <1>1, <1>2 DEF Written

LEMMA AnsweredSame ==
  ASSUME NEW h \in Https, NEW x \in Answered(h) PROVE SameSocket(x, h)
<1>1. CASE x \in Written(h)
  BY <1>1, WrittenSame
<1>2. CASE x \in UNION {Written(y) : y \in Written(h)}
  <2>1. PICK y \in Written(h) : x \in Written(y)
    BY <1>2
  <2>2. SameSocket(y, h)
    BY WrittenSame
  <2> QED
    BY <2>1, <2>2, WrittenSame DEF SameSocket
<1> QED
  BY <1>1, <1>2 DEF Answered

LEMMA WaitingSame ==
  ASSUME NEW h \in Https, NEW x \in Waiting(h) PROVE SameSocket(x, h)
<1>1. PICK y \in IF h.unsent THEN Written(h) ELSE {h} :
        x = [y EXCEPT !.events_ = @ \cup {"IN"}]
  BY DEF Waiting
<1>2. SameSocket(y, h)
  BY WrittenSame DEF SameSocket
<1> QED
  BY <1>1, <1>2 DEF SameSocket, Https, Interests

LEMMA OutcomesSame ==
  ASSUME NEW h \in Https, NEW x \in Outcomes(h) PROVE SameSocket(x, h)
<1>1. CASE x = h
  BY <1>1 DEF SameSocket
<1>2. CASE x = [h EXCEPT !.error_ = TRUE]
  BY <1>2 DEF SameSocket, Https
<1>3. CASE x \in Answered(h)
  BY <1>3, AnsweredSame
<1>4. CASE x \in UNION {Waiting(y) : y \in {h} \cup Answered(h)}
  <2>1. PICK y \in {h} \cup Answered(h) : x \in Waiting(y)
    BY <1>4
  <2>2. SameSocket(y, h)
    BY AnsweredSame DEF SameSocket
  <2> QED
    BY <2>1, <2>2, WaitingSame DEF SameSocket
<1> QED
  BY <1>1, <1>2, <1>3, <1>4 DEF Outcomes

LEMMA TwiceSame ==
  ASSUME NEW h \in Https, NEW x \in Twice(h) PROVE SameSocket(x, h)
<1>1. PICK y \in Outcomes(h) : x \in Outcomes(y)
  BY DEF Twice
<1>2. SameSocket(y, h)
  BY OutcomesSame
<1> QED
  BY <1>1, <1>2, OutcomesSame DEF SameSocket
-----------------------------------------------------------------------------
LEMMA InitAgrees == Init => Agreement
<1> SUFFICES ASSUME Init PROVE Agreement
  OBVIOUS
<1> USE ConnAssumption DEF Init
<1>1. TypeOK
  BY FreshType DEF TypeOK
<1>2. NothingFails
  BY DEF NothingFails
<1>3. OneTimer /\ TimersAgree
  BY DEF OneTimer, TimersAgree, Registered
<1>4. AliveAgrees
  BY DEF AliveAgrees, Held
<1>5. QueuesAgree
  BY DEF QueuesAgree
<1>6. StatesAgree
  BY DEF StatesAgree
<1>7. MapsAgree
  BY DEF MapsAgree, Registered
<1>8. EventsAgree
  BY DEF EventsAgree
<1> QED
  BY <1>1, <1>2, <1>3, <1>4, <1>5, <1>6, <1>7, <1>8 DEF Agreement

(* Steps that move nothing between the holders of a connection.            *)
LEMMA SameHolders ==
  ASSUME UNCHANGED <<newHttpConn, nodes, pendingFunctors_, functors,
                     httpdatas_>>
  PROVE  \A c \in Conns : Held(c)' <=> Held(c)
BY DEF Held

LEMMA GoQuietAgrees ==
  ASSUME Agreement, NEW c \in Conns, GoQuiet(c) PROVE Agreement'
<1>1. /\ UNCHANGED <<fd_, ownloop_, accPc, newHttpConn, http, alive, timer_>>
      /\ UNCHANGED <<nodes, revents_, channels_, httpdatas_, pc, current>>
      /\ UNCHANGED <<pendingFunctors_, functors, todo, failed>>
      /\ quiet' = quiet \cup {c}
  BY DEF GoQuiet, accVars, objVars, timerVars, pollerVars, loopVars, queueVars
<1>2. \A d \in Conns : Held(d)' <=> Held(d)
  BY <1>1, SameHolders
<1>3. \A d \in Conns : /\ Registered(d)' <=> Registered(d)
                       /\ Handled(d)' <=> Handled(d)
                       /\ Entering(d)' <=> Entering(d)
  BY <1>1 DEF Registered, Handled, Entering
<1>4. TypeOK' /\ NothingFails'
  BY <1>1 DEF Agreement, TypeOK, NothingFails
<1>5. OneTimer' /\ TimersAgree'
  BY <1>1, <1>3 DEF Agreement, OneTimer, TimersAgree
<1>6. AliveAgrees'
  BY <1>1, <1>2 DEF Agreement, AliveAgrees
<1>7. QueuesAgree'
  BY <1>1 DEF Agreement, QueuesAgree
<1>8. StatesAgree'
  BY <1>1, <1>3 DEF Agreement, TypeOK, StatesAgree
<1>9. MapsAgree'
  BY <1>1, <1>3 DEF Agreement, MapsAgree
<1>10. EventsAgree'
  BY <1>1, <1>3 DEF Agreement, EventsAgree
<1> QED
  BY <1>4, <1>5, <1>6, <1>7, <1>8, <1>9, <1>10 DEF Agreement

LEMMA ExpireDoneAgrees ==
  ASSUME Agreement, NEW l \in Loops, ExpireDone(l) PROVE Agreement'
<1>1. /\ UNCHANGED <<fd_, ownloop_, accPc, newHttpConn, http, alive, timer_>>
      /\ UNCHANGED <<nodes, revents_, channels_, httpdatas_, current, quiet>>
      /\ UNCHANGED <<pendingFunctors_, functors, todo, failed>>
      /\ pc[l] = "expire" /\ pc' = [pc EXCEPT ![l] = "poll"]
  BY DEF ExpireDone, accVars, objVars, timerVars, pollerVars, queueVars
<1>2. \A d \in Conns : Held(d)' <=> Held(d)
  BY <1>1, SameHolders
<1>3. \A d \in Conns : /\ Registered(d)' <=> Registered(d)
                       /\ Handled(d)' <=> Handled(d)
                       /\ Entering(d)' <=> Entering(d)
  BY <1>1 DEF Registered, Handled, Entering
<1>4. TypeOK' /\ NothingFails'
  BY <1>1 DEF Agreement, TypeOK, NothingFails
<1>5. OneTimer' /\ TimersAgree'
  BY <1>1, <1>3 DEF Agreement, OneTimer, TimersAgree
<1>6. AliveAgrees'
  BY <1>1, <1>2 DEF Agreement, AliveAgrees
<1>7. QueuesAgree'
  BY <1>1 DEF Agreement, TypeOK, QueuesAgree
<1>8. StatesAgree'
  BY <1>1, <1>3 DEF Agreement, TypeOK, StatesAgree
<1>9. MapsAgree'
  BY <1>1, <1>3 DEF Agreement, MapsAgree
<1>10. EventsAgree'
  BY <1>1, <1>3 DEF Agreement, TypeOK, EventsAgree
<1> QED
  BY <1>4, <1>5, <1>6, <1>7, <1>8, <1>9, <1>10 DEF Agreement

LEMMA SwapFunctorsAgrees ==
  ASSUME Agreement, NEW l \in Loops, SwapFunctors(l) PROVE Agreement'
<1>1. /\ UNCHANGED <<fd_, ownloop_, accPc, newHttpConn, http, alive, timer_>>
      /\ UNCHANGED <<nodes, revents_, channels_, httpdatas_, current, quiet>>
      /\ UNCHANGED failed
      /\ pc[l] = "events" /\ pc' = [pc EXCEPT ![l] = "functors"]
      /\ functors' = [functors EXCEPT ![l] = pendingFunctors_[l]]
      /\ todo' = [todo EXCEPT ![l] = pendingFunctors_[l]]
      /\ pendingFunctors_' = [pendingFunctors_ EXCEPT ![l] = {}]
      /\ \A c \in Conns : ownloop_[c] = l => revents_[c] = {}
  BY DEF SwapFunctors, Active, accVars, objVars, timerVars, pollerVars
<1>11. functors[l] = {} /\ todo[l] = {}
  BY <1>1 DEF Agreement, QueuesAgree
<1>2. \A d \in Conns : Held(d)' <=> Held(d)
  BY <1>1, <1>11 DEF Agreement, TypeOK, Held
<1>3. \A d \in Conns : /\ Registered(d)' <=> Registered(d)
                       /\ Handled(d)' <=> Handled(d)
                       /\ Entering(d)' <=> Entering(d)
  BY <1>1, <1>11 DEF Agreement, TypeOK, Registered, Handled, Entering
<1>4. TypeOK' /\ NothingFails'
  BY <1>1 DEF Agreement, TypeOK, NothingFails
<1>5. OneTimer' /\ TimersAgree'
  BY <1>1, <1>3 DEF Agreement, OneTimer, TimersAgree
<1>6. AliveAgrees'
  BY <1>1, <1>2 DEF Agreement, AliveAgrees
<1>7. QueuesAgree'
  BY <1>1 DEF Agreement, TypeOK, QueuesAgree
<1>8. StatesAgree'
  BY <1>1, <1>3 DEF Agreement, TypeOK, StatesAgree
<1>9. MapsAgree'
  BY <1>1, <1>3 DEF Agreement, MapsAgree
<1>10. EventsAgree'
  BY <1>1, <1>3 DEF Agreement, TypeOK, EventsAgree
<1> QED
  BY <1>4, <1>5, <1>6, <1>7, <1>8, <1>9, <1>10 DEF Agreement

LEMMA QueueNewEventAgrees == ASSUME Agreement, QueueNewEvent PROVE Agreement'
<1> DEFINE n == newHttpConn
           o == ownloop_[n]
<1>1. /\ UNCHANGED <<fd_, ownloop_, newHttpConn, http, alive, timer_>>
      /\ UNCHANGED <<nodes, revents_, channels_, httpdatas_, pc, current>>
      /\ UNCHANGED <<functors, todo, quiet, failed>>
      /\ accPc = "queue" /\ accPc' = "release"
      /\ pendingFunctors_' = [pendingFunctors_ EXCEPT ![o] = @ \cup {n}]
  BY DEF QueueNewEvent, objVars, timerVars, pollerVars, loopVars
<1>11. n \in Conns /\ Held(n)
  BY <1>1 DEF Agreement, TypeOK, QueuesAgree, Held
<1>12. o \in Loops
  BY <1>11 DEF Agreement, TypeOK, AliveAgrees
<1> HIDE DEF o
<1>2. \A d \in Conns : Held(d)' <=> Held(d)
  BY <1>1, <1>11, <1>12 DEF Agreement, TypeOK, Held
<1>3. \A d \in Conns : /\ Registered(d)' <=> Registered(d)
                       /\ Handled(d)' <=> Handled(d)
                       /\ Entering(d)' <=> Entering(d)
  BY <1>1, <1>11, <1>12 DEF Agreement, TypeOK, Registered, Handled, Entering
<1>4. TypeOK' /\ NothingFails'
  BY <1>1, <1>11, <1>12 DEF Agreement, TypeOK, NothingFails
<1>5. OneTimer' /\ TimersAgree'
  BY <1>1, <1>3 DEF Agreement, OneTimer, TimersAgree
<1>6. AliveAgrees'
  BY <1>1, <1>2 DEF Agreement, AliveAgrees
<1>7. QueuesAgree'
  BY <1>1, <1>11, <1>12 DEF o, Agreement, TypeOK, QueuesAgree
<1>8. StatesAgree'
  BY <1>1, <1>3 DEF Agreement, TypeOK, StatesAgree
<1>9. MapsAgree'
  BY <1>1, <1>3 DEF Agreement, MapsAgree
<1>10. EventsAgree'
  BY <1>1, <1>3 DEF Agreement, TypeOK, EventsAgree
<1> QED
  BY <1>4, <1>5, <1>6, <1>7, <1>8, <1>9, <1>10 DEF Agreement

LEMMA HandleNothingAgrees ==
  ASSUME Agreement, NEW l \in Loops, NEW c \in Conns, HandleNothing(l, c)
  PROVE  Agreement'
<1>1. /\ UNCHANGED <<fd_, ownloop_, accPc, newHttpConn, alive, timer_, nodes>>
      /\ UNCHANGED <<channels_, httpdatas_, pc, current, quiet, failed>>
      /\ UNCHANGED <<pendingFunctors_, functors, todo>>
      /\ revents_[c] # {} /\ revents_' = [revents_ EXCEPT ![c] = {}]
      /\ http' = [http EXCEPT ![c].events_ = {}] \/ http' = http
  BY DEF HandleNothing, Active, accVars, timerVars, pollerVars, loopVars,
     queueVars
<1>11. Registered(c)
  BY <1>1 DEF Agreement, EventsAgree
<1>12. /\ http' \in [Conns -> Https]
       /\ \A d \in Conns : /\ d # c => http'[d] = http[d]
                           /\ http'[d].interest = http[d].interest
                           /\ http'[d].connectionState_
                                = http[d].connectionState_
  <2>1. http \in [Conns -> Https] /\ http[c] \in Https
    BY DEF Agreement, TypeOK
  <2>2. [http[c] EXCEPT !.events_ = {}] \in Https
    BY <2>1 DEF Https, Interests
  <2>3. /\ [http[c] EXCEPT !.events_ = {}].interest = http[c].interest
        /\ [http[c] EXCEPT !.events_ = {}].connectionState_
             = http[c].connectionState_
    BY <2>1 DEF Https
  <2> QED
    BY <1>1, <2>1, <2>2, <2>3
<1>2. \A d \in Conns : Held(d)' <=> Held(d)
  BY <1>1, SameHolders
<1>3. \A d \in Conns : /\ Registered(d)' <=> Registered(d)
                       /\ Handled(d)' <=> Handled(d)
                       /\ Entering(d)' <=> Entering(d)
  BY <1>1, <1>12 DEF Registered, Handled, Entering
<1>4. TypeOK' /\ NothingFails'
  BY <1>1, <1>12 DEF Agreement, TypeOK, NothingFails
<1>5. OneTimer' /\ TimersAgree'
  BY <1>1, <1>3 DEF Agreement, OneTimer, TimersAgree
<1>6. AliveAgrees'
  BY <1>1, <1>11, <1>12, <1>2 DEF Agreement, AliveAgrees, Registered
<1>7. QueuesAgree'
  BY <1>1 DEF Agreement, TypeOK, QueuesAgree
<1>8. StatesAgree'
  <2>1. ~Entering(c)
    BY <1>11 DEF Agreement, StatesAgree, Registered, FreshHttp
  <2>2. ASSUME NEW d \in alive
        PROVE  IF Entering(d)' THEN http'[d] = FreshHttp
               ELSE http'[d].connectionState_ =
                      IF Registered(d)' THEN "H_CONNECTED"
                      ELSE "H_DISCONNECTED"
    <3>1. d \in Conns
      BY DEF Agreement, TypeOK
    <3> QED
      BY <1>12, <1>3, <2>1, <3>1 DEF Agreement, StatesAgree
  <2> QED
    BY <1>1, <2>2 DEF StatesAgree
<1>9. MapsAgree'
  BY <1>1, <1>3 DEF Agreement, MapsAgree
<1>10. EventsAgree'
  BY <1>1, <1>3 DEF Agreement, TypeOK, EventsAgree
<1> QED
  BY <1>4, <1>5, <1>6, <1>7, <1>8, <1>9, <1>10 DEF Agreement
-----------------------------------------------------------------------------
(* A holder lets go: whom nobody holds any more was not registered.        *)
LEMMA RegisteredHeld ==
  ASSUME Agreement, NEW c \in Conns, Registered(c)
  PROVE  /\ ownloop_[c] \in Loops /\ fd_[c] \in Fds
         /\ channels_[ownloop_[c]][fd_[c]] = c
         /\ httpdatas_[ownloop_[c]][fd_[c]] = c
<1>1. c \in alive
  BY DEF Registered
<1>2. ownloop_[c] \in Loops /\ fd_[c] \in Fds
  BY <1>1 DEF Agreement, TypeOK, AliveAgrees
<1> QED
  BY <1>2 DEF Agreement, MapsAgree

LEMMA LetGo ==
  ASSUME Agreement, Destroy(alive, http),
         UNCHANGED <<fd_, ownloop_, nodes, timer_, channels_, httpdatas_,
                     current>>,
         \A c \in Conns : Held(c)' => Held(c),
         \A c \in Conns : Entering(c) => Held(c)',
         \A c \in Conns : Entering(c)' <=> Entering(c)
  PROVE  /\ alive' \in SUBSET Conns /\ http' \in [Conns -> Https]
         /\ \A c \in Conns : Registered(c)' <=> Registered(c)
         /\ OneTimer' /\ TimersAgree'
         /\ AliveAgrees' /\ StatesAgree' /\ MapsAgree'
<1>1. /\ alive' = {c \in alive : Held(c)'} /\ alive \subseteq Conns
      /\ http' = [c \in Conns |-> IF c \in alive' THEN http[c] ELSE FreshHttp]
      /\ http \in [Conns -> Https]
  BY DEF Destroy, Agreement, TypeOK
<1>2. alive' \in SUBSET Conns /\ http' \in [Conns -> Https]
  BY <1>1, FreshType
<1>3. ASSUME NEW c \in Conns PROVE Registered(c)' <=> Registered(c)
  <2>1. ASSUME Registered(c) PROVE c \in alive'
    <3>1. Held(c)'
      BY <2>1, RegisteredHeld DEF Held
    <3> QED
      BY <1>1, <2>1, <3>1 DEF Registered
  <2> QED
    BY <1>1, <2>1 DEF Registered, FreshHttp
<1>4. \A c \in Conns : Handled(c)' <=> Handled(c)
  BY DEF Handled
<1>5. OneTimer' /\ TimersAgree'
  BY <1>3, <1>4 DEF Agreement, OneTimer, TimersAgree
<1>6. AliveAgrees'
  <2>1. \A c \in Conns : c \in alive' <=> Held(c)'
    BY <1>1 DEF Agreement, AliveAgrees
  <2> QED
    BY <1>1, <2>1 DEF Agreement, AliveAgrees
<1>7. StatesAgree'
  BY <1>1, <1>3 DEF Agreement, StatesAgree
<1>8. MapsAgree'
  BY <1>3 DEF Agreement, MapsAgree
<1> QED
  BY <1>2, <1>3, <1>5, <1>6, <1>7, <1>8

LEMMA DropLocalAgrees == ASSUME Agreement, DropLocal PROVE Agreement'
<1>1. /\ UNCHANGED <<fd_, ownloop_, timer_, nodes, revents_, channels_>>
      /\ UNCHANGED <<httpdatas_, pc, current, quiet, failed>>
      /\ UNCHANGED <<pendingFunctors_, functors, todo>>
      /\ accPc = "release" /\ accPc' = "accept" /\ newHttpConn' = None
      /\ Destroy(alive, http)
  BY DEF DropLocal, timerVars, pollerVars, loopVars, queueVars
<1>2. \A c \in Conns : Held(c)' => Held(c)
  BY <1>1, ConnAssumption DEF Held
<1>3. \A c \in Conns : /\ Entering(c) => Held(c)'
                       /\ Entering(c)' <=> Entering(c)
  BY <1>1 DEF Entering, Held, Agreement, QueuesAgree
<1>4. /\ alive' \in SUBSET Conns /\ http' \in [Conns -> Https]
      /\ \A c \in Conns : Registered(c)' <=> Registered(c)
      /\ OneTimer' /\ TimersAgree'
      /\ AliveAgrees' /\ StatesAgree' /\ MapsAgree'
  BY <1>1, <1>2, <1>3, LetGo
<1>5. TypeOK' /\ NothingFails'
  BY <1>1, <1>4 DEF Agreement, TypeOK, NothingFails
<1>6. QueuesAgree'
  BY <1>1 DEF Agreement, QueuesAgree
<1>7. EventsAgree'
  BY <1>1, <1>4 DEF Agreement, EventsAgree
<1> QED
  BY <1>4, <1>5, <1>6, <1>7 DEF Agreement

LEMMA FunctorsDoneAgrees ==
  ASSUME Agreement, NEW l \in Loops, FunctorsDone(l) PROVE Agreement'
<1>1. /\ UNCHANGED <<fd_, ownloop_, accPc, newHttpConn, timer_, nodes>>
      /\ UNCHANGED <<revents_, channels_, httpdatas_, current, quiet, failed>>
      /\ UNCHANGED <<pendingFunctors_, todo>>
      /\ pc[l] = "functors" /\ pc' = [pc EXCEPT ![l] = "expire"]
      /\ todo[l] = {} /\ functors' = [functors EXCEPT ![l] = {}]
      /\ Destroy(alive, http)
  BY DEF FunctorsDone, accVars, timerVars, pollerVars
<1>2. \A c \in Conns : Held(c)' => Held(c)
  BY <1>1 DEF Held, Agreement, TypeOK
<1>3. \A c \in Conns : /\ Entering(c) => Held(c)'
                       /\ Entering(c)' <=> Entering(c)
  BY <1>1 DEF Entering, Held, Agreement, TypeOK, QueuesAgree
<1>4. /\ alive' \in SUBSET Conns /\ http' \in [Conns -> Https]
      /\ \A c \in Conns : Registered(c)' <=> Registered(c)
      /\ OneTimer' /\ TimersAgree'
      /\ AliveAgrees' /\ StatesAgree' /\ MapsAgree'
  BY <1>1, <1>2, <1>3, LetGo
<1>5. TypeOK' /\ NothingFails'
  BY <1>1, <1>4 DEF Agreement, TypeOK, NothingFails
<1>6. QueuesAgree'
  BY <1>1 DEF Agreement, TypeOK, QueuesAgree
<1>7. EventsAgree'
  BY <1>1, <1>4 DEF Agreement, TypeOK, EventsAgree
<1> QED
  BY <1>4, <1>5, <1>6, <1>7 DEF Agreement

LEMMA AcceptNewAgrees ==
  ASSUME Agreement, NEW c \in Conns, NEW f \in Fds, NEW l \in Loops,
         AcceptNew(c, f, l)
  PROVE  Agreement'
<1>1. /\ UNCHANGED <<http, timer_, nodes, revents_, channels_, httpdatas_>>
      /\ UNCHANGED <<pc, current, pendingFunctors_, functors, todo>>
      /\ UNCHANGED <<quiet, failed>>
      /\ accPc = "accept" /\ accPc' = "queue"
      /\ fd_[c] = None /\ f \notin Open /\ fd_' = [fd_ EXCEPT ![c] = f]
      /\ ownloop_' = [ownloop_ EXCEPT ![c] = l]
      /\ newHttpConn' = c /\ alive' = alive \cup {c}
  BY DEF AcceptNew, timerVars, pollerVars, loopVars, queueVars
<1>2. /\ c \notin alive /\ ~Held(c) /\ http[c] = FreshHttp
      /\ newHttpConn = None
  BY <1>1 DEF Agreement, AliveAgrees, QueuesAgree
<1>3. \A d \in Conns : /\ Registered(d)' <=> Registered(d)
                       /\ Handled(d)' <=> Handled(d)
                       /\ Held(d)' <=> Held(d) \/ d = c
                       /\ Entering(d)' <=> Entering(d) \/ d = c
  BY <1>1, <1>2, ConnAssumption
     DEF Registered, Handled, Held, Entering, FreshHttp
<1>4. TypeOK' /\ NothingFails'
  BY <1>1 DEF Agreement, TypeOK, NothingFails
<1>5. OneTimer' /\ TimersAgree'
  BY <1>1, <1>3 DEF Agreement, OneTimer, TimersAgree
<1>6. AliveAgrees'
  <2>1. f # None /\ l # None /\ \A d \in alive : fd_[d] # f
    BY <1>1, ConnAssumption DEF Open
  <2> QED
    BY <1>1, <1>2, <1>3, <2>1 DEF Agreement, TypeOK, AliveAgrees
<1>7. QueuesAgree'
  BY <1>1, <1>2, ConnAssumption DEF Agreement, TypeOK, QueuesAgree, Held
<1>8. StatesAgree'
  BY <1>1, <1>2, <1>3 DEF Agreement, TypeOK, StatesAgree
<1>11. ~Registered(c)
  BY <1>2 DEF Registered
<1>9. MapsAgree'
  BY <1>1, <1>3, <1>11 DEF Agreement, TypeOK, MapsAgree
<1>10. EventsAgree'
  BY <1>1, <1>3, <1>11 DEF Agreement, TypeOK, EventsAgree
<1> QED
  BY <1>4, <1>5, <1>6, <1>7, <1>8, <1>9, <1>10 DEF Agreement
-----------------------------------------------------------------------------
(* Where the registered connections are, and where they are not.           *)
LEMMA RegisteredState ==
  ASSUME Agreement, NEW c \in Conns, Registered(c)
  PROVE  /\ c \in alive /\ Held(c) /\ ~Entering(c)
         /\ http[c] \in Https /\ http[c].interest # {}
         /\ http[c].connectionState_ = "H_CONNECTED"
<1>1. c \in alive /\ http[c].interest # {}
  BY DEF Registered
<1>2. Held(c) /\ http[c] \in Https
  BY <1>1 DEF Agreement, TypeOK, AliveAgrees
<1>3. ~Entering(c)
  BY <1>1 DEF Agreement, StatesAgree, FreshHttp
<1> QED
  BY <1>1, <1>2, <1>3 DEF Agreement, StatesAgree

LEMMA PollReturnsAgrees ==
  ASSUME Agreement, NEW l \in Loops, NEW reported \in SUBSET Reportable(l),
         NEW signal \in [reported -> SUBSET {"IN", "OUT", "HUP", "ERR"}],
         PollReturns(l, reported, signal)
  PROVE  Agreement'
<1>1. /\ UNCHANGED <<fd_, ownloop_, accPc, newHttpConn, timer_, nodes>>
      /\ UNCHANGED <<channels_, httpdatas_, current, pendingFunctors_>>
      /\ UNCHANGED <<functors, todo, alive, quiet>>
      /\ pc[l] = "poll" /\ pc' = [pc EXCEPT ![l] = "events"]
      /\ revents_' = [c \in Conns |-> IF c \in reported THEN signal[c]
                                      ELSE revents_[c]]
      /\ http' = [c \in Conns |->
                    IF c \in reported /\ "ONESHOT" \in http[c].interest
                    THEN [http[c] EXCEPT !.interest = Disabled] ELSE http[c]]
      /\ Check("fillActiveChannels",
               \A c \in reported : channels_[l][fd_[c]] = c)
  BY DEF PollReturns, accVars, timerVars, pollerVars, queueVars
<1>2. ASSUME NEW c \in reported
      PROVE  c \in Conns /\ Registered(c) /\ ownloop_[c] = l
  BY DEF Reportable, Registered, Agreement, TypeOK
<1>3. /\ http' \in [Conns -> Https]
      /\ \A c \in Conns : /\ c \notin reported => http'[c] = http[c]
                          /\ http'[c].interest = {} <=> http[c].interest = {}
                          /\ http'[c].connectionState_
                               = http[c].connectionState_
  <2>1. ASSUME NEW c \in Conns
        PROVE  LET h == [http[c] EXCEPT !.interest = Disabled]
               IN  /\ h \in Https /\ h.interest # {}
                   /\ h.connectionState_ = http[c].connectionState_
    <3>1. http[c] \in Https
      BY DEF Agreement, TypeOK
    <3> QED
      BY <3>1 DEF Https, Disabled
  <2>2. http \in [Conns -> Https]
    BY DEF Agreement, TypeOK
  <2>3. ASSUME NEW c \in reported, "ONESHOT" \in http[c].interest
        PROVE  http[c].interest # {}
    BY <2>3
  <2> QED
    BY <1>1, <2>1, <2>2, <2>3
<1>4. \A d \in Conns : Held(d)' <=> Held(d)
  BY <1>1, SameHolders
<1>5. \A d \in Conns : /\ Registered(d)' <=> Registered(d)
                       /\ Handled(d)' <=> Handled(d)
                       /\ Entering(d)' <=> Entering(d)
  BY <1>1, <1>3 DEF Registered, Handled, Entering
<1>6. NothingFails'
  <2>1. \A c \in reported : channels_[l][fd_[c]] = c
    BY <1>2, RegisteredHeld
  <2> QED
    BY <1>1, <2>1 DEF Check, Agreement, NothingFails
<1>7. TypeOK'
  <2>1. revents_' \in [Conns -> SUBSET {"IN", "OUT", "HUP", "ERR"}]
    BY <1>1 DEF Agreement, TypeOK
  <2>2. pc' \in [Loops -> {"poll", "events", "conn", "functors", "expire"}]
    BY <1>1 DEF Agreement, TypeOK
  <2> QED
    BY <1>1, <1>3, <1>6, <2>1, <2>2 DEF Agreement, TypeOK, NothingFails
<1>8. OneTimer' /\ TimersAgree'
  BY <1>1, <1>5 DEF Agreement, OneTimer, TimersAgree
<1>9. AliveAgrees'
  BY <1>1, <1>2, <1>3, <1>4 DEF Agreement, AliveAgrees, Registered
<1>10. QueuesAgree'
  BY <1>1 DEF Agreement, TypeOK, QueuesAgree
<1>11. StatesAgree'
  <2> SUFFICES ASSUME NEW d \in alive
               PROVE  IF Entering(d)' THEN http'[d] = FreshHttp
                      ELSE http'[d].connectionState_ =
                             IF Registered(d)' THEN "H_CONNECTED"
                             ELSE "H_DISCONNECTED"
    BY <1>1 DEF StatesAgree
  <2>1. d \in Conns
    BY DEF Agreement, TypeOK
  <2>2. Entering(d) => d \notin reported
    BY <1>2, RegisteredState
  <2> QED
    BY <1>3, <1>5, <2>1, <2>2 DEF Agreement, StatesAgree
<1>12. MapsAgree'
  BY <1>1, <1>5 DEF Agreement, MapsAgree
<1>13. EventsAgree'
  <2>1. ASSUME NEW d \in Conns, revents_'[d] # {}
        PROVE  Registered(d)' /\ pc'[ownloop_'[d]] \in {"events", "conn"}
    <3>1. CASE d \in reported
      BY <1>1, <1>2, <1>5, <3>1 DEF Agreement, TypeOK
    <3>2. CASE d \notin reported
      <4>1. Registered(d) /\ pc[ownloop_[d]] \in {"events", "conn"}
        BY <1>1, <2>1, <3>2 DEF Agreement, EventsAgree
      <4> QED
        BY <1>1, <1>5, <4>1 DEF Agreement, TypeOK
    <3> QED
      BY <3>1, <3>2
  <2>2. ASSUME NEW k \in Loops
        PROVE  current'[k] = None <=> pc'[k] # "conn"
    BY <1>1 DEF Agreement, TypeOK, EventsAgree
  <2>3. ASSUME NEW k \in Loops, NEW d \in Conns, current'[k] = d
        PROVE  ownloop_'[d] = k /\ Registered(d)' /\ revents_'[d] = {}
    <3>1. /\ ownloop_[d] = k /\ Registered(d) /\ revents_[d] = {}
          /\ pc[k] = "conn"
      BY <1>1, <2>3, ConnAssumption DEF Agreement, EventsAgree
    <3>2. d \notin reported
      BY <1>1, <1>2, <3>1
    <3> QED
      BY <1>1, <1>5, <3>1, <3>2
  <2> QED
    BY <2>1, <2>2, <2>3 DEF EventsAgree
<1> QED
  BY <1>6, <1>7, <1>8, <1>9, <1>10, <1>11, <1>12, <1>13 DEF Agreement

(* seperaterTimer takes the only node, but the poller still holds c.       *)
LEMMA HandleReadAgrees ==
  ASSUME Agreement, NEW l \in Loops, NEW c \in Conns, HandleRead(l, c)
  PROVE  Agreement'
<1>1. PICK h \in Https :
        /\ SameSocket(h, http[c])
        /\ Destroy(alive, [http EXCEPT ![c] = h])
  <2>1. http[c] \in Https
    BY DEF Agreement, TypeOK
  <2> QED
    BY <2>1, TwiceSame, OutcomesSame DEF HandleRead, SameSocket
<1>2. /\ UNCHANGED <<fd_, ownloop_, accPc, newHttpConn, channels_>>
      /\ UNCHANGED <<httpdatas_, pendingFunctors_, functors, todo, quiet>>
      /\ pc[l] = "events" /\ revents_[c] # {} /\ ownloop_[c] = l
      /\ nodes' = [nodes EXCEPT ![c] = IF timer_[c] THEN @ - 1 ELSE @]
      /\ timer_' = [timer_ EXCEPT ![c] = FALSE]
      /\ revents_' = [revents_ EXCEPT ![c] = {}]
      /\ current' = [current EXCEPT ![l] = c]
      /\ pc' = [pc EXCEPT ![l] = "conn"]
      /\ Check("handleRead", c \in alive)
  BY DEF HandleRead, Active, SeperaterTimer, accVars, pollerVars, queueVars
<1>3. Registered(c)
  BY <1>2 DEF Agreement, EventsAgree
<1>4. /\ c \in alive /\ ~Entering(c) /\ fd_[c] \in Fds
      /\ httpdatas_[l][fd_[c]] = c
      /\ http[c].connectionState_ = "H_CONNECTED" /\ http[c].interest # {}
  BY <1>2, <1>3, RegisteredState, RegisteredHeld
<1>5. ~Handled(c) /\ nodes[c] = 1 /\ timer_[c] /\ current[l] = None
  BY <1>2, <1>3 DEF Agreement, EventsAgree, OneTimer, TimersAgree, Handled
<1>6. nodes' = [nodes EXCEPT ![c] = 0]
  BY <1>2, <1>5
<1>7. \A d \in Conns : Held(d)' <=> Held(d)
  <2>1. ASSUME NEW d \in Conns, d # c PROVE Held(d)' <=> Held(d)
    BY <1>2, <1>6, <2>1 DEF Held, Agreement, TypeOK
  <2>2. Held(c)' /\ Held(c)
    BY <1>2, <1>4 DEF Held
  <2> QED
    BY <2>1, <2>2
<1>8. alive' = alive /\ http' = [http EXCEPT ![c] = h]
  <2>1. alive' = {d \in alive : Held(d)'}
    BY <1>1 DEF Destroy
  <2>2. alive' = alive
    BY <1>7, <2>1 DEF Agreement, AliveAgrees, TypeOK
  <2>3. http' = [d \in Conns |-> IF d \in alive'
                                 THEN [http EXCEPT ![c] = h][d]
                                 ELSE FreshHttp]
    BY <1>1 DEF Destroy
  <2>4. \A d \in Conns : http'[d] = [http EXCEPT ![c] = h][d]
    BY <1>4, <2>2, <2>3 DEF Agreement, TypeOK, AliveAgrees
  <2> QED
    BY <2>2, <2>3, <2>4 DEF Agreement, TypeOK
<1>9. \A d \in Conns : /\ Registered(d)' <=> Registered(d)
                       /\ Handled(d)' <=> Handled(d) \/ d = c
                       /\ Entering(d)' <=> Entering(d)
  BY <1>1, <1>2, <1>5, <1>8, ConnAssumption
     DEF Registered, Handled, Entering, SameSocket, Agreement, TypeOK
<1>10. TypeOK' /\ NothingFails'
  <2>1. failed' = {}
    BY <1>2, <1>4 DEF Check, Agreement, NothingFails
  <2>2. nodes' \in [Conns -> Nat] /\ http' \in [Conns -> Https]
    BY <1>6, <1>8 DEF Agreement, TypeOK
  <2>3. timer_' \in [Conns -> BOOLEAN]
    BY <1>2, Zenon DEF Agreement, TypeOK
  <2>4. revents_' \in [Conns -> SUBSET {"IN", "OUT", "HUP", "ERR"}]
    BY <1>2 DEF Agreement, TypeOK
  <2>5. current' \in [Loops -> Conns \cup {None}]
    BY <1>2 DEF Agreement, TypeOK
  <2> QED
    BY <1>2, <1>8, <2>1, <2>2, <2>3, <2>4, <2>5 DEF Agreement, TypeOK,
       NothingFails
<1>11. OneTimer' /\ TimersAgree'
  BY <1>2, <1>6, <1>9 DEF Agreement, TypeOK, OneTimer, TimersAgree
<1>12. AliveAgrees'
  BY <1>2, <1>4, <1>7, <1>8 DEF Agreement, AliveAgrees
<1>13. QueuesAgree'
  BY <1>2 DEF Agreement, TypeOK, QueuesAgree
<1>14. StatesAgree'
  <2> SUFFICES ASSUME NEW d \in alive
               PROVE  IF Entering(d)' THEN http'[d] = FreshHttp
                      ELSE http'[d].connectionState_ =
                             IF Registered(d)' THEN "H_CONNECTED"
                             ELSE "H_DISCONNECTED"
    BY <1>8 DEF StatesAgree
  <2>1. d \in Conns
    BY DEF Agreement, TypeOK
  <2> QED
    BY <1>1, <1>4, <1>8, <1>9, <2>1 DEF Agreement, TypeOK, StatesAgree,
       SameSocket
<1>15. MapsAgree'
  BY <1>2, <1>9 DEF Agreement, MapsAgree
<1>16. EventsAgree'
  BY <1>2, <1>3, <1>5, <1>9, ConnAssumption DEF Agreement, TypeOK, EventsAgree
<1> QED
  BY <1>10, <1>11, <1>12, <1>13, <1>14, <1>15, <1>16 DEF Agreement
-----------------------------------------------------------------------------
(* A registered connection is closed: all but EventsAgree, which the two   *)
(* callers of handleClose keep in ways of their own.                       *)
LEMMA HandleCloseKeeps ==
  ASSUME Agreement, NEW l \in Loops, NEW c \in Conns, HandleClose(l, c),
         Registered(c), ownloop_[c] = l,
         UNCHANGED <<fd_, ownloop_, accPc, newHttpConn, revents_, quiet>>,
         UNCHANGED <<pendingFunctors_, functors, todo>>,
         nodes' = [nodes EXCEPT ![c] = 0],
         timer_' = [timer_ EXCEPT ![c] = FALSE],
         \A d \in Conns : d # c => (Handled(d)' <=> Handled(d)),
         current' \in [Loops -> Conns \cup {None}],
         pc' \in [Loops -> {"poll", "events", "conn", "functors", "expire"}],
         \A k \in Loops : pc'[k] # "functors" => pc[k] # "functors"
  PROVE  /\ TypeOK' /\ NothingFails' /\ OneTimer' /\ TimersAgree'
         /\ AliveAgrees' /\ QueuesAgree' /\ StatesAgree' /\ MapsAgree'
         /\ \A d \in Conns : Registered(d)' <=> Registered(d) /\ d # c
<1> DEFINE fields == [http EXCEPT ![c].connectionState_ = "H_DISCONNECTED",
                                  ![c].interest = {}]
<1>1. /\ Check("EPOLL_CTL_DEL", Registered(c)) /\ Destroy(alive, fields)
      /\ channels_' = [channels_ EXCEPT ![l][fd_[c]] = None]
      /\ httpdatas_' = [httpdatas_ EXCEPT ![l][fd_[c]] = None]
  BY DEF HandleClose, Erase
<1>2. /\ c \in alive /\ ~Entering(c) /\ fd_[c] \in Fds
      /\ httpdatas_[l][fd_[c]] = c /\ channels_[l][fd_[c]] = c
  BY RegisteredState, RegisteredHeld
<1>3. /\ fields \in [Conns -> Https]
      /\ \A d \in Conns : d # c => fields[d] = http[d]
      /\ fields[c].connectionState_ = "H_DISCONNECTED"
      /\ fields[c].interest = {}
  <2>1. http \in [Conns -> Https]
    BY DEF Agreement, TypeOK
  <2>2. LET h == [http[c] EXCEPT !.connectionState_ = "H_DISCONNECTED",
                                 !.interest = {}]
        IN  /\ h \in Https /\ h.interest = {}
            /\ h.connectionState_ = "H_DISCONNECTED"
    <3>1. http[c] \in Https
      BY <2>1
    <3> QED
      BY <3>1 DEF Https, Interests
  <2>3. fields = [http EXCEPT ![c] =
                    [http[c] EXCEPT !.connectionState_ = "H_DISCONNECTED",
                                    !.interest = {}]]
    BY <2>1
  <2> QED
    BY <2>1, <2>2, <2>3
<1> HIDE DEF fields
<1>4. /\ alive' = {d \in alive : Held(d)'} /\ alive' \subseteq alive
      /\ http' = [d \in Conns |->
                    IF d \in alive' THEN fields[d] ELSE FreshHttp]
      /\ alive \subseteq Conns
  BY <1>1 DEF Destroy, Agreement, TypeOK
<1>5. /\ \A d \in Conns : d # c => (Held(d)' <=> Held(d))
      /\ Held(c)' => Held(c)
  <2>1. Held(c)
    BY RegisteredState
  <2>2. ASSUME NEW d \in Conns, d # c PROVE Held(d)' <=> Held(d)
    BY <1>1, <1>2, <2>2, ConnAssumption DEF Held, Agreement, TypeOK
  <2> QED
    BY <2>1, <2>2
<1>6. \A d \in Conns : d # c => (d \in alive' <=> d \in alive)
  BY <1>4, <1>5 DEF Agreement, AliveAgrees
<1>7. \A d \in Conns : Registered(d)' <=> Registered(d) /\ d # c
  <2>1. ~Registered(c)'
    BY <1>3, <1>4 DEF Registered
  <2>2. ASSUME NEW d \in Conns, d # c PROVE Registered(d)' <=> Registered(d)
    BY <1>3, <1>4, <1>6, <2>2 DEF Registered
  <2> QED
    BY <2>1, <2>2
<1>8. \A d \in Conns : Entering(d)' <=> Entering(d)
  BY DEF Entering
<1>9. TypeOK' /\ NothingFails'
  <2>1. failed' = {}
    BY <1>1 DEF Check, Agreement, NothingFails
  <2>2. nodes' \in [Conns -> Nat] /\ http' \in [Conns -> Https]
    BY <1>3, <1>4, FreshType DEF Agreement, TypeOK
  <2>3. timer_' \in [Conns -> BOOLEAN]
    BY Zenon DEF Agreement, TypeOK
  <2>4. /\ channels_' \in [Loops -> [Fds -> Conns \cup {None}]]
        /\ httpdatas_' \in [Loops -> [Fds -> Conns \cup {None}]]
    BY <1>1 DEF Agreement, TypeOK
  <2> QED
    BY <1>4, <2>1, <2>2, <2>3, <2>4 DEF Agreement, TypeOK, NothingFails
<1>10. OneTimer' /\ TimersAgree'
  BY <1>7 DEF Agreement, TypeOK, OneTimer, TimersAgree
<1>11. AliveAgrees'
  <2>1. \A d \in Conns : d \in alive' <=> Held(d)'
    BY <1>4, <1>5 DEF Agreement, AliveAgrees
  <2>2. \A d \in Conns \ alive' : http'[d] = FreshHttp
    BY <1>4
  <2> QED
    BY <1>4, <2>1, <2>2 DEF Agreement, AliveAgrees
<1>12. QueuesAgree'
  BY DEF Agreement, QueuesAgree
<1>13. StatesAgree'
  <2> SUFFICES ASSUME NEW d \in alive'
               PROVE  IF Entering(d)' THEN http'[d] = FreshHttp
                      ELSE http'[d].connectionState_ =
                             IF Registered(d)' THEN "H_CONNECTED"
                             ELSE "H_DISCONNECTED"
    BY DEF StatesAgree
  <2>1. d \in Conns /\ d \in alive /\ http'[d] = fields[d]
    BY <1>4
  <2>2. CASE d = c
    BY <1>2, <1>3, <1>7, <1>8, <2>1, <2>2
  <2>3. CASE d # c
    BY <1>3, <1>7, <1>8, <2>1, <2>3 DEF Agreement, StatesAgree
  <2> QED
    BY <2>2, <2>3
<1>14. MapsAgree'
  <2>1. httpdatas_' = channels_'
    BY <1>1 DEF Agreement, MapsAgree
  <2>2. ASSUME NEW k \in Loops, NEW f \in Fds, NEW d \in Conns
        PROVE  channels_'[k][f] = d <=> /\ Registered(d)'
                                        /\ ownloop_[d] = k /\ fd_[d] = f
    <3>1. CASE k = l /\ f = fd_[c]
      <4>1. channels_'[k][f] = None /\ channels_[k][f] = c
        BY <1>1, <1>2, <3>1 DEF Agreement, TypeOK
      <4>2. ~(Registered(d) /\ ownloop_[d] = k /\ fd_[d] = f) \/ d = c
        BY <4>1 DEF Agreement, MapsAgree
      <4> QED
        BY <1>7, <4>1, <4>2, ConnAssumption
    <3>2. CASE ~ (k = l /\ f = fd_[c])
      <4>1. channels_'[k][f] = channels_[k][f]
        BY <1>1, <3>2 DEF Agreement, TypeOK
      <4> QED
        BY <1>7, <3>2, <4>1 DEF Agreement, MapsAgree
    <3> QED
      BY <3>1, <3>2
  <2> QED
    BY <2>1, <2>2 DEF MapsAgree
<1> QED
  BY <1>7, <1>9, <1>10, <1>11, <1>12, <1>13, <1>14

LEMMA ExpireNodeAgrees ==
  ASSUME Agreement, NEW l \in Loops, NEW c \in Conns, ExpireNode(l, c)
  PROVE  Agreement'
<1>1. /\ UNCHANGED <<fd_, ownloop_, accPc, newHttpConn, revents_, quiet>>
      /\ UNCHANGED <<pendingFunctors_, functors, todo, pc, current>>
      /\ pc[l] = "expire" /\ ownloop_[c] = l /\ nodes[c] > 0
      /\ nodes' = [nodes EXCEPT ![c] = @ - 1]
      /\ timer_' = [timer_ EXCEPT ![c] = @ /\ nodes[c] > 1]
      /\ HandleClose(l, c)
  BY DEF ExpireNode, accVars, loopVars, queueVars
<1>2. Registered(c) /\ ~Handled(c) /\ nodes[c] = 1
  BY <1>1 DEF Agreement, OneTimer
<1>3. /\ nodes' = [nodes EXCEPT ![c] = 0]
      /\ timer_' = [timer_ EXCEPT ![c] = FALSE]
  <2>1. nodes' = [nodes EXCEPT ![c] = 0]
    BY <1>1, <1>2
  <2>2. (timer_[c] /\ nodes[c] > 1) = FALSE
    <3>1. ~ (nodes[c] > 1)
      BY <1>2
    <3> QED
      BY <3>1, Zenon
  <2>3. timer_' = [timer_ EXCEPT ![c] = timer_[c] /\ nodes[c] > 1]
    BY <1>1
  <2> QED
    BY <2>1, <2>2, <2>3, Zenon
<1>4. \A d \in Conns : Handled(d)' <=> Handled(d)
  BY <1>1 DEF Handled
<1>5. /\ TypeOK' /\ NothingFails' /\ OneTimer' /\ TimersAgree'
      /\ AliveAgrees' /\ QueuesAgree' /\ StatesAgree' /\ MapsAgree'
      /\ \A d \in Conns : Registered(d)' <=> Registered(d) /\ d # c
  <2>1. /\ current' \in [Loops -> Conns \cup {None}]
        /\ pc' \in [Loops -> {"poll", "events", "conn", "functors", "expire"}]
    BY <1>1 DEF Agreement, TypeOK
  <2> QED
    BY <1>1, <1>2, <1>3, <1>4, <2>1, HandleCloseKeeps
<1>6. EventsAgree'
  <2>1. revents_[c] = {}
    BY <1>1 DEF Agreement, EventsAgree
  <2>2. \A k \in Loops : current[k] # c
    BY <1>2 DEF Handled
  <2> QED
    BY <1>1, <1>5, <2>1, <2>2 DEF Agreement, EventsAgree
<1> QED
  BY <1>5, <1>6 DEF Agreement

(* Arming the channel, the first time or again: c gets its node back.      *)
LEMMA ArmKeeps ==
  ASSUME Agreement, NEW l \in Loops, NEW c \in Conns,
         NEW e \in Interests, e # {},
         c \in alive, ownloop_[c] = l, AddTimer(c), Insert(l, c),
         http[c].connectionState_ = "H_CONNECTED", nodes[c] = 0,
         http' = [http EXCEPT ![c].events_ = e, ![c].interest = e],
         UNCHANGED <<fd_, ownloop_, accPc, newHttpConn, alive, functors>>,
         UNCHANGED pendingFunctors_, ~Entering(c)',
         \A d \in Conns : /\ d # c => (Entering(d)' <=> Entering(d))
                          /\ Handled(d)' <=> Handled(d) /\ d # c
  PROVE  /\ http' \in [Conns -> Https] /\ nodes' \in [Conns -> Nat]
         /\ timer_' \in [Conns -> BOOLEAN]
         /\ channels_' \in [Loops -> [Fds -> Conns \cup {None}]]
         /\ httpdatas_' \in [Loops -> [Fds -> Conns \cup {None}]]
         /\ OneTimer' /\ TimersAgree'
         /\ AliveAgrees' /\ StatesAgree' /\ MapsAgree'
         /\ \A d \in Conns : Registered(d)' <=> Registered(d) \/ d = c
<1>1. /\ nodes' = [nodes EXCEPT ![c] = 1]
      /\ timer_' = [timer_ EXCEPT ![c] = TRUE]
      /\ channels_' = [channels_ EXCEPT ![l][fd_[c]] = c]
      /\ httpdatas_' = [httpdatas_ EXCEPT ![l][fd_[c]] = c]
  BY DEF AddTimer, Insert, Agreement, TypeOK
<1>2. fd_[c] \in Fds
  BY DEF Agreement, TypeOK, AliveAgrees
<1>3. /\ http' \in [Conns -> Https]
      /\ \A d \in Conns : d # c => http'[d] = http[d]
      /\ http'[c].connectionState_ = "H_CONNECTED" /\ http'[c].interest = e
  <2>1. http \in [Conns -> Https]
    BY DEF Agreement, TypeOK
  <2>2. LET h == [http[c] EXCEPT !.events_ = e, !.interest = e]
        IN  /\ h \in Https /\ h.interest = e
            /\ h.connectionState_ = http[c].connectionState_
    <3>1. http[c] \in Https
      BY <2>1
    <3> QED
      BY <3>1 DEF Https
  <2>3. http' = [http EXCEPT ![c] = [http[c] EXCEPT !.events_ = e,
                                                    !.interest = e]]
    BY <2>1
  <2> QED
    BY <2>1, <2>2, <2>3
<1>4. \A d \in Conns : Registered(d)' <=> Registered(d) \/ d = c
  BY <1>3 DEF Registered
<1>5. /\ nodes' \in [Conns -> Nat]
      /\ channels_' \in [Loops -> [Fds -> Conns \cup {None}]]
      /\ httpdatas_' \in [Loops -> [Fds -> Conns \cup {None}]]
  BY <1>1, <1>2 DEF Agreement, TypeOK
<1>6. timer_' \in [Conns -> BOOLEAN]
  BY <1>1, Zenon DEF Agreement, TypeOK
<1>7. OneTimer' /\ TimersAgree'
  BY <1>1, <1>4 DEF Agreement, TypeOK, OneTimer, TimersAgree
<1>8. MapsAgree'
  <2>1. httpdatas_' = channels_'
    BY <1>1 DEF Agreement, MapsAgree
  <2>2. ASSUME NEW k \in Loops, NEW f \in Fds, NEW d \in Conns
        PROVE  channels_'[k][f] = d <=> /\ Registered(d)'
                                        /\ ownloop_[d] = k /\ fd_[d] = f
    <3>1. CASE k = l /\ f = fd_[c]
      <4>1. channels_'[k][f] = c
        BY <1>1, <1>2, <3>1 DEF Agreement, TypeOK
      <4>2. Registered(d) /\ fd_[d] = f => d = c
        BY <3>1 DEF Agreement, AliveAgrees, Registered
      <4> QED
        BY <1>4, <3>1, <4>1, <4>2
    <3>2. CASE ~ (k = l /\ f = fd_[c])
      <4>1. channels_'[k][f] = channels_[k][f]
        BY <1>1, <3>2 DEF Agreement, TypeOK
      <4> QED
        BY <1>4, <3>2, <4>1 DEF Agreement, MapsAgree
    <3> QED
      BY <3>1, <3>2
  <2> QED
    BY <2>1, <2>2 DEF MapsAgree
<1>9. AliveAgrees'
  <2>1. Held(c) /\ Held(c)'
    <3>1. nodes'[c] > 0
      BY <1>1 DEF Agreement, TypeOK
    <3> QED
      BY <3>1 DEF Held, Agreement, AliveAgrees
  <2>2. ASSUME NEW d \in Conns, d # c PROVE Held(d)' <=> Held(d)
    <3>1. nodes'[d] = nodes[d]
      BY <1>1, <2>2 DEF Agreement, TypeOK
    <3>2. (\E k \in Loops, f \in Fds : httpdatas_'[k][f] = d)
            <=> \E k \in Loops, f \in Fds : httpdatas_[k][f] = d
      <4>1. \A x \in Conns, k \in Loops, f \in Fds :
              x # c => (httpdatas_'[k][f] = x <=> httpdatas_[k][f] = x)
        BY <1>4, <1>8 DEF Agreement, MapsAgree
      <4> QED
        BY <2>2, <4>1
    <3> QED
      BY <3>1, <3>2 DEF Held
  <2> QED
    BY <1>3, <2>1, <2>2 DEF Agreement, AliveAgrees
<1>10. StatesAgree'
  <2> SUFFICES ASSUME NEW d \in alive
               PROVE  IF Entering(d)' THEN http'[d] = FreshHttp
                      ELSE http'[d].connectionState_ =
                             IF Registered(d)' THEN "H_CONNECTED"
                             ELSE "H_DISCONNECTED"
    BY DEF StatesAgree
  <2>1. d \in Conns
    BY DEF Agreement, TypeOK
  <2>2. CASE d = c
    BY <1>3, <1>4, <2>1, <2>2
  <2>3. CASE d # c
    BY <1>3, <1>4, <2>1, <2>3 DEF Agreement, StatesAgree
  <2> QED
    BY <2>2, <2>3
<1> QED
  BY <1>3, <1>4, <1>5, <1>6, <1>7, <1>8, <1>9, <1>10

LEMMA HandleConnAgrees ==
  ASSUME Agreement, NEW l \in Loops, HandleConn(l)
  PROVE  Agreement'
<1> DEFINE c == current[l]
<1>1. /\ UNCHANGED <<fd_, ownloop_, accPc, newHttpConn, revents_, quiet>>
      /\ UNCHANGED <<pendingFunctors_, functors, todo>>
      /\ pc[l] = "conn" /\ pc' = [pc EXCEPT ![l] = "events"]
      /\ current' = [current EXCEPT ![l] = None]
      /\ \/ /\ http[c].connectionState_ = "H_CONNECTED"
            /\ Rearm(l, c)
         \/ UNCHANGED timerVars /\ HandleClose(l, c)
  BY DEF HandleConn, accVars, queueVars
<1>2. c \in Conns /\ c # None
  BY <1>1, ConnAssumption DEF Agreement, TypeOK, EventsAgree
<1>3. Registered(c) /\ ownloop_[c] = l /\ revents_[c] = {}
  BY <1>2 DEF Agreement, EventsAgree
<1> HIDE DEF c
<1>4. /\ current' \in [Loops -> Conns \cup {None}]
      /\ pc' \in [Loops -> {"poll", "events", "conn", "functors", "expire"}]
  BY <1>1 DEF Agreement, TypeOK
<1>5. \A d \in Conns : Handled(d)' <=> Handled(d) /\ d # c
  <2>1. ASSUME NEW k \in Loops, k # l PROVE current[k] # c
    BY <1>2, <1>3, <2>1 DEF Agreement, EventsAgree
  <2>2. \A k \in Loops : current'[k] = IF k = l THEN None ELSE current[k]
    BY <1>1 DEF Agreement, TypeOK
  <2> QED
    BY <2>1, <2>2, ConnAssumption DEF Handled, c
<1>6. nodes[c] = 0 /\ timer_[c] = FALSE
  <2>1. Handled(c)
    BY DEF Handled, c
  <2>2. nodes[c] = 0
    BY <1>2, <2>1 DEF Agreement, OneTimer
  <2>3. timer_[c] \in BOOLEAN /\ ~timer_[c]
    BY <1>2, <2>2 DEF Agreement, TypeOK, TimersAgree
  <2> QED
    BY <2>2, <2>3
<1>7. \A k \in Loops : /\ k # l => pc'[k] = pc[k] /\ current'[k] = current[k]
                       /\ pc'[l] = "events" /\ current'[l] = None
  BY <1>1 DEF Agreement, TypeOK
<1>8. ASSUME \A d \in Conns : d # c => (Registered(d)' <=> Registered(d))
      PROVE  EventsAgree'
  <2>1. ASSUME NEW d \in Conns, revents_[d] # {}
        PROVE  Registered(d)' /\ pc'[ownloop_[d]] \in {"events", "conn"}
    <3>1. /\ d # c /\ Registered(d) /\ ownloop_[d] \in Loops
          /\ pc[ownloop_[d]] \in {"events", "conn"}
      BY <1>3, <2>1, RegisteredHeld DEF Agreement, EventsAgree
    <3> QED
      BY <1>7, <1>8, <3>1
  <2>2. ASSUME NEW k \in Loops PROVE current'[k] = None <=> pc'[k] # "conn"
    BY <1>7 DEF Agreement, EventsAgree
  <2>3. ASSUME NEW k \in Loops, NEW d \in Conns, current'[k] = d
        PROVE  ownloop_[d] = k /\ Registered(d)' /\ revents_[d] = {}
    <3>1. k # l /\ current[k] = d
      BY <1>7, <2>3, ConnAssumption
    <3>2. ownloop_[d] = k /\ Registered(d) /\ revents_[d] = {}
      BY <3>1 DEF Agreement, EventsAgree
    <3> QED
      BY <1>3, <1>8, <3>1, <3>2
  <2> QED
    BY <1>1, <2>1, <2>2, <2>3 DEF EventsAgree
<1>9. CASE http[c].connectionState_ = "H_CONNECTED" /\ Rearm(l, c)
  <2> DEFINE e == Rearmed(http[c].events_)
  <2>1. e \in Interests /\ e # {}
    <3>1. http[c].events_ \in Interests
      BY <1>2 DEF Agreement, TypeOK, Https
    <3> QED
      BY <3>1 DEF Rearmed, Interests
  <2>2. /\ AddTimer(c) /\ Insert(l, c)
        /\ http' = [http EXCEPT ![c].events_ = e, ![c].interest = e]
        /\ UNCHANGED alive /\ Check("EPOLL_CTL_MOD", Registered(c))
    BY <1>9 DEF Rearm
  <2> HIDE DEF e
  <2>3. c \in alive /\ ~Entering(c)
    BY <1>2, <1>3, RegisteredState
  <2>4. \A d \in Conns : Entering(d)' <=> Entering(d)
    BY <1>1 DEF Entering
  <2>5. /\ http' \in [Conns -> Https] /\ nodes' \in [Conns -> Nat]
        /\ timer_' \in [Conns -> BOOLEAN]
        /\ channels_' \in [Loops -> [Fds -> Conns \cup {None}]]
        /\ httpdatas_' \in [Loops -> [Fds -> Conns \cup {None}]]
        /\ OneTimer' /\ TimersAgree'
        /\ AliveAgrees' /\ StatesAgree' /\ MapsAgree'
        /\ \A d \in Conns : Registered(d)' <=> Registered(d) \/ d = c
    BY <1>1, <1>2, <1>3, <1>5, <1>6, <1>9, <2>1, <2>2, <2>3, <2>4, ArmKeeps
  <2>6. failed' = {}
    BY <1>3, <2>2 DEF Check, Agreement, NothingFails
  <2>7. TypeOK' /\ NothingFails'
    BY <1>1, <1>4, <2>2, <2>5, <2>6 DEF Agreement, TypeOK, NothingFails
  <2>8. QueuesAgree'
    BY <1>1, <1>7 DEF Agreement, QueuesAgree
  <2>9. EventsAgree'
    BY <1>8, <2>5
  <2> QED
    BY <2>5, <2>7, <2>8, <2>9 DEF Agreement
<1>10. CASE UNCHANGED timerVars /\ HandleClose(l, c)
  <2>1. /\ nodes' = [nodes EXCEPT ![c] = 0]
        /\ timer_' = [timer_ EXCEPT ![c] = FALSE]
    <3>1. nodes \in [Conns -> Nat] /\ timer_ \in [Conns -> BOOLEAN]
      BY DEF Agreement, TypeOK
    <3>2. [nodes EXCEPT ![c] = 0] = nodes
      BY <1>6, <3>1
    <3>3. [timer_ EXCEPT ![c] = FALSE] = timer_
      BY <1>6, <3>1
    <3> QED
      BY <1>10, <3>2, <3>3 DEF timerVars
  <2>2. \A k \in Loops : pc'[k] # "functors" => pc[k] # "functors"
    BY <1>1, <1>7
  <2>3. /\ TypeOK' /\ NothingFails' /\ OneTimer' /\ TimersAgree'
        /\ AliveAgrees' /\ QueuesAgree' /\ StatesAgree' /\ MapsAgree'
        /\ \A d \in Conns : Registered(d)' <=> Registered(d) /\ d # c
    BY <1>1, <1>2, <1>3, <1>4, <1>5, <1>10, <2>1, <2>2, HandleCloseKeeps
  <2> QED
    BY <1>8, <2>3 DEF Agreement
<1> QED
  BY <1>1, <1>9, <1>10

LEMMA NewEventAgrees ==
  ASSUME Agreement, NEW l \in Loops, NEW c \in Conns, NewEvent(l, c)
  PROVE  Agreement'
<1> DEFINE e == {"IN", "ONESHOT"}
<1>1. /\ UNCHANGED <<fd_, ownloop_, accPc, newHttpConn, revents_, quiet>>
      /\ UNCHANGED <<pendingFunctors_, functors, pc, current, alive>>
      /\ pc[l] = "functors" /\ c \in todo[l]
      /\ todo' = [todo EXCEPT ![l] = @ \ {c}]
      /\ AddTimer(c) /\ Insert(l, c)
      /\ Check("EPOLL_CTL_ADD", c \in alive /\ ~Registered(c))
      /\ http' = [http EXCEPT ![c].events_ = e, ![c].interest = e]
  BY DEF NewEvent, accVars, loopVars
<1>2. Entering(c) /\ Held(c) /\ c \in functors[l] /\ ownloop_[c] = l
  BY <1>1 DEF Entering, Held, Agreement, QueuesAgree
<1>3. c \in alive /\ http[c] = FreshHttp /\ ~Registered(c)
  BY <1>2 DEF Agreement, AliveAgrees, StatesAgree, Registered, FreshHttp
<1>4. nodes[c] = 0 /\ http[c].connectionState_ = "H_CONNECTED"
  BY <1>3 DEF Agreement, OneTimer, FreshHttp
<1>5. \A d \in Conns : Handled(d)' <=> Handled(d) /\ d # c
  BY <1>1, <1>3 DEF Handled, Agreement, EventsAgree
<1>6. ~Entering(c)'
  <2>1. ~ (accPc = "queue" /\ newHttpConn = c)
    BY <1>2 DEF Agreement, QueuesAgree
  <2>2. ASSUME NEW k \in Loops PROVE c \notin pendingFunctors_[k] \cup todo'[k]
    <3>1. CASE k = l
      BY <1>1, <1>2, <3>1 DEF Agreement, TypeOK, QueuesAgree
    <3>2. CASE k # l
      BY <1>1, <1>2, <3>2 DEF Agreement, TypeOK, QueuesAgree
    <3> QED
      BY <3>1, <3>2
  <2> QED
    BY <1>1, <2>1, <2>2 DEF Entering
<1>7. \A d \in Conns : d # c => (Entering(d)' <=> Entering(d))
  BY <1>1 DEF Entering, Agreement, TypeOK
<1>8. e \in Interests /\ e # {}
  BY DEF Interests
<1> HIDE DEF e
<1>9. /\ http' \in [Conns -> Https] /\ nodes' \in [Conns -> Nat]
      /\ timer_' \in [Conns -> BOOLEAN]
      /\ channels_' \in [Loops -> [Fds -> Conns \cup {None}]]
      /\ httpdatas_' \in [Loops -> [Fds -> Conns \cup {None}]]
      /\ OneTimer' /\ TimersAgree'
      /\ AliveAgrees' /\ StatesAgree' /\ MapsAgree'
      /\ \A d \in Conns : Registered(d)' <=> Registered(d) \/ d = c
  BY <1>1, <1>2, <1>3, <1>4, <1>5, <1>6, <1>7, <1>8, ArmKeeps
<1>10. TypeOK' /\ NothingFails'
  <2>1. failed' = {}
    BY <1>1, <1>3 DEF Check, Agreement, NothingFails
  <2>2. todo' \in [Loops -> SUBSET Conns]
    BY <1>1 DEF Agreement, TypeOK
  <2> QED
    BY <1>1, <1>9, <2>1, <2>2 DEF Agreement, TypeOK, NothingFails
<1>11. QueuesAgree'
  BY <1>1 DEF Agreement, TypeOK, QueuesAgree
<1>12. EventsAgree'
  BY <1>1, <1>9 DEF Agreement, EventsAgree
<1> QED
  BY <1>9, <1>10, <1>11, <1>12 DEF Agreement

LEMMA StutterAgrees == ASSUME Agreement, UNCHANGED vars PROVE Agreement'
<1>1. /\ UNCHANGED <<fd_, ownloop_, accPc, newHttpConn, http, alive, timer_>>
      /\ UNCHANGED <<nodes, revents_, channels_, httpdatas_, pc, current>>
      /\ UNCHANGED <<pendingFunctors_, functors, todo, quiet, failed>>
  BY DEF vars, accVars, objVars, timerVars, pollerVars, loopVars, queueVars
<1>2. \A d \in Conns : Held(d)' <=> Held(d)
  BY <1>1, SameHolders
<1>3. \A d \in Conns : /\ Registered(d)' <=> Registered(d)
                       /\ Handled(d)' <=> Handled(d)
                       /\ Entering(d)' <=> Entering(d)
  BY <1>1 DEF Registered, Handled, Entering
<1>4. TypeOK' /\ NothingFails'
  BY <1>1 DEF Agreement, TypeOK, NothingFails
<1>5. OneTimer' /\ TimersAgree'
  BY <1>1, <1>3 DEF Agreement, OneTimer, TimersAgree
<1>6. AliveAgrees'
  BY <1>1, <1>2 DEF Agreement, AliveAgrees
<1>7. QueuesAgree'
  BY <1>1 DEF Agreement, QueuesAgree
<1>8. StatesAgree'
  BY <1>1, <1>3 DEF Agreement, TypeOK, StatesAgree
<1>9. MapsAgree'
  BY <1>1, <1>3 DEF Agreement, MapsAgree
<1>10. EventsAgree'
  BY <1>1, <1>3 DEF Agreement, EventsAgree
<1> QED
  BY <1>4, <1>5, <1>6, <1>7, <1>8, <1>9, <1>10 DEF Agreement

LEMMA NextAgrees == Agreement /\ [Next]_vars => Agreement'
<1> SUFFICES ASSUME Agreement, [Next]_vars PROVE Agreement'
  OBVIOUS
<1>1. CASE UNCHANGED vars
  BY <1>1, StutterAgrees
<1>2. CASE \E c \in Conns, f \in Fds, l \in Loops : AcceptNew(c, f, l)
  BY <1>2, AcceptNewAgrees
<1>3. CASE QueueNewEvent
  BY <1>3, QueueNewEventAgrees
<1>4. CASE DropLocal
  BY <1>4, DropLocalAgrees
<1>5. ASSUME NEW l \in Loops, LoopStep(l)
      PROVE  Agreement'
  <2>1. CASE Poll(l)
    BY <2>1, PollReturnsAgrees DEF Poll
  <2>2. CASE \E c \in Conns : HandleNothing(l, c) \/ HandleRead(l, c)
    BY <2>2, HandleNothingAgrees, HandleReadAgrees
  <2>3. CASE HandleConn(l)
    BY <2>3, HandleConnAgrees
  <2>4. CASE SwapFunctors(l)
    BY <2>4, SwapFunctorsAgrees
  <2>5. CASE \E c \in Conns : NewEvent(l, c)
    BY <2>5, NewEventAgrees
  <2>6. CASE FunctorsDone(l)
    BY <2>6, FunctorsDoneAgrees
  <2>7. CASE \E c \in Conns : ExpireNode(l, c)
    BY <2>7, ExpireNodeAgrees
  <2>8. CASE ExpireDone(l)
    BY <2>8, ExpireDoneAgrees
  <2> QED
    BY <1>5, <2>1, <2>2, <2>3, <2>4, <2>5, <2>6, <2>7, <2>8 DEF LoopStep
<1>6. CASE \E c \in Conns : GoQuiet(c)
  BY <1>6, GoQuietAgrees
<1> QED
  BY <1>1, <1>2, <1>3, <1>4, <1>5, <1>6 DEF Next
-----------------------------------------------------------------------------
(***************************************************************************)
(* What a step changes of the connections: no step unregisters one whose   *)
(* loop runs functors, and each step destroys nobody, or one connection.   *)
(***************************************************************************)
(* handleClose changes its own connection only.                            *)
LEMMA CloseOthers ==
  ASSUME Agreement, NEW l \in Loops, NEW c \in Conns, HandleClose(l, c),
         Registered(c), ownloop_[c] = l,
         UNCHANGED <<fd_, newHttpConn, pendingFunctors_, functors>>,
         \A d \in Conns : d # c => nodes'[d] = nodes[d]
  PROVE  \A d \in Conns : d # c => /\ d \in alive' <=> d \in alive
                                   /\ http'[d] = http[d]
<1> SUFFICES ASSUME NEW d \in Conns, d # c
             PROVE  (d \in alive' <=> d \in alive) /\ http'[d] = http[d]
  OBVIOUS
<1> DEFINE fields == [http EXCEPT ![c].connectionState_ = "H_DISCONNECTED",
                                  ![c].interest = {}]
<1>1. /\ Destroy(alive, fields)
      /\ httpdatas_' = [httpdatas_ EXCEPT ![l][fd_[c]] = None]
  BY DEF HandleClose, Erase
<1>2. fd_[c] \in Fds /\ httpdatas_[l][fd_[c]] = c
  BY RegisteredHeld
<1>3. fields[d] = http[d]
  BY DEF Agreement, TypeOK
<1> HIDE DEF fields
<1>4. Held(d) => Held(d)'
  <2>1. ASSUME NEW k \in Loops, NEW f \in Fds, httpdatas_[k][f] = d
        PROVE  httpdatas_'[k][f] = d
    <3>1. ~ (k = l /\ f = fd_[c])
      BY <1>2, <2>1
    <3> QED
      BY <1>1, <2>1, <3>1 DEF Agreement, TypeOK
  <2> QED
    BY <2>1 DEF Held
<1>5. d \in alive' <=> d \in alive
  BY <1>1, <1>4 DEF Destroy, Agreement, AliveAgrees
<1>6. http'[d] = IF d \in alive' THEN http[d] ELSE FreshHttp
  BY <1>1, <1>3 DEF Destroy
<1> QED
  BY <1>5, <1>6 DEF Agreement, AliveAgrees

(* handleRead destroys nobody, and leaves the socket as it was.            *)
LEMMA ReadKeeps ==
  ASSUME Agreement, NEW l \in Loops, NEW c \in Conns, HandleRead(l, c)
  PROVE  /\ alive' = alive
         /\ \A d \in Conns : /\ http'[d].interest = http[d].interest
                             /\ http'[d].connectionState_
                                  = http[d].connectionState_
<1>1. http \in [Conns -> Https] /\ http[c] \in Https /\ alive \subseteq Conns
  BY DEF Agreement, TypeOK
<1>2. PICK h \in Https :
        /\ SameSocket(h, http[c])
        /\ Destroy(alive, [http EXCEPT ![c] = h])
  BY <1>1, TwiceSame, OutcomesSame DEF HandleRead, SameSocket
<1>3. /\ UNCHANGED <<newHttpConn, pendingFunctors_, functors, httpdatas_>>
      /\ nodes' = [nodes EXCEPT ![c] = IF timer_[c] THEN @ - 1 ELSE @]
      /\ revents_[c] # {}
  BY DEF HandleRead, Active, SeperaterTimer, accVars, pollerVars, queueVars
<1>4. Registered(c)
  BY <1>3 DEF Agreement, EventsAgree
<1>5. Held(c)'
  BY <1>3, <1>4, RegisteredHeld DEF Held
<1>6. \A d \in Conns : d # c /\ Held(d) => Held(d)'
  BY <1>3 DEF Held, Agreement, TypeOK
<1>7. alive' = alive
  BY <1>1, <1>2, <1>5, <1>6 DEF Destroy, Agreement, AliveAgrees
<1>8. \A d \in Conns :
        http'[d] = IF d \notin alive THEN FreshHttp
                   ELSE IF d = c THEN h ELSE http[d]
  BY <1>1, <1>2, <1>7 DEF Destroy
<1> QED
  BY <1>1, <1>2, <1>7, <1>8 DEF SameSocket, Agreement, AliveAgrees

(* The end of a batch destroys nobody, the acceptor's local variable at    *)
(* most the connection it held.                                            *)
LEMMA FunctorsDoneKeeps ==
  ASSUME IInv, NEW l \in Loops, FunctorsDone(l)
  PROVE  alive' = alive /\ http' = http
<1>1. /\ UNCHANGED <<newHttpConn, nodes, httpdatas_, pendingFunctors_>>
      /\ todo[l] = {} /\ functors' = [functors EXCEPT ![l] = {}]
      /\ Destroy(alive, http)
  BY DEF FunctorsDone, accVars, timerVars, pollerVars
<1>2. alive \subseteq Conns /\ http \in [Conns -> Https]
  BY DEF IInv, Agreement, TypeOK
<1>3. ASSUME NEW c \in Conns, Held(c) PROVE Held(c)'
  <2>1. CASE c \in functors[l]
    <3>1. Registered(c)
      BY <1>1, <2>1 DEF IInv, BatchServed
    <3> QED
      BY <1>1, <3>1, RegisteredHeld DEF Held, IInv
  <2>2. CASE c \notin functors[l]
    BY <1>1, <1>3, <2>2 DEF Held, IInv, Agreement, TypeOK
  <2> QED
    BY <2>1, <2>2
<1>4. alive' = alive
  BY <1>1, <1>2, <1>3 DEF Destroy, IInv, Agreement, AliveAgrees
<1> QED
  BY <1>1, <1>2, <1>4 DEF Destroy, IInv, Agreement, AliveAgrees

LEMMA DropLocalKeeps ==
  ASSUME Agreement, DropLocal
  PROVE  /\ alive' \subseteq alive
         /\ \A d \in Conns : d # newHttpConn => (d \in alive' <=> d \in alive)
         /\ \A d \in alive' : http'[d] = http[d]
         /\ \A d \in alive \ alive' : /\ ~Registered(d) /\ ~Entering(d)
                                      /\ http[d].connectionState_
                                           = "H_DISCONNECTED"
<1>1. /\ UNCHANGED <<nodes, httpdatas_, pendingFunctors_, functors, todo>>
      /\ accPc = "release" /\ newHttpConn' = None
      /\ Destroy(alive, http)
  BY DEF DropLocal, timerVars, pollerVars, queueVars
<1>2. alive \subseteq Conns
  BY DEF Agreement, TypeOK
<1>3. \A d \in Conns : d # newHttpConn /\ Held(d) => Held(d)'
  BY <1>1 DEF Held
<1>4. ASSUME NEW d \in alive \ alive'
      PROVE  /\ ~Registered(d) /\ ~Entering(d)
             /\ http[d].connectionState_ = "H_DISCONNECTED"
  <2>1. d \in Conns /\ ~Held(d)'
    BY <1>1, <1>2, <1>4 DEF Destroy
  <2>2. ~Registered(d)
    BY <1>1, <2>1, RegisteredHeld DEF Held
  <2>3. ~Entering(d)
    BY <1>1, <2>1 DEF Entering, Held, Agreement, QueuesAgree
  <2> QED
    BY <2>2, <2>3 DEF Agreement, StatesAgree
<1>5. \A d \in alive' : http'[d] = http[d]
  BY <1>1, <1>2 DEF Destroy
<1> QED
  BY <1>1, <1>2, <1>3, <1>4, <1>5 DEF Destroy, Agreement, AliveAgrees

(* handleConn and the expiry of a node concern a registered connection of  *)
(* the loop, which calls no functor then.                                  *)
LEMMA ConnHandled ==
  ASSUME Agreement, NEW l \in Loops, HandleConn(l)
  PROVE  /\ current[l] \in Conns /\ Registered(current[l])
         /\ ownloop_[current[l]] = l /\ functors[l] = {}
         /\ UNCHANGED <<fd_, ownloop_, newHttpConn, pendingFunctors_>>
         /\ UNCHANGED <<functors, todo>>
         /\ \/ Rearm(l, current[l])
            \/ /\ nodes' = nodes /\ HandleClose(l, current[l])
               /\ \/ http[current[l]].error_
                  \/ http[current[l]].connectionState_ = "H_DISCONNECTED"
<1>1. /\ UNCHANGED <<fd_, ownloop_, newHttpConn, pendingFunctors_>>
      /\ UNCHANGED <<functors, todo>>
      /\ pc[l] = "conn"
      /\ IF ~http[current[l]].error_
              /\ http[current[l]].connectionState_ = "H_CONNECTED"
         THEN Rearm(l, current[l])
         ELSE UNCHANGED timerVars /\ HandleClose(l, current[l])
  BY DEF HandleConn, accVars, queueVars
<1>2. current[l] \in Conns
  BY <1>1, ConnAssumption DEF Agreement, TypeOK, EventsAgree
<1>3. Registered(current[l]) /\ ownloop_[current[l]] = l
  BY <1>2 DEF Agreement, EventsAgree
<1>4. functors[l] = {}
  BY <1>1 DEF Agreement, QueuesAgree
<1>5. http[current[l]].connectionState_ \in {"H_CONNECTED", "H_DISCONNECTED"}
  BY <1>2 DEF Agreement, TypeOK, Https
<1> QED
  BY <1>1, <1>2, <1>3, <1>4, <1>5 DEF timerVars

LEMMA NodeExpires ==
  ASSUME Agreement, NEW l \in Loops, NEW c \in Conns, ExpireNode(l, c)
  PROVE  /\ Registered(c) /\ ownloop_[c] = l /\ functors[l] = {}
         /\ pc[l] = "expire" /\ nodes[c] > 0
         /\ UNCHANGED <<fd_, ownloop_, newHttpConn, pendingFunctors_>>
         /\ UNCHANGED <<functors, todo>>
         /\ HandleClose(l, c)
         /\ \A d \in Conns : d # c => /\ d \in alive' <=> d \in alive
                                      /\ http'[d] = http[d]
<1>1. /\ UNCHANGED <<fd_, ownloop_, newHttpConn, pendingFunctors_>>
      /\ UNCHANGED <<functors, todo>>
      /\ pc[l] = "expire" /\ ownloop_[c] = l /\ nodes[c] > 0
      /\ nodes' = [nodes EXCEPT ![c] = @ - 1]
      /\ HandleClose(l, c)
  BY DEF ExpireNode, accVars, queueVars
<1>2. Registered(c)
  BY <1>1 DEF Agreement, OneTimer
<1>3. functors[l] = {}
  BY <1>1 DEF Agreement, QueuesAgree
<1>4. \A d \in Conns : d # c => nodes'[d] = nodes[d]
  BY <1>1 DEF Agreement, TypeOK
<1> QED
  BY <1>1, <1>2, <1>3, <1>4, CloseOthers

LEMMA RearmKeeps ==
  ASSUME Agreement, NEW l \in Loops, NEW c \in Conns, Rearm(l, c)
  PROVE  /\ alive' = alive /\ http'[c].interest # {}
         /\ http'[c].connectionState_ = http[c].connectionState_
         /\ \A d \in Conns : d # c => http'[d] = http[d]
<1> DEFINE e == Rearmed(http[c].events_)
<1>1. /\ http' = [http EXCEPT ![c].events_ = e, ![c].interest = e]
      /\ UNCHANGED alive
  BY DEF Rearm
<1>2. e # {}
  BY DEF Rearmed
<1>3. http \in [Conns -> Https] /\ http[c] \in Https
  BY DEF Agreement, TypeOK
<1> HIDE DEF e
<1>4. http'[c] = [http[c] EXCEPT !.events_ = e, !.interest = e]
  BY <1>1, <1>3
<1> QED
  BY <1>1, <1>2, <1>3, <1>4 DEF Https

LEMMA PollKeeps ==
  ASSUME Agreement, NEW l \in Loops, Poll(l)
  PROVE  /\ UNCHANGED <<fd_, ownloop_, alive, functors, todo, channels_>>
         /\ \A d \in Conns :
              /\ http'[d].interest = {} <=> http[d].interest = {}
              /\ http'[d].connectionState_ = http[d].connectionState_
<1>1. PICK reported \in SUBSET Reportable(l) :
        /\ UNCHANGED <<fd_, ownloop_, alive, functors, todo, channels_>>
        /\ http' = [c \in Conns |->
                      IF c \in reported /\ "ONESHOT" \in http[c].interest
                      THEN [http[c] EXCEPT !.interest = Disabled] ELSE http[c]]
  BY DEF Poll, PollReturns, accVars, pollerVars, queueVars
<1> SUFFICES ASSUME NEW d \in Conns
             PROVE  /\ http'[d].interest = {} <=> http[d].interest = {}
                    /\ http'[d].connectionState_ = http[d].connectionState_
  BY <1>1
<1>2. http[d] \in Https
  BY DEF Agreement, TypeOK
<1>3. CASE d \in reported /\ "ONESHOT" \in http[d].interest
  <2>1. http'[d] = [http[d] EXCEPT !.interest = Disabled]
    BY <1>1, <1>3
  <2> QED
    BY <1>2, <1>3, <2>1 DEF Https, Disabled
<1>4. CASE ~ (d \in reported /\ "ONESHOT" \in http[d].interest)
  BY <1>1, <1>4
<1> QED
  BY <1>3, <1>4

LEMMA NothingKeeps ==
  ASSUME Agreement, NEW l \in Loops, NEW c \in Conns, HandleNothing(l, c)
  PROVE  /\ UNCHANGED <<fd_, ownloop_, alive, functors, todo, channels_>>
         /\ \A d \in Conns : /\ http'[d].interest = http[d].interest
                             /\ http'[d].connectionState_
                                  = http[d].connectionState_
<1>1. /\ UNCHANGED <<fd_, ownloop_, alive, functors, todo, channels_>>
      /\ http' = [http EXCEPT ![c].events_ = {}] \/ http' = http
  BY DEF HandleNothing, accVars, pollerVars, queueVars
<1>2. http \in [Conns -> Https] /\ http[c] \in Https
  BY DEF Agreement, TypeOK
<1>3. /\ [http[c] EXCEPT !.events_ = {}].interest = http[c].interest
      /\ [http[c] EXCEPT !.events_ = {}].connectionState_
           = http[c].connectionState_
  BY <1>2 DEF Https
<1> QED
  BY <1>1, <1>2, <1>3

(* A functor registers its connection.                                     *)
LEMMA NewEventKeeps ==
  ASSUME Agreement, NEW l \in Loops, NEW c \in Conns, NewEvent(l, c)
  PROVE  /\ UNCHANGED <<fd_, ownloop_, alive, functors>>
         /\ todo' = [todo EXCEPT ![l] = @ \ {c}]
         /\ channels_' = [channels_ EXCEPT ![l][fd_[c]] = c]
         /\ c \in alive /\ Entering(c) /\ http[c] = FreshHttp
         /\ ownloop_[c] = l /\ fd_[c] \in Fds
         /\ http'[c].interest # {}
         /\ http'[c].connectionState_ = "H_CONNECTED"
         /\ \A d \in Conns : d # c => http'[d] = http[d]
<1> DEFINE e == {"IN", "ONESHOT"}
<1>1. /\ UNCHANGED <<fd_, ownloop_, alive, functors>>
      /\ c \in todo[l] /\ todo' = [todo EXCEPT ![l] = @ \ {c}]
      /\ channels_' = [channels_ EXCEPT ![l][fd_[c]] = c]
      /\ http' = [http EXCEPT ![c].events_ = e, ![c].interest = e]
  BY DEF NewEvent, Insert, accVars
<1>2. Entering(c) /\ Held(c) /\ ownloop_[c] = l
  BY <1>1 DEF Entering, Held, Agreement, QueuesAgree
<1>3. c \in alive /\ http[c] = FreshHttp /\ fd_[c] \in Fds
  BY <1>2 DEF Agreement, TypeOK, AliveAgrees, StatesAgree
<1>4. http \in [Conns -> Https] /\ e # {}
  BY DEF Agreement, TypeOK
<1> HIDE DEF e
<1>5. http'[c] = [FreshHttp EXCEPT !.events_ = e, !.interest = e]
  BY <1>1, <1>3, <1>4
<1> QED
  BY <1>1, <1>2, <1>3, <1>4, <1>5 DEF FreshHttp

(* In a batch that runs, a connection that was registered stays so.        *)
LEMMA NextBatchServed == IInv /\ [Next]_vars => BatchServed'
<1> SUFFICES ASSUME IInv, [Next]_vars PROVE BatchServed'
  OBVIOUS
<1> USE DEF IInv
<1>1. functors \in [Loops -> SUBSET Conns] /\ todo \in [Loops -> SUBSET Conns]
  BY DEF Agreement, TypeOK
<1>2. ASSUME UNCHANGED <<functors, todo>>,
             NEW c, \A d \in Conns : d # c /\ Registered(d) => Registered(d)',
             c \in Conns => functors[ownloop_[c]] = {} \/ Registered(c)'
      PROVE  BatchServed'
  <2> SUFFICES ASSUME NEW k \in Loops, NEW d \in functors[k] \ todo[k]
               PROVE  Registered(d)'
    BY <1>2 DEF BatchServed
  <2>1. d \in Conns /\ Registered(d) /\ ownloop_[d] = k
    BY <1>1 DEF BatchServed, Agreement, QueuesAgree
  <2> QED
    BY <1>2, <2>1
<1>3. CASE UNCHANGED vars
  BY <1>2, <1>3, ConnAssumption DEF vars, objVars, queueVars, Registered
<1>4. CASE \E c \in Conns, f \in Fds, l \in Loops : AcceptNew(c, f, l)
  BY <1>2, <1>4, ConnAssumption DEF AcceptNew, queueVars, Registered
<1>5. CASE QueueNewEvent
  BY <1>2, <1>5, ConnAssumption DEF QueueNewEvent, objVars, Registered
<1>6. CASE DropLocal
  <2>1. UNCHANGED <<functors, todo>>
    BY <1>6 DEF DropLocal, queueVars
  <2>2. \A d \in Conns : Registered(d) => Registered(d)'
    BY <1>6, DropLocalKeeps DEF Registered
  <2> QED
    BY <1>2, <2>1, <2>2, ConnAssumption
<1>7. ASSUME NEW l \in Loops, LoopStep(l) PROVE BatchServed'
  <2>1. CASE Poll(l)
    BY <1>2, <2>1, PollKeeps, ConnAssumption DEF Registered
  <2>2. ASSUME NEW c \in Conns, HandleNothing(l, c) PROVE BatchServed'
    BY <1>2, <2>2, NothingKeeps, ConnAssumption DEF Registered
  <2>3. ASSUME NEW c \in Conns, HandleRead(l, c) PROVE BatchServed'
    <3>1. UNCHANGED <<functors, todo>>
      BY <2>3 DEF HandleRead, queueVars
    <3> QED
      BY <1>2, <2>3, <3>1, ReadKeeps, ConnAssumption DEF Registered
  <2>4. CASE HandleConn(l)
    <3> DEFINE c == current[l]
    <3>1. /\ c \in Conns /\ Registered(c) /\ ownloop_[c] = l
          /\ functors[l] = {} /\ UNCHANGED <<functors, todo>>
      BY <2>4, ConnHandled
    <3>2. \A d \in Conns : d # c => /\ d \in alive' <=> d \in alive
                                    /\ http'[d] = http[d]
      <4>1. CASE Rearm(l, c)
        BY <3>1, <4>1, RearmKeeps
      <4>2. CASE nodes' = nodes /\ HandleClose(l, c)
        BY <2>4, <4>2, ConnHandled, CloseOthers
      <4> QED
        BY <2>4, <4>1, <4>2, ConnHandled
    <3> HIDE DEF c
    <3> QED
      BY <1>2, <3>1, <3>2 DEF Registered
  <2>5. CASE SwapFunctors(l)
    BY <1>1, <2>5 DEF SwapFunctors, objVars, BatchServed, Registered
  <2>6. ASSUME NEW c \in Conns, NewEvent(l, c) PROVE BatchServed'
    <3>1. /\ UNCHANGED <<alive, functors>>
          /\ todo' = [todo EXCEPT ![l] = @ \ {c}]
          /\ Registered(c)'
          /\ \A d \in Conns : d # c /\ Registered(d) => Registered(d)'
      BY <2>6, NewEventKeeps DEF Registered
    <3>2. ASSUME NEW k \in Loops, NEW d \in functors[k] \ todo'[k]
          PROVE  Registered(d)'
      <4>1. d \in Conns
        BY <1>1
      <4>2. d \notin todo[k] \/ d = c
        BY <1>1, <3>1, <3>2
      <4> QED
        BY <3>1, <4>1, <4>2 DEF BatchServed
    <3> QED
      BY <3>1, <3>2 DEF BatchServed
  <2>7. CASE FunctorsDone(l)
    <3>1. /\ UNCHANGED <<alive, http, todo>>
          /\ functors' = [functors EXCEPT ![l] = {}]
      BY <2>7, FunctorsDoneKeeps DEF FunctorsDone
    <3> QED
      BY <1>1, <3>1 DEF BatchServed, Registered
  <2>8. ASSUME NEW c \in Conns, ExpireNode(l, c) PROVE BatchServed'
    BY <1>2, <2>8, NodeExpires, SMTT(30) DEF Registered
  <2>9. CASE ExpireDone(l)
    BY <1>2, <2>9, ConnAssumption
       DEF ExpireDone, objVars, queueVars, Registered
  <2> QED
    BY <1>7, <2>1, <2>2, <2>3, <2>4, <2>5, <2>6, <2>7, <2>8, <2>9 DEF LoopStep
<1>8. CASE \E c \in Conns : GoQuiet(c)
  BY <1>2, <1>8, ConnAssumption DEF GoQuiet, objVars, queueVars, Registered
<1> QED
  BY <1>3, <1>4, <1>5, <1>6, <1>7, <1>8 DEF Next

LEMMA InitIInv == Init => IInv
BY InitAgrees DEF Init, BatchServed, IInv

LEMMA NextIInv == IInv /\ [Next]_vars => IInv'
BY NextAgrees, NextBatchServed DEF IInv

(* The invariant: the maps, the queues, the timer's nodes and the states   *)
(* of the connections agree.                                               *)
THEOREM ConnInvariant == Spec => []IInv
BY InitIInv, NextIInv, PTL DEF Spec

(* Every variable keeps its type.                                          *)
THEOREM TypeCorrect == Spec => []TypeOK
<1>1. IInv => TypeOK
  BY DEF IInv, Agreement
<1> QED
  BY <1>1, ConnInvariant, PTL

(* No assertion fails and no callback starts on a destroyed HttpData       *)
(* (updateChannel, removeChannel, fillActiveChannels, handleEvents).       *)
THEOREM NothingFailsHolds == Spec => []NothingFails
<1>1. IInv => NothingFails
  BY DEF IInv, Agreement
<1> QED
  BY <1>1, ConnInvariant, PTL

(* A registered connection has one node that can close it, one that is     *)
(* being handled none (addTimer, seperaterTimer).                          *)
THEOREM OneTimerHolds == Spec => []OneTimer
<1>1. IInv => OneTimer
  BY DEF IInv, Agreement
<1> QED
  BY <1>1, ConnInvariant, PTL

(* While events or callbacks of a connection are due, its HttpData exists  *)
(* (handleRead, handleConn).                                               *)
THEOREM CallbacksLiveHolds == Spec => []CallbacksLive
<1>1. ASSUME IInv PROVE CallbacksLive
  <2> SUFFICES ASSUME NEW l \in Loops
               PROVE  /\ Active(l) \subseteq alive
                      /\ pc[l] = "conn" => current[l] \in alive
    BY DEF CallbacksLive
  <2>1. Active(l) \subseteq alive
    BY <1>1 DEF Active, IInv, Agreement, EventsAgree, Registered
  <2>2. ASSUME pc[l] = "conn" PROVE current[l] \in alive
    <3>1. current[l] \in Conns
      BY <1>1, <2>2 DEF IInv, Agreement, TypeOK, EventsAgree
    <3> QED
      BY <1>1, <3>1 DEF IInv, Agreement, EventsAgree, Registered
  <2> QED
    BY <2>1, <2>2
<1> QED
  BY <1>1, ConnInvariant, PTL
-----------------------------------------------------------------------------
LEMMA NextReason ==
  ASSUME IInv, [Next]_vars, NEW c \in alive \ alive'
  PROVE  \/ http[c].error_
         \/ http[c].connectionState_ = "H_DISCONNECTED"
         \/ pc[ownloop_[c]] = "expire" /\ nodes[c] > 0
<1> USE DEF IInv
<1>1. c \in Conns /\ alive' # alive
  BY DEF Agreement, TypeOK
<1>2. CASE UNCHANGED vars
  BY <1>1, <1>2 DEF vars, objVars
<1>3. CASE \E d \in Conns, f \in Fds, l \in Loops : AcceptNew(d, f, l)
  BY <1>3 DEF AcceptNew
<1>4. CASE QueueNewEvent
  BY <1>1, <1>4 DEF QueueNewEvent, objVars
<1>5. CASE DropLocal
  BY <1>5, DropLocalKeeps
<1>6. ASSUME NEW l \in Loops, LoopStep(l)
      PROVE  \/ http[c].error_
             \/ http[c].connectionState_ = "H_DISCONNECTED"
             \/ pc[ownloop_[c]] = "expire" /\ nodes[c] > 0
  <2>1. ~Poll(l)
    BY <1>1, PollKeeps
  <2>2. ASSUME NEW d \in Conns PROVE ~HandleNothing(l, d) /\ ~HandleRead(l, d)
    BY <1>1, NothingKeeps, ReadKeeps
  <2>3. CASE HandleConn(l)
    <3>1. current[l] \in Conns
      BY <2>3, ConnHandled
    <3>2. ~Rearm(l, current[l])
      BY <1>1, <3>1, RearmKeeps
    <3>3. /\ nodes' = nodes /\ HandleClose(l, current[l])
          /\ \/ http[current[l]].error_
             \/ http[current[l]].connectionState_ = "H_DISCONNECTED"
      BY <2>3, <3>2, ConnHandled
    <3>4. c = current[l]
      BY <1>1, <2>3, <3>1, <3>3, ConnHandled, CloseOthers
    <3> QED
      BY <3>3, <3>4
  <2>4. ~SwapFunctors(l)
    BY <1>1 DEF SwapFunctors, objVars
  <2>5. ASSUME NEW d \in Conns PROVE ~NewEvent(l, d)
    BY <1>1, NewEventKeeps
  <2>6. ~FunctorsDone(l)
    BY <1>1, FunctorsDoneKeeps
  <2>7. ASSUME NEW d \in Conns, ExpireNode(l, d)
        PROVE  pc[ownloop_[c]] = "expire" /\ nodes[c] > 0
    BY <1>1, <2>7, NodeExpires
  <2>8. ~ExpireDone(l)
    BY <1>1 DEF ExpireDone, objVars
  <2> QED
    BY <1>6, <2>1, <2>2, <2>3, <2>4, <2>5, <2>6, <2>7, <2>8 DEF LoopStep
<1>7. CASE \E d \in Conns : GoQuiet(d)
  BY <1>1, <1>7 DEF GoQuiet, objVars
<1> QED
  BY <1>2, <1>3, <1>4, <1>5, <1>6, <1>7 DEF Next

(* A connection is destroyed because its timer expired or its handling     *)
(* ended in an error (handleConn, ~TimerNode), for no other reason.        *)
THEOREM ClosedForAReasonHolds == Spec => ClosedForAReason
<1>1. IInv /\ [Next]_vars =>
        [\A c \in alive \ alive' :
           \/ http[c].error_
           \/ http[c].connectionState_ = "H_DISCONNECTED"
           \/ pc[ownloop_[c]] = "expire" /\ nodes[c] > 0]_vars
  BY NextReason
<1> QED
  BY <1>1, ConnInvariant, PTL DEF Spec, ClosedForAReason
-----------------------------------------------------------------------------
(***************************************************************************)
(* The connections implement Descriptors.                                  *)
(***************************************************************************)
(* Steps that leave every connection in its stage.                         *)
LEMMA StageSame ==
  ASSUME UNCHANGED <<fd_, channels_>>,
         \A c \in Conns :
           fd_[c] # None =>
             /\ c \in alive' <=> c \in alive
             /\ c \in alive =>
                  /\ http'[c].interest = {} <=> http[c].interest = {}
                  /\ http'[c].connectionState_ = http[c].connectionState_
  PROVE  UNCHANGED D!vars
<1>1. \A c \in Conns : Stage(c)' = Stage(c)
  BY DEF Stage
<1> QED
  BY <1>1 DEF D!vars

LEMMA InitDescriptors == Init => D!Init
BY DEF Init, Stage, D!Init

LEMMA AcceptStep ==
  ASSUME IInv, NEW c \in Conns, NEW f \in Fds, NEW l \in Loops,
         AcceptNew(c, f, l)
  PROVE  D!Accept(c, f)
<1>1. /\ UNCHANGED <<http, channels_>>
      /\ fd_[c] = None /\ f \notin Open /\ fd_' = [fd_ EXCEPT ![c] = f]
      /\ alive' = alive \cup {c}
  BY DEF AcceptNew, pollerVars
<1>2. c \notin alive /\ http[c] = FreshHttp
  BY <1>1 DEF IInv, Agreement, AliveAgrees
<1>3. fd_ \in [Conns -> Fds \cup {None}] /\ f # None
  BY ConnAssumption DEF IInv, Agreement, TypeOK
<1>4. Stage(c) = "none" /\ Stage(c)' = "accepted"
  BY <1>1, <1>2, <1>3 DEF Stage, FreshHttp
<1>5. \A d \in Conns : d # c => Stage(d)' = Stage(d)
  BY <1>1, <1>3 DEF Stage
<1>6. ~D!Leased(f)
  BY <1>1, <1>3 DEF D!Leased, Stage, Open
<1> QED
  BY <1>1, <1>4, <1>5, <1>6 DEF D!Accept

LEMMA ServeStep ==
  ASSUME IInv, NEW l \in Loops, NEW c \in Conns, NewEvent(l, c)
  PROVE  D!Serve(c, l)
<1>1. /\ UNCHANGED <<fd_, alive>>
      /\ channels_' = [channels_ EXCEPT ![l][fd_[c]] = c]
      /\ c \in alive /\ Entering(c) /\ http[c] = FreshHttp
      /\ fd_[c] \in Fds /\ http'[c].interest # {}
      /\ http'[c].connectionState_ = "H_CONNECTED"
      /\ \A d \in Conns : d # c => http'[d] = http[d]
  BY NewEventKeeps DEF IInv
<1>2. fd_[c] # None
  BY <1>1, ConnAssumption
<1>3. Stage(c) = "accepted" /\ Stage(c)' = "served"
  BY <1>1, <1>2 DEF Stage, FreshHttp
<1>4. \A d \in Conns : d # c => Stage(d)' = Stage(d)
  BY <1>1 DEF Stage
<1>5. ASSUME NEW k \in Loops PROVE channels_[k][fd_[c]] = None
  <2>1. channels_[k][fd_[c]] \in Conns \cup {None}
    BY <1>1 DEF IInv, Agreement, TypeOK
  <2>2. ASSUME NEW d \in Conns, channels_[k][fd_[c]] = d PROVE FALSE
    <3>1. Registered(d) /\ fd_[d] = fd_[c]
      BY <1>1, <2>2 DEF IInv, Agreement, MapsAgree
    <3>2. d = c
      BY <1>1, <3>1 DEF Registered, IInv, Agreement, AliveAgrees
    <3> QED
      BY <1>1, <3>1, <3>2 DEF Registered, FreshHttp
  <2> QED
    BY <2>1, <2>2
<1> QED
  BY <1>1, <1>3, <1>4, <1>5 DEF D!Serve

LEMMA WithdrawStep ==
  ASSUME IInv, NEW l \in Loops, NEW c \in Conns, HandleClose(l, c),
         Registered(c), ownloop_[c] = l, UNCHANGED fd_,
         \A d \in Conns : d # c => /\ d \in alive' <=> d \in alive
                                   /\ http'[d] = http[d]
  PROVE  D!Withdraw(c, l)
<1> DEFINE fields == [http EXCEPT ![c].connectionState_ = "H_DISCONNECTED",
                                  ![c].interest = {}]
<1>1. /\ Destroy(alive, fields)
      /\ channels_' = [channels_ EXCEPT ![l][fd_[c]] = None]
  BY DEF HandleClose, Erase
<1>2. /\ c \in alive /\ fd_[c] \in Fds /\ channels_[l][fd_[c]] = c
      /\ http[c].connectionState_ = "H_CONNECTED"
      /\ http[c].interest # {}
  BY RegisteredHeld, RegisteredState DEF IInv
<1>3. fd_[c] # None
  BY <1>2, ConnAssumption
<1>4. fields[c].connectionState_ = "H_DISCONNECTED"
  <2>1. http \in [Conns -> Https] /\ http[c] \in Https
    BY DEF IInv, Agreement, TypeOK
  <2>2. fields[c] = [http[c] EXCEPT !.connectionState_ = "H_DISCONNECTED",
                                    !.interest = {}]
    BY <2>1
  <2> QED
    BY <2>1, <2>2 DEF Https
<1> HIDE DEF fields
<1>5. Stage(c) = "served"
  BY <1>2, <1>3 DEF Stage
<1>6. Stage(c)' \in {"withdrawn", "closed"}
  <2>1. c \in alive' => http'[c] = fields[c]
    BY <1>1 DEF Destroy
  <2> QED
    BY <1>3, <1>4, <2>1 DEF Stage
<1>7. \A d \in Conns : d # c => Stage(d)' = Stage(d)
  BY DEF Stage
<1>8. [d \in Conns |-> Stage(d)'] \in
        {[[d \in Conns |-> Stage(d)] EXCEPT ![c] = x] :
           x \in {"withdrawn", "closed"}}
  <2>1. [d \in Conns |-> Stage(d)'] =
          [[d \in Conns |-> Stage(d)] EXCEPT ![c] = Stage(c)']
    BY <1>7
  <2> QED
    BY <1>6, <2>1
<1> QED
  BY <1>1, <1>2, <1>5, <1>8 DEF D!Withdraw

LEMMA CloseStep ==
  ASSUME IInv, DropLocal
  PROVE  UNCHANGED D!vars \/ \E c \in Conns : D!Close(c)
<1>1. /\ alive' \subseteq alive
      /\ \A d \in Conns : d # newHttpConn => (d \in alive' <=> d \in alive)
      /\ \A d \in alive' : http'[d] = http[d]
      /\ \A d \in alive \ alive' :
           ~Registered(d) /\ http[d].connectionState_ = "H_DISCONNECTED"
  BY DropLocalKeeps DEF IInv
<1>2. UNCHANGED <<fd_, channels_>>
  BY DEF DropLocal, pollerVars
<1>3. CASE alive' = alive
  BY <1>1, <1>2, <1>3, StageSame
<1>4. CASE alive' # alive
  <2>1. PICK c \in alive \ alive' : TRUE
    BY <1>1, <1>4
  <2>2. c \in Conns /\ fd_[c] # None
    BY <2>1 DEF IInv, Agreement, TypeOK, AliveAgrees
  <2>3. Stage(c) = "withdrawn" /\ Stage(c)' = "closed"
    BY <1>1, <1>2, <2>1, <2>2 DEF Stage
  <2>4. \A d \in Conns : d # c => Stage(d)' = Stage(d)
    BY <1>1, <1>2, <2>1, <2>2 DEF Stage
  <2>5. D!Close(c)
    BY <1>2, <2>2, <2>3, <2>4 DEF D!Close
  <2> QED
    BY <2>2, <2>5
<1> QED
  BY <1>3, <1>4

LEMMA NextDescriptors == IInv /\ [Next]_vars => [D!Next]_(D!vars)
<1> SUFFICES ASSUME IInv, [Next]_vars PROVE D!Next \/ UNCHANGED D!vars
  OBVIOUS
<1> USE DEF IInv
<1>1. CASE UNCHANGED vars
  BY <1>1, StageSame DEF vars, accVars, objVars, pollerVars
<1>2. CASE \E c \in Conns, f \in Fds, l \in Loops : AcceptNew(c, f, l)
  BY <1>2, AcceptStep DEF D!Next
<1>3. CASE QueueNewEvent
  BY <1>3, StageSame DEF QueueNewEvent, objVars, pollerVars
<1>4. CASE DropLocal
  BY <1>4, CloseStep DEF D!Next
<1>5. ASSUME NEW l \in Loops, LoopStep(l) PROVE D!Next \/ UNCHANGED D!vars
  <2>1. CASE Poll(l)
    BY <2>1, PollKeeps, StageSame
  <2>2. ASSUME NEW c \in Conns, HandleNothing(l, c) PROVE UNCHANGED D!vars
    BY <2>2, NothingKeeps, StageSame
  <2>3. ASSUME NEW c \in Conns, HandleRead(l, c) PROVE UNCHANGED D!vars
    <3>1. UNCHANGED <<fd_, channels_>>
      BY <2>3 DEF HandleRead, accVars, pollerVars
    <3> QED
      BY <2>3, <3>1, ReadKeeps, StageSame
  <2>4. CASE HandleConn(l)
    <3> DEFINE c == current[l]
    <3>1. /\ c \in Conns /\ Registered(c) /\ ownloop_[c] = l
          /\ UNCHANGED <<fd_, newHttpConn, pendingFunctors_, functors>>
      BY <2>4, ConnHandled
    <3>2. CASE Rearm(l, c)
      <4>1. channels_' = channels_
        <5>1. channels_[l][fd_[c]] = c
          BY <3>1, RegisteredHeld
        <5> QED
          BY <3>2, <5>1 DEF Rearm, Insert, Agreement, TypeOK
      <4>2. http[c].interest # {}
        BY <3>1 DEF Registered
      <4> HIDE DEF c
      <4> QED
        BY <3>1, <3>2, <4>1, <4>2, RearmKeeps, StageSame
    <3>3. CASE nodes' = nodes /\ HandleClose(l, c)
      <4>1. \A d \in Conns : d # c => /\ d \in alive' <=> d \in alive
                                      /\ http'[d] = http[d]
        BY <3>1, <3>3, CloseOthers
      <4>2. D!Withdraw(c, l)
        BY <3>1, <3>3, <4>1, WithdrawStep
      <4> QED
        BY <3>1, <4>2 DEF D!Next
    <3> QED
      BY <2>4, <3>2, <3>3, ConnHandled
  <2>5. CASE SwapFunctors(l)
    BY <2>5, StageSame DEF SwapFunctors, accVars, objVars, pollerVars
  <2>6. ASSUME NEW c \in Conns, NewEvent(l, c) PROVE D!Next
    BY <2>6, ServeStep DEF D!Next
  <2>7. CASE FunctorsDone(l)
    BY <2>7, FunctorsDoneKeeps, StageSame DEF FunctorsDone, accVars, pollerVars
  <2>8. ASSUME NEW c \in Conns, ExpireNode(l, c) PROVE D!Next
    <3>1. D!Withdraw(c, l)
      BY <2>8, NodeExpires, WithdrawStep
    <3> QED
      BY <3>1 DEF D!Next
  <2>9. CASE ExpireDone(l)
    BY <2>9, StageSame DEF ExpireDone, accVars, objVars, pollerVars
  <2> QED
    BY <1>5, <2>1, <2>2, <2>3, <2>4, <2>5, <2>6, <2>7, <2>8, <2>9 DEF LoopStep
<1>6. CASE \E c \in Conns : GoQuiet(c)
  BY <1>6, StageSame DEF GoQuiet, accVars, objVars, pollerVars
<1> QED
  BY <1>1, <1>2, <1>3, <1>4, <1>5, <1>6 DEF Next

(* A descriptor belongs to one connection until that one closes it, which  *)
(* it does only after its loop served it and let go of it (handleNewConn,  *)
(* newEvent, removeChannel, ~HttpData).                                    *)
THEOREM DescriptorsImplemented == Spec => ImplementsDescriptors
BY InitDescriptors, NextDescriptors, ConnInvariant, PTL
   DEF Spec, ImplementsDescriptors, D!Spec
=============================================================================

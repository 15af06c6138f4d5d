---------------------------- MODULE Descriptors ----------------------------
(***************************************************************************)
(* What the server promises about the descriptors it accepts: each belongs *)
(* to one connection until that connection closes it, it is served by the  *)
(* poller of one loop at a time, no connection is closed before it was     *)
(* served, and none while a poller still serves it.  ConnLifetime.tla      *)
(* implements this.                                                        *)
(***************************************************************************)
CONSTANTS Conns, Fds, Loops, None

VARIABLES
  stage,                    \* how far each connection has come
  lease,                    \* lease[c]: the descriptor accepted for c
  serves                    \* serves[l][f]: whose events loop l dispatches

vars == <<stage, lease, serves>>

Init ==
  /\ stage = [c \in Conns |-> "none"]
  /\ lease = [c \in Conns |-> None]
  /\ serves = [l \in Loops |-> [f \in Fds |-> None]]

Leased(f) == \E c \in Conns : lease[c] = f /\ stage[c] # "closed"

Accept(c, f) ==
  /\ stage[c] = "none"
  /\ ~Leased(f)
  /\ stage' = [stage EXCEPT ![c] = "accepted"]
  /\ lease' = [lease EXCEPT ![c] = f]
  /\ UNCHANGED serves

Serve(c, l) ==
  /\ stage[c] = "accepted"
  /\ \A k \in Loops : serves[k][lease[c]] = None
  /\ stage' = [stage EXCEPT ![c] = "served"]
  /\ serves' = [serves EXCEPT ![l][lease[c]] = c]
  /\ UNCHANGED lease

(* The poller lets go of c, which is closed at once or when its last user  *)
(* has let go of it too.                                                   *)
Withdraw(c, l) ==
  /\ stage[c] = "served"
  /\ serves[l][lease[c]] = c
  /\ stage' \in {[stage EXCEPT ![c] = s] : s \in {"withdrawn", "closed"}}
  /\ serves' = [serves EXCEPT ![l][lease[c]] = None]
  /\ UNCHANGED lease

Close(c) ==
  /\ stage[c] = "withdrawn"
  /\ stage' = [stage EXCEPT ![c] = "closed"]
  /\ UNCHANGED <<lease, serves>>

Next ==
  \E c \in Conns :
    \/ \E f \in Fds : Accept(c, f)
    \/ \E l \in Loops : Serve(c, l) \/ Withdraw(c, l)
    \/ Close(c)

Spec == Init /\ [][Next]_vars
=============================================================================

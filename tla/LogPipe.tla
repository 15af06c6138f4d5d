------------------------------ MODULE LogPipe ------------------------------
(***************************************************************************)
(* What asynchronous logging promises its callers: the file holds what was *)
(* appended, in that order, as far as it has got, without a gap as long as *)
(* the logger has not given a message up; and once closed, all of it.      *)
(* AsyncLogging.tla implements this until it crashes.                      *)
(***************************************************************************)
EXTENDS Naturals, Sequences, SequencesExt

VARIABLES
  submitted,                \* messages 1 .. submitted were appended
  onDisk,                   \* the contents of the file
  lossy,                    \* a message was given up
  closed

vars == <<submitted, onDisk, lossy, closed>>

Init ==
  /\ submitted = 0
  /\ onDisk = <<>>
  /\ lossy = FALSE
  /\ closed = FALSE

(* A message is accepted, or given up at once. *)
Submit ==
  /\ ~closed
  /\ submitted' = submitted + 1
  /\ lossy' \in {lossy, TRUE}
  /\ UNCHANGED <<onDisk, closed>>

GiveUp ==
  /\ lossy' = TRUE
  /\ UNCHANGED <<submitted, onDisk, closed>>

(* The file grows by later messages, without a gap or, once lossy, with:   *)
(* the logger may also give a message up while it writes.                  *)
Grows ==
  /\ IsPrefix(onDisk, onDisk')
  /\ lossy' \in {lossy, TRUE}
  /\ \A i \in DOMAIN onDisk' :
       /\ onDisk'[i] \in 1 .. submitted
       /\ i > 1 => onDisk'[i - 1] < onDisk'[i]
       /\ ~lossy' => onDisk'[i] = i
  /\ UNCHANGED submitted

Sync == Grows /\ UNCHANGED closed

Close ==
  /\ ~closed
  /\ Grows
  /\ ~lossy' => Len(onDisk') = submitted
  /\ closed' = TRUE

Next == Submit \/ GiveUp \/ Sync \/ Close

Spec == Init /\ [][Next]_vars
=============================================================================

------------------------------ MODULE Logging ------------------------------
(***************************************************************************)
(* Logging.cpp: the log statements of the program, whose Loggers build     *)
(* their lines (LogStream) and hand them to the one AsyncLogging, which    *)
(* the first of them creates and starts, and stop_thread().                *)
(***************************************************************************)
EXTENDS AsyncLogging, LogStream

CONSTANT Scripts    \* what the program logs: sequences of statements

ASSUME ScriptsAssumption ==
  /\ Scripts \subseteq Seq(Statements)
  /\ \A s \in Scripts : \A m \in DOMAIN s : Line(s[m]).cur \in Lens

VARIABLE script     \* the one looked at; never changes

LogInit == Init /\ script \in Scripts

Statement(m) == script[m]

(***************************************************************************)
(* output(), called by ~Logger with its line.  The thread that gets there  *)
(* first runs once_init, and the others wait for it.                       *)
(***************************************************************************)
Output ==
  /\ Len(appended) < Len(script)
  /\ \/ StartEnter
     \/ Log(Line(Statement(Len(appended) + 1)).cur)

(* stop_thread(): before the first output() there is no AsyncLogger_. *)
StopTooEarly ==
  /\ stage = "new" /\ ~crashed
  /\ crashed' = TRUE
  /\ UNCHANGED <<callerVars, lost, buffers, buffersWaitToWrite, running_, pc,
                 file, disk>>

StopThread == Stop \/ StopTooEarly

OnceInit ==
  PthreadCreate \/ PthreadCreateFails \/ ThreadStarted \/ StartReturns

LogNext ==
  /\ UNCHANGED script
  /\ (~crashed /\ Output) \/ StopThread \/ OnceInit \/ Thread

LogSpec == LogInit /\ [][LogNext]_<<vars, script>>

(***************************************************************************)
(* The logging thread is scheduled and its waits time out; the thread in   *)
(* once_init is scheduled.  Nobody has to log or to stop.                  *)
(***************************************************************************)
LogFairSpec ==
  /\ LogSpec
  /\ WF_vars(Thread /\ UNCHANGED script)
  /\ WF_vars(OnceInit /\ UNCHANGED script)
-----------------------------------------------------------------------------
(***************************************************************************)
(* What reaches the disk are whole lines: a statement that leaves room for *)
(* the widest number is there with all its pieces; one that does not stays *)
(* inside its buffer, and ends its line, unless it fills the buffer to the *)
(* last byte (LogStream::operator<<, FixedBuffer::append, ~Logger).        *)
(***************************************************************************)
LinesSound ==
  \A m \in ToSet(OnDisk) :
    LET line == Line(Statement(m))
        pieces == Pieces(Statement(m))
    IN  /\ line.cur < SmallBuffer
        /\ TotalLength(pieces) + NumericSize <= SmallBuffer
             => line.data = pieces
        /\ Last(line.data) = Newline \/ LB!Avail(line) = 1
-----------------------------------------------------------------------------
(* What makes LinesSound inductive: only statements of the script arrive.  *)
Logged == script \in Scripts /\ Len(appended) <= Len(script)

LogIInv == IInv /\ Logged
=============================================================================

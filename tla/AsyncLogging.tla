---------------------------- MODULE AsyncLogging ----------------------------
(***************************************************************************)
(* The double buffered log: AsyncLogging::start, append, called by any     *)
(* thread, threadFunc, the logging thread, and stop(), over the            *)
(* FixedBuffers they exchange and the LogFile the thread writes.           *)
(*                                                                         *)
(* append runs under mutex_ and is one action.  The thread takes mutex_    *)
(* once a round, to take the full buffers and the current one; everything  *)
(* after that, and everything after the loop, it does without it.  A wait  *)
(* of waitForSeconds ends at any moment: notified, timed out, or neither.  *)
(* append and stop() are called once start() has returned.                 *)
(*                                                                         *)
(* Messages are numbered in the order of their appends; one whose append   *)
(* crashes is not counted.  An operator named X_Y is X with the defect Y:  *)
(* the properties have to tell it from X.                                  *)
(***************************************************************************)
EXTENDS Naturals, Sequences, SequencesExt

CONSTANTS
  Capacity,                 \* the size of a FixedBuffer, kLargerBuffer
  Lens,                     \* the lengths a message may have
  MaxAppends,               \* bound on the messages appended
  BacklogLimit,             \* 25
  Null                      \* a shared_ptr that owns nothing

ASSUME LoggingAssumption ==
  /\ Capacity \in Nat \ {0}
  /\ Lens \subseteq 1 .. Capacity - 1
  /\ MaxAppends \in Nat
  /\ BacklogLimit \in Nat
  /\ Null \notin [data : Seq(Nat), cur : Nat]

VARIABLES
  stage,                    \* how far start() has got
  threadLatch, latch_,      \* counts of Thread::latch_, AsyncLogging::latch_
  appended,                 \* history: the messages appended
  lost,                     \* history: one was dropped
  currentBuffer_,           \* a FixedBuffer, or Null
  nextBuffer_, newBuffer1, newBuffer2,  \* is there such an empty buffer?
  bufferPtrs_,              \* full buffers
  buffersWaitToWrite,       \* the buffers of this round
  running_,
  pc,                       \* of the logging thread
  file, disk,               \* what was written, and how much of it is on disk
  crashed                   \* the process has dereferenced a null pointer

buffers == <<currentBuffer_, nextBuffer_, newBuffer1, newBuffer2, bufferPtrs_>>
startVars == <<stage, threadLatch, latch_>>
callerVars == <<startVars, appended>>
vars == <<callerVars, lost, buffers, buffersWaitToWrite, running_, pc,
          file, disk, crashed>>

FB == INSTANCE FixedBuffer WITH Size <- Capacity

(* A FixedBuffer fresh or reset, if there is one to move. *)
Taken(present) == IF present THEN FB!Empty ELSE Null

Contents(bs) == FlattenSeq([i \in DOMAIN bs |-> bs[i].data])

Init ==
  /\ stage = "new"
  /\ threadLatch = 1
  /\ latch_ = 1
  /\ appended = <<>>
  /\ lost = FALSE
  /\ currentBuffer_ = FB!Empty
  /\ nextBuffer_ = TRUE
  /\ newBuffer1 = TRUE
  /\ newBuffer2 = TRUE
  /\ bufferPtrs_ = <<>>
  /\ buffersWaitToWrite = <<>>
  /\ running_ = FALSE
  /\ pc = "none"
  /\ file = <<>>
  /\ disk = 0
  /\ crashed = FALSE
-----------------------------------------------------------------------------
(***************************************************************************)
(* AsyncLogging::start and Thread::start: two latches, one behind the      *)
(* other, of which the new thread opens the first before threadFunc and    *)
(* the second inside it.                                                   *)
(***************************************************************************)
restVars == <<appended, lost, buffers, buffersWaitToWrite, file, disk,
              crashed>>

StartEnter ==
  /\ stage = "new"
  /\ running_' = TRUE
  /\ stage' = "create"
  /\ UNCHANGED <<threadLatch, latch_, pc, restVars>>

PthreadCreate ==
  /\ stage = "create"
  /\ pc' = "born"
  /\ stage' = "threadWait"
  /\ UNCHANGED <<threadLatch, latch_, running_, restVars>>

(* Thread::start() gives up silently, and start() goes on to its latch. *)
PthreadCreateFails ==
  /\ stage = "create"
  /\ stage' = "startWait"
  /\ UNCHANGED <<threadLatch, latch_, running_, pc, restVars>>

ThreadStarted ==
  /\ stage = "threadWait"
  /\ threadLatch = 0
  /\ stage' = "startWait"
  /\ UNCHANGED <<threadLatch, latch_, running_, pc, restVars>>

StartReturns ==
  /\ stage = "startWait"
  /\ latch_ = 0
  /\ stage' = "up"
  /\ UNCHANGED <<threadLatch, latch_, running_, pc, restVars>>

RunInThread ==
  /\ pc = "born"
  /\ threadLatch' = threadLatch - 1
  /\ pc' = "entering"
  /\ UNCHANGED <<stage, latch_, running_, restVars>>

EnterThreadFunc_NoCountDown ==
  /\ pc = "entering"
  /\ pc' = "check"
  /\ UNCHANGED <<startVars, running_, restVars>>

EnterThreadFunc ==
  /\ pc = "entering"
  /\ latch_' = latch_ - 1
  /\ pc' = "check"
  /\ UNCHANGED <<stage, threadLatch, running_, restVars>>
-----------------------------------------------------------------------------
(***************************************************************************)
(* AsyncLogging::append.                                                   *)
(***************************************************************************)
Fits(len) == FB!Avail(currentBuffer_) >= len

Store(m, len) ==
  /\ currentBuffer_' = FB!Put(currentBuffer_, m, len)
  /\ UNCHANGED <<bufferPtrs_, nextBuffer_>>

(* Of nextBuffer_ or a new buffer: both are empty. *)
Refill(m, len) ==
  /\ currentBuffer_' = FB!Put(FB!Empty, m, len)
  /\ nextBuffer_' = FALSE

Rotate_MovedFrom(m, len) ==
  bufferPtrs_' = Append(bufferPtrs_, Null) /\ Refill(m, len)

Rotate_Forgets(m, len) == UNCHANGED bufferPtrs_ /\ Refill(m, len)

Rotate_InFront(m, len) ==
  bufferPtrs_' = <<currentBuffer_>> \o bufferPtrs_ /\ Refill(m, len)

Rotate(m, len) ==
  bufferPtrs_' = Append(bufferPtrs_, currentBuffer_) /\ Refill(m, len)

(***************************************************************************)
(* Once running_ is FALSE the logging thread may be moving currentBuffer_  *)
(* away without mutex_: what an append does then is undefined.             *)
(***************************************************************************)
RacesLastWrite == pc = "final"

Log(len) ==
  LET m == Len(appended) + 1
  IN  /\ stage = "up" /\ ~crashed
      /\ m <= MaxAppends
      /\ \/ /\ currentBuffer_ # Null
            /\ \/ Fits(len) /\ Store(m, len)
               \/ ~Fits(len) /\ Rotate(m, len)
            /\ appended' = Append(appended, m)
            /\ lost' = (lost \/ m \notin ToSet(currentBuffer_'.data))
            /\ UNCHANGED crashed
         \/ /\ currentBuffer_ = Null \/ RacesLastWrite
            /\ crashed' = TRUE
            /\ UNCHANGED <<appended, currentBuffer_, nextBuffer_, bufferPtrs_,
                           lost>>
      /\ UNCHANGED <<startVars, newBuffer1, newBuffer2, buffersWaitToWrite,
                     running_, pc, file, disk>>

(* stop(): the notify is for a wait that ends anyway, the join is "done". *)
Stop ==
  /\ stage = "up" /\ running_ /\ ~crashed
  /\ running_' = FALSE
  /\ UNCHANGED <<startVars, pc, restVars>>
-----------------------------------------------------------------------------
(***************************************************************************)
(* AsyncLogging::threadFunc.                                               *)
(***************************************************************************)
Check ==
  /\ pc = "check" /\ ~crashed
  /\ pc' = IF running_ THEN "lock" ELSE "final"
  /\ UNCHANGED <<callerVars, lost, buffers, buffersWaitToWrite, running_,
                 file, disk, crashed>>

Wait ==
  /\ pc = "lock" /\ ~crashed
  /\ bufferPtrs_ = <<>>
  /\ pc' = "waiting"
  /\ UNCHANGED <<callerVars, lost, buffers, buffersWaitToWrite, running_,
                 file, disk, crashed>>

Replace ==
  /\ currentBuffer_' = Taken(newBuffer1)
  /\ newBuffer1' = FALSE
  /\ nextBuffer_' = (nextBuffer_ \/ newBuffer2)
  /\ newBuffer2' = (nextBuffer_ /\ newBuffer2)

(* The rest of the locked part of a round. *)
Swap ==
  /\ ~crashed
  /\ pc = "waiting" \/ (pc = "lock" /\ bufferPtrs_ # <<>>)
  /\ buffersWaitToWrite' = Append(bufferPtrs_, currentBuffer_)
  /\ bufferPtrs_' = <<>>
  /\ Replace
  /\ pc' = "backlog"
  /\ UNCHANGED <<callerVars, lost, running_, file, disk, crashed>>

(***************************************************************************)
(* The check for too many waiting buffers looks at bufferPtrs_, which was  *)
(* just emptied and may be growing again, but erases from the buffers of   *)
(* the round: from the third one on, whether or not there are two.         *)
(***************************************************************************)
Backlog ==
  LET tooMany == Len(bufferPtrs_) > BacklogLimit
  IN  /\ pc = "backlog" /\ ~crashed
      /\ \/ /\ ~tooMany
            /\ UNCHANGED <<buffersWaitToWrite, lost, crashed>>
         \/ /\ tooMany /\ Len(buffersWaitToWrite) >= 2
            /\ buffersWaitToWrite' = SubSeq(buffersWaitToWrite, 1, 2)
            /\ lost' = (lost \/ Len(buffersWaitToWrite) > 2)
            /\ UNCHANGED crashed
         \/ /\ tooMany /\ Len(buffersWaitToWrite) < 2
            /\ crashed' = TRUE
            /\ UNCHANGED <<buffersWaitToWrite, lost>>
      /\ pc' = "write"
      /\ UNCHANGED <<callerVars, buffers, running_, file, disk>>

(***************************************************************************)
(* LogFile::append of each buffer: stdio, or a flush for every 1024th      *)
(* append, may put any part of it on disk.  When fwrite fails, FileUtil    *)
(* complains, and the rest of that buffer is gone; the next one is tried.  *)
(* At most one buffer of a round is modelled to meet that.                 *)
(***************************************************************************)
WriteAll(bs) == file' = file \o Contents(bs) /\ UNCHANGED lost

WriteFails(bs) ==
  \E i \in DOMAIN bs :
    \E k \in 0 .. Len(bs[i].data) - 1 :
      /\ file' = file \o Contents([bs EXCEPT ![i].data = SubSeq(@, 1, k)])
      /\ lost' = TRUE

Write ==
  /\ pc = "write" /\ ~crashed
  /\ WriteAll(buffersWaitToWrite) \/ WriteFails(buffersWaitToWrite)
  /\ disk' \in disk .. Len(file')
  /\ pc' = "recycle"
  /\ UNCHANGED <<callerVars, buffers, buffersWaitToWrite, running_, crashed>>

Flush == disk' = Len(file')

(* One written buffer becomes newBuffer1.  When newBuffer2 is missing too, *)
(* another one is put in newBuffer1 and newBuffer2 dereferenced.           *)
Recycle_NoFlush ==
  /\ pc = "recycle" /\ ~crashed
  /\ newBuffer1' = TRUE
  /\ buffersWaitToWrite' = <<>>
  /\ pc' = "check"
  /\ UNCHANGED <<callerVars, lost, currentBuffer_, nextBuffer_, newBuffer2,
                 bufferPtrs_, running_, file, disk, crashed>>

Recycle_NotTaken ==
  /\ pc = "recycle" /\ ~crashed
  /\ buffersWaitToWrite' = <<>>
  /\ UNCHANGED file /\ Flush
  /\ pc' = "check"
  /\ UNCHANGED <<callerVars, lost, buffers, running_, crashed>>

Recycle ==
  /\ pc = "recycle" /\ ~crashed
  /\ newBuffer1' = TRUE
  /\ buffersWaitToWrite' = <<>>
  /\ UNCHANGED file
  /\ IF newBuffer2
     THEN Flush /\ UNCHANGED crashed
     ELSE crashed' = TRUE /\ UNCHANGED disk
  /\ pc' = "check"
  /\ UNCHANGED <<callerVars, lost, currentBuffer_, nextBuffer_, newBuffer2,
                 bufferPtrs_, running_>>

(* After the loop, all without mutex_. *)
Final_FullOnly ==
  /\ pc = "final" /\ ~crashed
  /\ currentBuffer_' = Null
  /\ pc' = "finalWrite"
  /\ UNCHANGED <<callerVars, lost, nextBuffer_, newBuffer1, newBuffer2,
                 bufferPtrs_, buffersWaitToWrite, running_, file, disk,
                 crashed>>

Final ==
  /\ pc = "final" /\ ~crashed
  /\ bufferPtrs_' = Append(bufferPtrs_, currentBuffer_)
  /\ currentBuffer_' = Null
  /\ pc' = "finalWrite"
  /\ UNCHANGED <<callerVars, lost, nextBuffer_, newBuffer1, newBuffer2,
                 buffersWaitToWrite, running_, file, disk, crashed>>

FinalWrite ==
  /\ pc = "finalWrite" /\ ~crashed
  /\ WriteAll(bufferPtrs_) \/ WriteFails(bufferPtrs_)
  /\ Flush
  /\ bufferPtrs_' = <<>>
  /\ pc' = "done"
  /\ UNCHANGED <<callerVars, currentBuffer_, nextBuffer_, newBuffer1,
                 newBuffer2, buffersWaitToWrite, running_, crashed>>
-----------------------------------------------------------------------------
Start ==
  StartEnter \/ PthreadCreate \/ PthreadCreateFails \/ ThreadStarted
    \/ StartReturns

Thread ==
  \/ RunInThread \/ EnterThreadFunc
  \/ Check \/ Wait \/ Swap \/ Backlog \/ Write \/ Recycle
  \/ Final \/ FinalWrite

Next == Start \/ (\E len \in Lens : Log(len)) \/ Stop \/ Thread

Spec == Init /\ [][Next]_vars

(* Both threads are scheduled, and the waits of the logging one time out. *)
Fairness == WF_vars(Thread) /\ WF_vars(Start)
-----------------------------------------------------------------------------
Messages == 1 .. MaxAppends

Buffers == [data : Seq(Messages), cur : 0 .. Capacity - 1]

TypeOK ==
  /\ stage \in {"new", "create", "threadWait", "startWait", "up"}
  /\ threadLatch \in 0 .. 1 /\ latch_ \in 0 .. 1
  /\ appended \in Seq(Messages)
  /\ lost \in BOOLEAN
  /\ currentBuffer_ \in Buffers \cup {Null}
  /\ nextBuffer_ \in BOOLEAN
  /\ newBuffer1 \in BOOLEAN /\ newBuffer2 \in BOOLEAN
  /\ bufferPtrs_ \in Seq(Buffers)
  /\ buffersWaitToWrite \in Seq(Buffers)
  /\ running_ \in BOOLEAN
  /\ pc \in {"none", "born", "entering", "check", "lock", "waiting", "backlog",
             "write", "recycle", "final", "finalWrite", "done"}
  /\ file \in Seq(Messages)
  /\ disk \in 0 .. Len(file)
  /\ crashed \in BOOLEAN

OnDisk == SubSeq(file, 1, disk)

(***************************************************************************)
(* As long as the logger runs, append finds a buffer: the buffers that     *)
(* rotate between callers and thread never run out (append, threadFunc).   *)
(***************************************************************************)
BufferForAppend == running_ => currentBuffer_ # Null

(***************************************************************************)
(* Nothing is lost or reordered on the way: the file and the buffers, in   *)
(* the order they are to be written, hold exactly what was appended, until *)
(* append or the backlog drops something (append, threadFunc).             *)
(***************************************************************************)
Unwritten == IF pc \in {"backlog", "write"} THEN Contents(buffersWaitToWrite)
                                            ELSE <<>>
Current == IF currentBuffer_ = Null THEN <<>> ELSE currentBuffer_.data

Stored == file \o Unwritten \o Contents(bufferPtrs_) \o Current

NothingLost == ~crashed /\ ~lost => appended = Stored

(***************************************************************************)
(* start() returns once the thread exists: each of the two latches is      *)
(* opened by a step the other does not wait for.  A thread that could not  *)
(* be created leaves start() waiting for ever (start, Thread::start).      *)
(***************************************************************************)
NotCreated == pc = "none" /\ stage = "startWait"

LoggerStarts == (stage # "new") ~> (stage = "up" \/ NotCreated)

(***************************************************************************)
(* stop() returns, with everything appended on disk: the last write the    *)
(* readme promises (threadFunc, waitForSeconds), unless an append overlaps *)
(* that write.                                                             *)
(***************************************************************************)
Stopped == stage = "up" /\ ~running_

Drained == pc = "done" /\ (lost \/ OnDisk = appended)

OverlapsLastWrite == crashed /\ pc \in {"final", "finalWrite"}

StopDrains == Stopped ~> (Drained \/ OverlapsLastWrite)

(* The same for a process that lives on. *)
StopDrainsOrCrashes == Stopped ~> (Drained \/ crashed)

(***************************************************************************)
(* Every message appended and not dropped reaches the disk, without a stop *)
(* and without a full buffer, if the process lives on (threadFunc).        *)
(***************************************************************************)
AllReachDisk ==
  \A m \in Messages :
    m \in ToSet(appended) ~> (m \in ToSet(OnDisk) \/ lost \/ crashed)

(***************************************************************************)
(* Callers see a LogPipe: whatever is lost, to a full buffer, a backlog or *)
(* a crash, the file has no message twice and none before an earlier one,  *)
(* and when nothing is, a growing prefix of what they appended.            *)
(***************************************************************************)
LP == INSTANCE LogPipe WITH
  submitted <- Len(appended), onDisk <- OnDisk, lossy <- lost,
  closed <- (pc = "done")

ImplementsLogPipe == LP!Spec
-----------------------------------------------------------------------------
(***************************************************************************)
(* What makes these properties inductive.                                  *)
(***************************************************************************)
(* How far start() and the thread have come shows in the latches; a spare  *)
(* is there whenever the thread may lock; only the last write takes the    *)
(* current buffer away, after running_ has become FALSE.                   *)
Phases ==
  /\ latch_ = 1 <=> pc \in {"none", "born", "entering"}
  /\ threadLatch = 1 <=> pc \in {"none", "born"}
  /\ stage \in {"new", "create"} => pc = "none"
  /\ pc \in {"none", "born", "entering", "check", "lock", "waiting"}
       => newBuffer1
  /\ pc \in {"final", "finalWrite", "done"} => ~running_
  /\ currentBuffer_ = Null <=> pc \in {"finalWrite", "done"}
  /\ pc = "done" => bufferPtrs_ = <<>>

Numbered == \A i \in DOMAIN appended : appended[i] = i

Increasing(s) == \A i, j \in DOMAIN s : i < j => s[i] < s[j]

(* Whatever was lost, what is left is in the order it was appended in.     *)
InOrder ==
  /\ Increasing(Stored)
  /\ \A i \in DOMAIN Stored : Stored[i] <= Len(appended)

IInv ==
  TypeOK /\ BufferForAppend /\ NothingLost /\ Phases /\ Numbered /\ InOrder
=============================================================================

------------------------------- MODULE Writer -------------------------------
(***************************************************************************)
(* class Writer (include/download/Worker.h, source/download/Worker.cpp):   *)
(* the queue between the network thread, which calls add(), and the disk   *)
(* thread created by start(), which pops jobs and writes them.             *)
(*                                                                         *)
(* A step is a region the other thread cannot see into: what add() does    *)
(* while it holds mx is one step, guarded by mx being free; the disk       *)
(* thread's steps are cut at every lock, unlock and wait.                  *)
(***************************************************************************)
EXTENDS Integers, Sequences

CONSTANTS Byte,       \* the values of a byte; 0 is the filler of a gap
          Jobs,       \* the jobs add() may be given: [b, offset]
          MaxAdds     \* bound on the calls of add() in one life

ASSUME WriterConstants ==
  /\ 0 \in Byte
  /\ Jobs \subseteq [b : Seq(Byte), offset : Nat]
  /\ MaxAdds \in Nat

VARIABLES q,          \* std::queue<Job> q
          mx,         \* the mutex: "free", or "t" while the disk thread has it
          stop_flag,  \* bool stop_flag
          tpc,        \* where the disk thread t is
          inhand,     \* its local Job j: <<>> or <<j>>
          good,       \* the state of std::ofstream out
          file,       \* the bytes given to out, as a sequence from offset 0
          mpc,        \* where the owner of the Writer is in its life
          added,      \* history: every job pushed, in order
          written     \* history: every job passed to out.write, in order

fileVars == <<good, file>>
vars == <<q, mx, stop_flag, tpc, inhand, good, file, mpc, added, written>>

ThreadStates == {"none", "lock", "wait", "waiting", "woken", "drain",
                 "write", "relock", "done"}
OwnerStates == {"constructed", "running", "notify", "join", "destroyed"}

-----------------------------------------------------------------------------
(* The output file. *)

MaxOf(m, n) == IF m >= n THEN m ELSE n

\* out.seekp(off); out.write(b): overwrites in place, extends the file, and
\* leaves zeros where it was extended over a gap.
WriteAt(f, off, b) ==
  IF b = <<>> THEN f
  ELSE [i \in 1 .. MaxOf(Len(f), off + Len(b)) |->
          IF i > off /\ i <= off + Len(b) THEN b[i - off]
          ELSE IF i <= Len(f) THEN f[i] ELSE 0]

-----------------------------------------------------------------------------
(* The owner: Downloader's constructor, Start, OnBlockReceived, destructor. *)

\* Opening the file may fail; the constructor does not look.
Init ==
  /\ q = <<>> /\ mx = "free" /\ stop_flag = FALSE
  /\ tpc = "none" /\ inhand = <<>>
  /\ good \in BOOLEAN /\ file = <<>>
  /\ mpc = "constructed"
  /\ added = <<>> /\ written = <<>>

\* cv.notify_one(): wakes the disk thread if it sleeps, else has no effect.
NotifyOne == tpc' = IF tpc = "waiting" THEN "woken" ELSE tpc

start ==
  /\ mpc = "constructed"
  /\ mpc' = "running"
  /\ tpc' = "lock"
  /\ UNCHANGED <<q, mx, stop_flag, inhand, good, file, added, written>>

\* Faulty variant of add: the job is pushed but nobody is notified.
addWithoutNotify(j) ==
  /\ mpc = "running" /\ mx = "free" /\ Len(added) < MaxAdds
  /\ q' = Append(q, j)
  /\ added' = Append(added, j)
  /\ UNCHANGED <<mx, stop_flag, tpc, inhand, good, file, mpc, written>>

\* Downloader::Start starts the thread before any connection can deliver.
add(j) ==
  /\ mpc = "running" /\ mx = "free" /\ Len(added) < MaxAdds
  /\ q' = Append(q, j)
  /\ added' = Append(added, j)
  /\ NotifyOne
  /\ UNCHANGED <<mx, stop_flag, inhand, good, file, mpc, written>>

\* ~Writer: the flag is set under the lock ...
SetStop ==
  /\ mpc \in {"constructed", "running"} /\ mx = "free"
  /\ stop_flag' = TRUE
  /\ mpc' = "notify"
  /\ UNCHANGED <<q, mx, tpc, inhand, good, file, added, written>>

\* Faulty variant of StopNotify: the destructor goes straight to join().
StopWithoutNotify ==
  /\ mpc = "notify"
  /\ mpc' = "join"
  /\ UNCHANGED <<q, mx, stop_flag, tpc, inhand, good, file, added, written>>

\* ... the thread is notified after the lock is released ...
StopNotify ==
  /\ mpc = "notify"
  /\ NotifyOne
  /\ mpc' = "join"
  /\ UNCHANGED <<q, mx, stop_flag, inhand, good, file, added, written>>

\* Faulty variant of Join: the destructor does not wait for the thread.
Detach ==
  /\ mpc = "join"
  /\ mpc' = "destroyed"
  /\ UNCHANGED <<q, mx, stop_flag, tpc, inhand, good, file, added, written>>

\* ... and joined, if it was ever started.
Join ==
  /\ mpc = "join" /\ tpc \in {"none", "done"}
  /\ mpc' = "destroyed"
  /\ UNCHANGED <<q, mx, stop_flag, tpc, inhand, good, file, added, written>>

-----------------------------------------------------------------------------
(* The disk thread: the lambda of start(). *)

\* unique_lock at the top of the loop, or the re-acquisition inside cv.wait.
LockForWait ==
  /\ tpc \in {"lock", "woken"} /\ mx = "free"
  /\ mx' = "t" /\ tpc' = "wait"
  /\ UNCHANGED <<q, stop_flag, inhand, good, file, mpc, added, written>>

\* The predicate of cv.wait; sleeping releases the lock atomically.
EvalPredicate ==
  /\ tpc = "wait"
  /\ IF q # <<>> \/ stop_flag
       THEN tpc' = "drain" /\ UNCHANGED mx
       ELSE tpc' = "waiting" /\ mx' = "free"
  /\ UNCHANGED <<q, stop_flag, inhand, good, file, mpc, added, written>>

\* A condition variable may wake without a notification.
SpuriousWakeup ==
  /\ tpc = "waiting"
  /\ tpc' = "woken"
  /\ UNCHANGED <<q, mx, stop_flag, inhand, good, file, mpc, added, written>>

\* Faulty variant of Pop: the buffer of the job is read after the move.
PopMovedFrom ==
  /\ tpc = "drain" /\ q # <<>>
  /\ inhand' = <<[Head(q) EXCEPT !.b = <<>>]>>
  /\ q' = Tail(q)
  /\ mx' = "free" /\ tpc' = "write"
  /\ UNCHANGED <<stop_flag, good, file, mpc, added, written>>

\* Faulty variant of Pop: takes the newest job.
PopBack ==
  /\ tpc = "drain" /\ q # <<>>
  /\ inhand' = <<q[Len(q)]>>
  /\ q' = SubSeq(q, 1, Len(q) - 1)
  /\ mx' = "free" /\ tpc' = "write"
  /\ UNCHANGED <<stop_flag, good, file, mpc, added, written>>

Pop ==
  /\ tpc = "drain" /\ q # <<>>
  /\ inhand' = <<Head(q)>>
  /\ q' = Tail(q)
  /\ mx' = "free" /\ tpc' = "write"
  /\ UNCHANGED <<stop_flag, good, file, mpc, added, written>>

\* Faulty variant of WriteJob: the seek is forgotten, data is appended.
WriteWithoutSeek ==
  /\ tpc = "write"
  /\ file' = IF good THEN WriteAt(file, Len(file), inhand[1].b) ELSE file
  /\ written' = Append(written, inhand[1])
  /\ inhand' = <<>> /\ tpc' = "relock"
  /\ UNCHANGED <<q, mx, stop_flag, good, mpc, added>>

\* seekp and write do nothing on a stream that has failed; a write that fails
\* may have stored a part of the data and leaves the stream failed for good.
\* Neither result is looked at.
WriteJob ==
  /\ tpc = "write"
  /\ LET j == inhand[1] IN
       \/ /\ good
          /\ file' = WriteAt(file, j.offset, j.b)
          /\ UNCHANGED good
       \/ /\ good
          /\ \E n \in 0 .. Len(j.b) :
               file' = WriteAt(file, j.offset, SubSeq(j.b, 1, n))
          /\ good' = FALSE
       \/ ~good /\ UNCHANGED fileVars
  /\ written' = Append(written, inhand[1])
  /\ inhand' = <<>> /\ tpc' = "relock"
  /\ UNCHANGED <<q, mx, stop_flag, mpc, added>>

Relock ==
  /\ tpc = "relock" /\ mx = "free"
  /\ mx' = "t" /\ tpc' = "drain"
  /\ UNCHANGED <<q, stop_flag, inhand, good, file, mpc, added, written>>

\* Faulty variant of LeaveDrain: stops as soon as it is told to.
LeaveOnStop ==
  /\ tpc = "drain" /\ (q = <<>> \/ stop_flag)
  /\ mx' = "free"
  /\ tpc' = IF stop_flag THEN "done" ELSE "lock"
  /\ UNCHANGED <<q, stop_flag, inhand, good, file, mpc, added, written>>

\* Faulty variant of LeaveDrain: the break is missing.
LeaveNever ==
  /\ tpc = "drain" /\ q = <<>>
  /\ mx' = "free"
  /\ tpc' = "lock"
  /\ UNCHANGED <<q, stop_flag, inhand, good, file, mpc, added, written>>

\* The inner loop is over: break on stop_flag, else the next iteration.  The
\* lock goes with the scope of unique_lock either way.
LeaveDrain ==
  /\ tpc = "drain" /\ q = <<>>
  /\ mx' = "free"
  /\ tpc' = IF stop_flag THEN "done" ELSE "lock"
  /\ UNCHANGED <<q, stop_flag, inhand, good, file, mpc, added, written>>

Thread == LockForWait \/ EvalPredicate \/ Pop \/ WriteJob \/ Relock
          \/ LeaveDrain

Destructor == SetStop \/ StopNotify \/ Join

Next ==
  \/ start
  \/ \E j \in Jobs : add(j)
  \/ Destructor
  \/ Thread
  \/ SpuriousWakeup

Spec == Init /\ [][Next]_vars

\* The scheduler runs a thread that can run, and the owner, once in the
\* destructor, has nothing else to do.  Waking up spuriously is never owed.
Fairness == WF_vars(Thread) /\ WF_vars(StopNotify) /\ WF_vars(Join)

FairSpec == Spec /\ Fairness

-----------------------------------------------------------------------------
(* Properties. *)

\* Every variable stays in its type.
TypeOK ==
  /\ q \in Seq(Jobs) /\ added \in Seq(Jobs) /\ written \in Seq(Jobs)
  /\ mx \in {"free", "t"}
  /\ stop_flag \in BOOLEAN /\ good \in BOOLEAN
  /\ tpc \in ThreadStates /\ mpc \in OwnerStates
  /\ inhand \in {<<>>} \cup {<<j>> : j \in Jobs}
  /\ file \in Seq(Byte)

\* No job is lost, duplicated or overtaken between add() and out.write():
\* what was written, what is in the thread's hand and what is queued are
\* together what was added, in order.
NothingLost == written \o inhand \o q = added

\* When ~Writer returns, every job ever added has been written.
DestroyedIsDrained == mpc = "destroyed" => written = added

\* A sleeping disk thread has nothing to do: the queue is empty, and if the
\* stop flag is up its notification is still to come.
NoLostWakeup ==
  tpc = "waiting" => q = <<>> /\ (stop_flag => mpc = "notify")

\* The bytes of job k are not touched by any later written job.
Untouched(k) ==
  \A m \in k + 1 .. Len(written) :
    \/ written[m].offset >= written[k].offset + Len(written[k].b)
    \/ written[k].offset >= written[m].offset + Len(written[m].b)

\* As long as the stream has not failed, the file holds each written job at
\* its offset, unless a later job was written over it: seeks never misplace
\* data, whatever the order of the offsets.
FileHoldsJobs ==
  good => \A k \in 1 .. Len(written) :
            LET w == written[k] IN
            Untouched(k) =>
              /\ w.b # <<>> => Len(file) >= w.offset + Len(w.b)
              /\ \A i \in 1 .. Len(w.b) : file[w.offset + i] = w.b[i]

\* No wake-up is lost: a job that was added is eventually written, even if
\* nothing is added after it and nobody stops the thread.
EveryJobWritten ==
  \A n \in 1 .. MaxAdds : (Len(added) >= n) ~> (Len(written) >= n)

\* ~Writer returns once it has been entered, whatever the thread was doing.
DestructorReturns == (mpc \in {"notify", "join"}) ~> (mpc = "destroyed")

\* The steps of the disk thread until it ends, once it has been told to stop.
StepsLeft ==
  3 * Len(q) + CASE tpc \in {"none", "done"} -> 0 [] tpc = "drain" -> 1
                 [] tpc \in {"wait", "relock"} -> 2
                 [] tpc \in {"lock", "woken", "write"} -> 3
                 [] tpc = "waiting" -> 4

\* ~Writer never waits longer than for what is queued: from the flag on nothing
\* gives the disk thread more to do, and all it does brings its end nearer.
StopIsNear ==
  [][stop_flag => /\ StepsLeft' <= StepsLeft
                  /\ Thread \/ SpuriousWakeup => StepsLeft' < StepsLeft]_vars

\* The mutex belongs to the disk thread exactly in its critical sections; it
\* has a job in hand exactly while it writes; it ends only with an empty queue
\* that nobody can fill any more.  With NothingLost this is inductive.
Control ==
  /\ mx = "t" <=> tpc \in {"wait", "drain"}
  /\ inhand # <<>> <=> tpc = "write"
  /\ stop_flag <=> mpc \in {"notify", "join", "destroyed"}
  /\ tpc = "none" => mpc # "running" /\ q = <<>>
  /\ mpc = "constructed" => tpc = "none"
  /\ tpc = "done" => stop_flag /\ q = <<>>
  /\ mpc = "destroyed" => tpc \in {"none", "done"}

WriterInv == TypeOK /\ NothingLost /\ NoLostWakeup /\ Control

\* Writer keeps the promise of JobLog.
Log == INSTANCE JobLog
         WITH accepted <- added, stored <- written,
              open <- (mpc # "destroyed")

ImplementsJobLog == Log!LogSpec

=============================================================================

------------------------------- MODULE Speed -------------------------------
(***************************************************************************)
(* class Speed (include/download/Worker.h, source/download/Worker.cpp):    *)
(* the two counters the network thread adds to, and the thread that draws  *)
(* them every 200 ms.  Nothing is locked: each counter is atomic by        *)
(* itself, and a step is one access to one of them.                        *)
(*                                                                         *)
(* stop_flag is an ordinary bool that two threads use.  The loop that      *)
(* tests it calls functions the compiler cannot see through, so the build  *)
(* reads it again in every round: the test is a step like the others.      *)
(***************************************************************************)
EXTENDS Naturals

VARIABLES
  bytes_downloaded,  \* bytes received since the program started
  session_bytes,     \* those not yet in a sample
  stop_flag,         \* bool stop_flag
  thread,            \* where the thread is
  owner,             \* where the owner is in the life of the object
  sampled,           \* history: the sum of all samples
  progress,          \* the bytes the bar is drawn for, in the round it is drawn
  shown              \* the bytes shown beside it

vars == <<bytes_downloaded, session_bytes, stop_flag, thread, owner, sampled,
          progress, shown>>

Init ==
  /\ bytes_downloaded = 0 /\ session_bytes = 0 /\ stop_flag = FALSE
  /\ thread = "none" /\ owner = "alive"
  /\ sampled = 0 /\ progress = 0 /\ shown = 0

start ==
  /\ thread = "none" /\ owner = "alive"
  /\ thread' = "test"
  /\ UNCHANGED <<bytes_downloaded, session_bytes, stop_flag, owner, sampled,
                 progress, shown>>

\* add(b), on the network thread: two atomic additions ...
addTotal(b) ==
  /\ bytes_downloaded' = bytes_downloaded + b
  /\ UNCHANGED <<session_bytes, stop_flag, thread, owner, sampled, progress,
                 shown>>

\* ... between which the thread may sample.
addSession(b) ==
  /\ session_bytes' = session_bytes + b
  /\ UNCHANGED <<bytes_downloaded, stop_flag, thread, owner, sampled, progress,
                 shown>>

\* while (!stop_flag)
Test ==
  /\ thread = "test"
  /\ thread' = IF stop_flag THEN "done" ELSE "sample"
  /\ UNCHANGED <<bytes_downloaded, session_bytes, stop_flag, owner, sampled,
                 progress, shown>>

\* Faulty variant of Sample: the counter is read and not reset.
SampleWithoutReset ==
  /\ thread = "sample"
  /\ sampled' = sampled + session_bytes
  /\ thread' = "progress"
  /\ UNCHANGED <<bytes_downloaded, session_bytes, stop_flag, owner, progress,
                 shown>>

\* session_bytes.exchange(0)
Sample ==
  /\ thread = "sample"
  /\ sampled' = sampled + session_bytes /\ session_bytes' = 0
  /\ thread' = "progress"
  /\ UNCHANGED <<bytes_downloaded, stop_flag, owner, progress, shown>>

\* The counter is read for the bar and the percentage ...
Progress ==
  /\ thread = "progress"
  /\ progress' = bytes_downloaded
  /\ thread' = "draw"
  /\ UNCHANGED <<bytes_downloaded, session_bytes, stop_flag, owner, sampled,
                 shown>>

\* ... and once more for the totals beside them; then progress is gone and the
\* thread sleeps.
Draw ==
  /\ thread = "draw"
  /\ shown' = bytes_downloaded /\ progress' = 0
  /\ thread' = "test"
  /\ UNCHANGED <<bytes_downloaded, session_bytes, stop_flag, owner, sampled>>

Thread == Test \/ Sample \/ Progress \/ Draw

\* Faulty variant of SetFlag: the destructor only waits.
SetNothing ==
  /\ owner = "alive"
  /\ owner' = "join"
  /\ UNCHANGED <<bytes_downloaded, session_bytes, stop_flag, thread, sampled,
                 progress, shown>>

\* ~Speed
SetFlag ==
  /\ owner = "alive"
  /\ stop_flag' = TRUE /\ owner' = "join"
  /\ UNCHANGED <<bytes_downloaded, session_bytes, thread, sampled, progress,
                 shown>>

Join ==
  /\ owner = "join" /\ thread \in {"none", "done"}
  /\ owner' = "gone"
  /\ UNCHANGED <<bytes_downloaded, session_bytes, stop_flag, thread, sampled,
                 progress, shown>>

=============================================================================

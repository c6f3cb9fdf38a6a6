------------------------------- MODULE JobLog -------------------------------
(***************************************************************************)
(* What download/Worker.h promises of class Writer, seen by the thread     *)
(* that calls it: a job that add() accepted is stored exactly once, in the *)
(* order of acceptance, and the destructor returns only when every         *)
(* accepted job has been stored.  No queue, no mutex, no thread.           *)
(***************************************************************************)
EXTENDS Naturals, Sequences

CONSTANT Jobs               \* the jobs a caller may hand over

VARIABLES accepted,         \* every job add() has taken, in order
          stored,           \* the jobs written to the file, in order
          open              \* FALSE once the destructor has returned

logVars == <<accepted, stored, open>>

LogInit ==
  /\ accepted = <<>>
  /\ stored = <<>>
  /\ open = TRUE

Accept(j) ==
  /\ open
  /\ accepted' = Append(accepted, j)
  /\ UNCHANGED <<stored, open>>

Store ==
  /\ open
  /\ Len(stored) < Len(accepted)
  /\ stored' = Append(stored, accepted[Len(stored) + 1])
  /\ UNCHANGED <<accepted, open>>

Close ==
  /\ open
  /\ stored = accepted
  /\ open' = FALSE
  /\ UNCHANGED <<accepted, stored>>

LogNext == (\E j \in Jobs : Accept(j)) \/ Store \/ Close

LogSpec == LogInit /\ [][LogNext]_logVars

=============================================================================

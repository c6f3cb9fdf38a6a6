---------------------------- MODULE WriterProofs ----------------------------
(***************************************************************************)
(* Proofs about Writer, for every set of jobs and every bound on add().    *)
(***************************************************************************)
EXTENDS Writer, SequenceTheorems, TLAPS

-----------------------------------------------------------------------------
(* How the three moves of a job - pushed, popped, written - leave the      *)
(* concatenation  written \o inhand \o q  alone.                           *)

\* Pushing at the back of the queue appends to the whole.
LEMMA PushMoves ==
  ASSUME NEW S, NEW w \in Seq(S), NEW h \in Seq(S), NEW r \in Seq(S),
         NEW j \in S
  PROVE  w \o h \o Append(r, j) = Append(w \o h \o r, j)
<1>1. w \o h \in Seq(S) /\ w \o h \o r \in Seq(S) /\ <<j>> \in Seq(S)
  BY ConcatProperties
<1>2. Append(r, j) = r \o <<j>>
  BY AppendIsConcat
<1>3. Append(w \o h \o r, j) = (w \o h \o r) \o <<j>>
  BY <1>1, AppendIsConcat
<1> QED
  BY <1>1, <1>2, <1>3, ConcatAssociative

\* Taking the head into the hand keeps the whole.
LEMMA PopMoves ==
  ASSUME NEW S, NEW w \in Seq(S), NEW r \in Seq(S), r # <<>>
  PROVE  w \o <<Head(r)>> \o Tail(r) = w \o <<>> \o r
<1>1. <<Head(r)>> \in Seq(S) /\ Tail(r) \in Seq(S)
  BY HeadTailProperties
<1>2. <<Head(r)>> \o Tail(r) = r
  <2>1. <<Head(r)>> \o Tail(r) \in Seq(S)
    BY <1>1, ConcatProperties
  <2>2. Len(<<Head(r)>> \o Tail(r)) = Len(r)
    BY <1>1, ConcatProperties, HeadTailProperties, LenProperties
  <2>3. \A i \in 1 .. Len(r) : (<<Head(r)>> \o Tail(r))[i] = r[i]
    BY <1>1, ConcatProperties, HeadTailProperties, LenProperties
  <2> QED
    BY <2>1, <2>2, <2>3, SeqEqual
<1>3. w \o <<>> = w
  BY ConcatEmptySeq
<1> QED
  BY <1>1, <1>2, <1>3, ConcatAssociative

\* Moving the job from the hand to the written ones keeps the whole.
LEMMA WriteMoves ==
  ASSUME NEW S, NEW w \in Seq(S), NEW r \in Seq(S), NEW j \in S
  PROVE  Append(w, j) \o <<>> \o r = w \o <<j>> \o r
<1>1. Append(w, j) = w \o <<j>> /\ Append(w, j) \in Seq(S)
  BY AppendIsConcat, AppendProperties
<1> QED
  BY <1>1, ConcatEmptySeq

-----------------------------------------------------------------------------
(* The inductive invariant. *)

\* Writing keeps the file a sequence of bytes.
LEMMA WriteAtType ==
  ASSUME NEW f \in Seq(Byte), NEW off \in Nat, NEW b \in Seq(Byte)
  PROVE  WriteAt(f, off, b) \in Seq(Byte)
<1>1. CASE b = <<>>
  BY <1>1 DEF WriteAt
<1>2. CASE b # <<>>
  <2> DEFINE n == MaxOf(Len(f), off + Len(b))
             g == [i \in 1 .. n |->
                     IF i > off /\ i <= off + Len(b) THEN b[i - off]
                     ELSE IF i <= Len(f) THEN f[i] ELSE 0]
  <2>1. n \in Nat
    BY LenProperties DEF MaxOf
  <2>2. \A i \in 1 .. n : g[i] \in Byte
    BY <2>1, LenProperties, ElementOfSeq, WriterConstants
  <2>3. g \in [1 .. n -> Byte]
    BY <2>2
  <2>4. g \in Seq(Byte)
    <3> HIDE DEF n, g
    <3> QED
      BY <2>1, <2>3
  <2> QED
    BY <1>2, <2>4 DEF WriteAt
<1> QED
  BY <1>1, <1>2

LEMMA InitInv == Init => WriterInv
<1> SUFFICES ASSUME Init PROVE WriterInv
  OBVIOUS
<1>1. TypeOK
  <2>1. <<>> \in Seq(Jobs) /\ <<>> \in Seq(Byte)
    BY EmptySeq
  <2> QED
    BY <2>1 DEF Init, TypeOK, ThreadStates, OwnerStates
<1>2. NothingLost
  BY EmptySeq, ConcatEmptySeq DEF Init, NothingLost
<1>3. NoLostWakeup /\ Control
  BY DEF Init, NoLostWakeup, Control
<1> QED
  BY <1>1, <1>2, <1>3 DEF WriterInv

\* One step per action; a step that moves a job cites the lemma on its move.
LEMMA StepInv == WriterInv /\ [Next]_vars => WriterInv'
<1> SUFFICES ASSUME WriterInv, [Next]_vars
             PROVE  WriterInv'
  OBVIOUS
<1> USE DEF WriterInv, ThreadStates, OwnerStates
<1>1. CASE start
  <2>1. TypeOK' /\ NothingLost'
    BY <1>1 DEF start, TypeOK, NothingLost
  <2>2. NoLostWakeup'
    BY <1>1 DEF start, NoLostWakeup
  <2>3. ~stop_flag /\ mx # "t" /\ inhand = <<>>
    BY <1>1 DEF start, Control
  <2>4. Control'
    BY <1>1, <2>3 DEF start, Control
  <2> QED
    BY <2>1, <2>2, <2>4
<1>2. ASSUME NEW j \in Jobs, add(j)
      PROVE  WriterInv'
  <2>1. TypeOK'
    BY <1>2, AppendProperties DEF add, NotifyOne, TypeOK
  <2>2. NothingLost'
    <3>1. inhand \in Seq(Jobs)
      <4>1. \A i \in Jobs : <<i>> \in Seq(Jobs)
        OBVIOUS
      <4> QED
        BY <4>1, EmptySeq DEF TypeOK
    <3>2. written \o inhand \o Append(q, j) = Append(added, j)
      <4>1. q \in Seq(Jobs) /\ written \in Seq(Jobs)
        BY DEF TypeOK
      <4>2. written \o inhand \o Append(q, j)
              = Append(written \o inhand \o q, j)
        BY <3>1, <4>1, PushMoves
      <4> QED
        BY <4>2 DEF NothingLost
    <3> QED
      BY <1>2, <3>2 DEF add, NothingLost
  <2>3. NoLostWakeup' /\ Control'
    BY <1>2 DEF add, NotifyOne, TypeOK, NoLostWakeup, Control
  <2> QED
    BY <2>1, <2>2, <2>3
<1>3. CASE SetStop
  BY <1>3 DEF SetStop, TypeOK, NothingLost, NoLostWakeup, Control
<1>4. CASE StopNotify
  BY <1>4 DEF StopNotify, NotifyOne, TypeOK, NothingLost, NoLostWakeup,
              Control
<1>5. CASE Join
  BY <1>5 DEF Join, TypeOK, NothingLost, NoLostWakeup, Control
<1>6. CASE LockForWait
  BY <1>6 DEF LockForWait, TypeOK, NothingLost, NoLostWakeup, Control
<1>7. CASE EvalPredicate
  BY <1>7 DEF EvalPredicate, TypeOK, NothingLost, NoLostWakeup, Control
<1>8. CASE Pop
  <2>1. inhand = <<>>
    BY <1>8 DEF Pop, Control
  <2>2. TypeOK'
    BY <1>8, HeadTailProperties DEF Pop, TypeOK
  <2>3. NothingLost'
    BY <1>8, <2>1, PopMoves DEF Pop, TypeOK, NothingLost
  <2>4. NoLostWakeup' /\ Control'
    BY <1>8 DEF Pop, TypeOK, NoLostWakeup, Control
  <2> QED
    BY <2>2, <2>3, <2>4
<1>9. CASE WriteJob
  <2>1. PICK j \in Jobs : inhand = <<j>>
    BY <1>9 DEF WriteJob, TypeOK, Control
  <2>2. /\ written' = Append(written, j) /\ inhand' = <<>>
        /\ tpc = "write" /\ tpc' = "relock"
        /\ UNCHANGED <<q, mx, stop_flag, mpc, added>>
    BY <1>9, <2>1 DEF WriteJob
  <2>3. j.b \in Seq(Byte) /\ j.offset \in Nat
    BY WriterConstants
  <2>4. good' \in BOOLEAN /\ file' \in Seq(Byte)
    <3>1. ASSUME NEW n \in 0 .. Len(j.b)
          PROVE  SubSeq(j.b, 1, n) \in Seq(Byte)
      BY <2>3, <3>1, LenProperties, ElementOfSeq, SubSeqProperties
    <3> QED
      BY <1>9, <2>1, <2>3, <3>1, WriteAtType DEF WriteJob, TypeOK, fileVars
  <2>5. TypeOK'
    BY <2>2, <2>4, AppendProperties DEF TypeOK
  <2>6. NothingLost'
    BY <2>1, <2>2, WriteMoves DEF TypeOK, NothingLost
  <2>7. NoLostWakeup' /\ Control'
    BY <2>2 DEF TypeOK, NoLostWakeup, Control
  <2> QED
    BY <2>5, <2>6, <2>7
<1>10. CASE Relock
  BY <1>10 DEF Relock, TypeOK, NothingLost, NoLostWakeup, Control
<1>11. CASE LeaveDrain
  BY <1>11 DEF LeaveDrain, TypeOK, NothingLost, NoLostWakeup, Control
<1>12. CASE SpuriousWakeup
  BY <1>12 DEF SpuriousWakeup, TypeOK, NothingLost, NoLostWakeup, Control
<1>13. CASE UNCHANGED vars
  BY <1>13 DEF vars, TypeOK, NothingLost, NoLostWakeup, Control
<1> QED
  BY <1>1, <1>2, <1>3, <1>4, <1>5, <1>6, <1>7, <1>8, <1>9, <1>10, <1>11,
     <1>12, <1>13
  DEF Next, Destructor, Thread

-----------------------------------------------------------------------------
(* The file. *)

\* What seekp and write leave in the file: the data at its offset, and every
\* byte outside it as it was.
LEMMA WriteAtBytes ==
  ASSUME NEW f \in Seq(Byte), NEW off \in Nat, NEW b \in Seq(Byte)
  PROVE  /\ b # <<>> => /\ Len(WriteAt(f, off, b)) = MaxOf(Len(f), off + Len(b))
                        /\ Len(WriteAt(f, off, b)) >= off + Len(b)
         /\ Len(WriteAt(f, off, b)) >= Len(f)
         /\ \A i \in 1 .. Len(b) : WriteAt(f, off, b)[off + i] = b[i]
         /\ \A p \in 1 .. Len(f) :
              p <= off \/ p > off + Len(b) => WriteAt(f, off, b)[p] = f[p]
         /\ \A p \in 1 .. Len(WriteAt(f, off, b)) :
              p > Len(f) /\ (p <= off \/ p > off + Len(b))
                => WriteAt(f, off, b)[p] = 0
<1>1. Len(f) \in Nat /\ Len(b) \in Nat
  BY LenProperties
<1>2. CASE b = <<>>
  <2>1. Len(b) = 0 /\ WriteAt(f, off, b) = f
    BY <1>2 DEF WriteAt
  <2> QED BY <1>1, <1>2, <2>1
<1>3. CASE b # <<>>
  <2> DEFINE n == MaxOf(Len(f), off + Len(b))
             g == [i \in 1 .. n |->
                     IF i > off /\ i <= off + Len(b) THEN b[i - off]
                     ELSE IF i <= Len(f) THEN f[i] ELSE 0]
  <2>1. n \in Nat /\ n >= Len(f) /\ n >= off + Len(b)
    BY <1>1 DEF MaxOf
  <2>2. WriteAt(f, off, b) = g
    BY <1>3 DEF WriteAt
  <2>3. DOMAIN g = 1 .. n
    OBVIOUS
  <2>4. WriteAt(f, off, b) \in Seq(Byte)
    BY WriteAtType
  <2>5. Len(g) = n
    <3>1. DOMAIN g = 1 .. Len(g) /\ Len(g) \in Nat
      BY <2>2, <2>4, LenProperties
    <3> HIDE DEF n, g
    <3> QED BY <2>1, <2>3, <3>1
  <2>6. \A i \in 1 .. Len(b) : g[off + i] = b[i]
    <3> SUFFICES ASSUME NEW i \in 1 .. Len(b) PROVE g[off + i] = b[i]
      OBVIOUS
    <3>1. off + i \in 1 .. n /\ off + i > off /\ off + i <= off + Len(b)
          /\ (off + i) - off = i
      BY <1>1, <2>1
    <3> HIDE DEF n
    <3> QED BY <3>1
  <2>7. \A p \in 1 .. n :
          p <= off \/ p > off + Len(b) =>
            g[p] = IF p <= Len(f) THEN f[p] ELSE 0
    <3> HIDE DEF n
    <3> QED BY <1>1, <2>1
  <2> HIDE DEF n, g
  <2>8. \A p \in 1 .. Len(f) : p \in 1 .. n
    BY <1>1, <2>1
  <2> QED BY <1>1, <2>1, <2>2, <2>5, <2>6, <2>7, <2>8 DEF n
<1> QED BY <1>2, <1>3

\* A job is where it belongs.
Holds(f, w) ==
  /\ w.b # <<>> => Len(f) >= w.offset + Len(w.b)
  /\ \A i \in 1 .. Len(w.b) : f[w.offset + i] = w.b[i]

\* A job just written is in the file; a job the next one does not touch stays.
LEMMA WriteHolds ==
  ASSUME NEW f \in Seq(Byte), NEW j \in Jobs
  PROVE  Holds(WriteAt(f, j.offset, j.b), j)
<1>1. j.offset \in Nat /\ j.b \in Seq(Byte)
  BY WriterConstants
<1> QED BY <1>1, WriteAtBytes DEF Holds

LEMMA WriteSpares ==
  ASSUME NEW f \in Seq(Byte), NEW j \in Jobs, NEW w \in Jobs, Holds(f, w),
         \/ j.offset >= w.offset + Len(w.b)
         \/ w.offset >= j.offset + Len(j.b)
  PROVE  Holds(WriteAt(f, j.offset, j.b), w)
<1>1. /\ j.offset \in Nat /\ j.b \in Seq(Byte)
      /\ w.offset \in Nat /\ w.b \in Seq(Byte)
  BY WriterConstants
<1> DEFINE g == WriteAt(f, j.offset, j.b)
<1>2. /\ Len(f) \in Nat /\ Len(j.b) \in Nat /\ Len(w.b) \in Nat
      /\ Len(g) \in Nat /\ (w.b # <<>> => Len(w.b) > 0)
  BY <1>1, WriteAtType, LenProperties, EmptySeq
<1>3. /\ Len(g) >= Len(f)
      /\ \A p \in 1 .. Len(f) :
           p <= j.offset \/ p > j.offset + Len(j.b) => g[p] = f[p]
  BY <1>1, WriteAtBytes
<1> HIDE DEF g
<1>4. ASSUME NEW i \in 1 .. Len(w.b) PROVE g[w.offset + i] = w.b[i]
  <2>1. w.b # <<>>
    BY <1>1, <1>4
  <2>2. w.offset + i \in 1 .. Len(f)
    BY <1>1, <1>2, <2>1 DEF Holds
  <2>3. w.offset + i <= j.offset \/ w.offset + i > j.offset + Len(j.b)
    BY <1>1, <1>2
  <2> QED BY <1>3, <2>2, <2>3 DEF Holds
<1>5. w.b # <<>> => Len(g) >= w.offset + Len(w.b)
  BY <1>1, <1>2, <1>3 DEF Holds
<1> QED BY <1>4, <1>5 DEF Holds, g

LEMMA FileStep == TypeOK /\ Control /\ FileHoldsJobs /\ [Next]_vars => FileHoldsJobs'
<1> SUFFICES ASSUME TypeOK, Control, FileHoldsJobs, [Next]_vars, good'
             PROVE  FileHoldsJobs'
  BY DEF FileHoldsJobs
<1>1. CASE UNCHANGED <<good, file, written>>
  BY <1>1 DEF FileHoldsJobs, Untouched
<1>2. CASE WriteJob
  <2>1. PICK j \in Jobs : inhand = <<j>>
    BY <1>2 DEF WriteJob, TypeOK, Control
  <2>2. /\ good /\ file' = WriteAt(file, j.offset, j.b)
        /\ written' = Append(written, j)
    BY <1>2, <2>1 DEF WriteJob, fileVars
  <2>3. /\ file \in Seq(Byte) /\ written \in Seq(Jobs)
        /\ Len(written) \in Nat /\ Len(written') = Len(written) + 1
        /\ written'[Len(written) + 1] = j
        /\ \A k \in 1 .. Len(written) :
             written'[k] = written[k] /\ written[k] \in Jobs
    BY <2>2 DEF TypeOK
  <2> SUFFICES ASSUME NEW k \in 1 .. Len(written'), Untouched(k)'
               PROVE  Holds(file', written'[k])
    BY <2>2 DEF FileHoldsJobs, Holds
  <2>4. CASE k = Len(written) + 1
    BY <2>2, <2>3, <2>4, WriteHolds
  <2>5. CASE k \in 1 .. Len(written)
    <3> DEFINE w == written[k]
    <3>1. Untouched(k)
      <4> SUFFICES ASSUME NEW m \in k + 1 .. Len(written)
                   PROVE  \/ written[m].offset >= w.offset + Len(w.b)
                          \/ w.offset >= written[m].offset + Len(written[m].b)
        BY DEF Untouched
      <4>1. m \in k + 1 .. Len(written') /\ m \in 1 .. Len(written)
        BY <2>3, <2>5
      <4> QED BY <2>3, <2>5, <4>1 DEF Untouched
    <3>2. Holds(file, w)
      BY <2>2, <2>5, <3>1 DEF FileHoldsJobs, Holds
    <3>3. \/ j.offset >= w.offset + Len(w.b)
          \/ w.offset >= j.offset + Len(j.b)
      <4>1. Len(written) + 1 \in k + 1 .. Len(written')
        BY <2>3, <2>5
      <4> QED BY <2>3, <2>5, <4>1 DEF Untouched
    <3> QED BY <2>2, <2>3, <2>5, <3>2, <3>3, WriteSpares
  <2> QED BY <2>3, <2>4, <2>5
<1> QED BY <1>1, <1>2
        DEF Next, start, add, Destructor, SetStop, StopNotify, Join, Thread,
            LockForWait, EvalPredicate, Pop, Relock, LeaveDrain,
            SpuriousWakeup, vars, fileVars

-----------------------------------------------------------------------------
(* The theorems. *)

\* The inductive invariant of Writer, for any jobs and any number of calls.
THEOREM WriterInvariant == Spec => []WriterInv
BY InitInv, StepInv, PTL DEF Spec

\* Every variable of Writer stays in its type.
THEOREM WriterTypes == Spec => []TypeOK
<1>1. WriterInv => TypeOK
  BY DEF WriterInv
<1> QED
  BY <1>1, WriterInvariant, PTL

\* No interleaving of add(), the disk thread and the destructor loses,
\* duplicates or reorders a job.
THEOREM WriterLosesNothing == Spec => []NothingLost
<1>1. WriterInv => NothingLost
  BY DEF WriterInv
<1> QED
  BY <1>1, WriterInvariant, PTL

\* The disk thread never sleeps on work it has not been woken for.
THEOREM WriterNoLostWakeup == Spec => []NoLostWakeup
<1>1. WriterInv => NoLostWakeup
  BY DEF WriterInv
<1> QED
  BY <1>1, WriterInvariant, PTL

\* As long as no write has failed, the file holds every written job at its
\* offset but for what later jobs wrote over it.
THEOREM WriterKeepsFile == Spec => []FileHoldsJobs
<1>1. Init => FileHoldsJobs
  BY DEF Init, FileHoldsJobs
<1>2. WriterInv => TypeOK /\ Control
  BY DEF WriterInv
<1> QED BY <1>1, <1>2, FileStep, WriterInvariant, PTL DEF Spec

\* Once the thread is over, or if it never was, everything is written.
LEMMA DrainedWhenOver ==
  ASSUME WriterInv, tpc \in {"none", "done"}
  PROVE  written = added
<1>1. inhand = <<>> /\ q = <<>>
  BY DEF WriterInv, Control
<1>2. written \o <<>> \o <<>> = written
  BY ConcatEmptySeq DEF WriterInv, TypeOK
<1> QED
  BY <1>1, <1>2 DEF WriterInv, NothingLost

\* ~Writer never returns before the last added job is written.
THEOREM WriterDrains == Spec => []DestroyedIsDrained
<1>1. WriterInv => DestroyedIsDrained
  BY DrainedWhenOver DEF WriterInv, Control, DestroyedIsDrained
<1> QED
  BY <1>1, WriterInvariant, PTL

\* ~Writer waits for a bounded number of steps of the disk thread: at most three
\* for each queued job and four more, whenever it is entered.
THEOREM WriterStopIsNear == Spec => StopIsNear
<1>1. WriterInv /\ [Next]_vars =>
        [stop_flag => /\ StepsLeft' <= StepsLeft
                      /\ Thread \/ SpuriousWakeup => StepsLeft' < StepsLeft]_vars
  <2> SUFFICES ASSUME WriterInv, Next, stop_flag
               PROVE  /\ StepsLeft' <= StepsLeft
                      /\ Thread \/ SpuriousWakeup => StepsLeft' < StepsLeft
    OBVIOUS
  <2>1. /\ Len(q) \in Nat /\ tpc \in ThreadStates /\ q \in Seq(Jobs)
        /\ mpc \in {"notify", "join", "destroyed"}
    BY DEF WriterInv, TypeOK, Control
  <2>2. StepsLeft \in Nat
    BY <2>1 DEF StepsLeft, ThreadStates
  <2>3. CASE start \/ SetStop \/ \E j \in Jobs : add(j)
    BY <2>1, <2>3 DEF start, SetStop, add
  <2>4. CASE StopNotify \/ Join
    <3>1. ~(Thread \/ SpuriousWakeup)
      <4>1. mpc' # mpc
        BY <2>4 DEF StopNotify, Join
      <4>2. Thread \/ SpuriousWakeup => mpc' = mpc
        BY DEF Thread, LockForWait, EvalPredicate, Pop, WriteJob, Relock,
               LeaveDrain, SpuriousWakeup
      <4> QED BY <4>1, <4>2
    <3>2. q' = q /\ (tpc' = tpc \/ (tpc = "waiting" /\ tpc' = "woken"))
      BY <2>4 DEF StopNotify, Join, NotifyOne
    <3>3. StepsLeft' <= StepsLeft
      BY <2>1, <3>2 DEF StepsLeft, ThreadStates
    <3> QED BY <3>1, <3>3
  <2>5. CASE LockForWait \/ EvalPredicate \/ Relock \/ LeaveDrain \/ SpuriousWakeup
    <3>1. /\ q' = q
          /\ \/ tpc \in {"lock", "woken"} /\ tpc' = "wait"
             \/ tpc = "wait" /\ tpc' = "drain"
             \/ tpc = "relock" /\ tpc' = "drain"
             \/ tpc = "drain" /\ tpc' = "done"
             \/ tpc = "waiting" /\ tpc' = "woken"
      BY <2>5 DEF LockForWait, EvalPredicate, Relock, LeaveDrain, SpuriousWakeup
    <3>2. StepsLeft' \in Nat /\ StepsLeft' < StepsLeft
      BY <2>1, <3>1 DEF StepsLeft
    <3> QED BY <2>2, <3>2
  <2>6. CASE Pop \/ WriteJob
    <3>1. \/ tpc = "drain" /\ tpc' = "write" /\ q # <<>> /\ q' = Tail(q)
          \/ tpc = "write" /\ tpc' = "relock" /\ q' = q
      BY <2>6 DEF Pop, WriteJob
    <3>2. q # <<>> => Len(Tail(q)) = Len(q) - 1
      BY <2>1
    <3>3. StepsLeft' \in Nat /\ StepsLeft' < StepsLeft
      BY <2>1, <3>1, <3>2 DEF StepsLeft
    <3> QED BY <2>2, <3>3
  <2> QED BY <2>3, <2>4, <2>5, <2>6 DEF Next, Destructor, Thread
<1> QED BY <1>1, WriterInvariant, PTL DEF Spec, StopIsNear

\* Every step of Writer is a step of JobLog or leaves its variables alone:
\* add() accepts, out.write stores the oldest job not yet stored, join closes.
THEOREM WriterImplementsJobLog == Spec => ImplementsJobLog
<1>1. Init => Log!LogInit
  BY DEF Init, Log!LogInit
<1>2. WriterInv /\ [Next]_vars => [Log!LogNext]_(Log!logVars)
  <2> SUFFICES ASSUME WriterInv, [Next]_vars
               PROVE  [Log!LogNext]_(Log!logVars)
    OBVIOUS
  <2> USE DEF Log!logVars
  <2>1. CASE start
    BY <2>1 DEF start
  <2>2. ASSUME NEW j \in Jobs, add(j)
        PROVE  Log!LogNext
    BY <2>2 DEF add, Log!LogNext, Log!Accept
  <2>3. CASE SetStop
    BY <2>3 DEF SetStop
  <2>4. CASE StopNotify
    BY <2>4 DEF StopNotify
  <2>5. CASE Join
    <3>1. written = added
      BY <2>5, DrainedWhenOver DEF Join
    <3> QED
      BY <2>5, <3>1 DEF Join, Log!LogNext, Log!Close
  <2>6. CASE Thread
    <3>1. CASE WriteJob
      <4>1. PICK j \in Jobs : inhand = <<j>>
        BY <3>1 DEF WriteJob, WriterInv, TypeOK, Control
      <4>2. added = written \o <<j>> \o q
        BY <4>1 DEF WriterInv, NothingLost
      <4>3. /\ written \o <<j>> \in Seq(Jobs)
            /\ Len(written \o <<j>>) = Len(written) + 1
            /\ (written \o <<j>>)[Len(written) + 1] = j
        BY ConcatProperties, LenProperties DEF WriterInv, TypeOK
      <4>4. /\ Len(added) = Len(written) + 1 + Len(q)
            /\ added[Len(written) + 1] = j
        BY <4>2, <4>3, ConcatProperties, LenProperties
           DEF WriterInv, TypeOK
      <4>5. Len(written) < Len(added)
        BY <4>4, LenProperties DEF WriterInv, TypeOK
      <4>6. mpc # "destroyed" /\ mpc' = mpc
        BY <3>1 DEF WriteJob, WriterInv, Control
      <4> QED
        BY <3>1, <4>1, <4>4, <4>5, <4>6
           DEF WriteJob, Log!LogNext, Log!Store
    <3> QED
      BY <2>6, <3>1 DEF Thread, LockForWait, EvalPredicate, Pop, Relock,
                        LeaveDrain
  <2>7. CASE SpuriousWakeup
    BY <2>7 DEF SpuriousWakeup
  <2>8. CASE UNCHANGED vars
    BY <2>8 DEF vars
  <2> QED
    BY <2>1, <2>2, <2>3, <2>4, <2>5, <2>6, <2>7, <2>8 DEF Next, Destructor
<1> QED
  BY <1>1, <1>2, WriterInvariant, PTL DEF Spec, ImplementsJobLog, Log!LogSpec

=============================================================================

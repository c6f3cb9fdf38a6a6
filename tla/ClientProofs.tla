---------------------------- MODULE ClientProofs ----------------------------
(***************************************************************************)
(* Proofs about the program as a whole: that it uses the Writer as the     *)
(* module Writer assumes, what is in the file whenever the process ends,   *)
(* what the progress thread shows, and that all of it is a Download.       *)
(***************************************************************************)
EXTENDS Client, FarmFlightProofs

\* The theorems about Writer, for the jobs of this program.
WP == INSTANCE WriterProofs WITH added <- jobs, Jobs <- PieceJobs,
                                 MaxAdds <- NumPieces + 1

-----------------------------------------------------------------------------
\* The program's jobs are jobs of Writer.
LEMMA PieceJobsAreJobs ==
  /\ 0 \in Byte /\ PieceJobs \subseteq [b : Seq(Byte), offset : Nat]
  /\ NumPieces + 1 \in Nat /\ PieceJobs = VerifiedJob
<1>1. PieceJobs = VerifiedJob
  BY DEF PieceJobs, VerifiedJob
<1> QED BY <1>1, VerifiedJobType, TorrentConstants

-----------------------------------------------------------------------------
(* What a step of the program is to the modules it is composed of. *)

\* The process is terminated: everything stops where it is.
Terminated ==
  /\ killed' = TRUE
  /\ UNCHANGED <<next_req_index, dlVars, connVars, readVars, peerVars, asked,
                 farmVars, envVars>>

\* To Farm it is one of its own steps, or the end.
LEMMA StepOfFarm ==
  ASSUME [ClientNext]_clientVars
  PROVE  [Next]_vars \/ Terminated
<1>1. CASE Main
  BY <1>1 DEF Main, NothingToDo, Construct, StartWriter, StartSpeed,
              ConstructFarm, StartThrows, StartReturns, DestroySpeed,
              DestroyWriter
<1>2. CASE NetworkThread
  BY <1>2 DEF NetworkThread, NetworkStep, CountRest, Next
<1>3. CASE DiskThread \/ ProgressThread
  BY <1>3 DEF DiskThread, ProgressThread
<1>4. ASSUME NEW c \in Conns, PeerStep(c)
      PROVE  [Next]_vars
  BY <1>4 DEF PeerStep, Next
<1>5. CASE Interrupt
  BY <1>5 DEF Interrupt, Terminated
<1>6. CASE UNCHANGED clientVars
  BY <1>6 DEF clientVars
<1> QED BY <1>1, <1>2, <1>3, <1>4, <1>5, <1>6 DEF ClientNext

LEMMA FarmKept ==
  ASSUME FarmInv, FlightInv, [Next]_vars \/ Terminated
  PROVE  FarmInv' /\ FlightInv'
<1>1. CASE [Next]_vars
  BY <1>1, FarmStep, FlightStep
<1>2. CASE Terminated
  <2> USE <1>2 DEF Terminated, dlVars, connVars, readVars, peerVars, farmVars, envVars
  <2>1. RequestInv'
    BY RequestFrame DEF FarmInv, requestVars
  <2>2. DownloaderInv'
    BY DEF FarmInv, DownloaderInv, DownloaderTypes, Pieces, VerifiedJob,
           PieceContent, Slice, PieceLen
  <2>3. WireInv'
    BY DEF FarmInv, WireInv, ReadTypes, PeerTypes, ReadInv, Message, PieceMsg,
           PeerRequest, Pieces, PieceLen
  <2>4. ControlTypes'
    BY DEF FarmInv, ControlTypes
  <2>5. FlightInv'
    <3>1. Apart
      BY DEF FlightInv, Apart
    <3>2. LandedCells' = LandedCells
      BY DEF LandedCells, Queued, Pieces, PieceLen, At, NoPiece
    <3>3. BufferInv' /\ WrittenOnce'
      BY DEF FlightInv, BufferInv, CountsDistinctBytes, WrittenOnce, PieceLen,
             NoPiece
    <3> QED BY <3>1, <3>2, <3>3 DEF Apart, FlightInv
  <2> QED BY <2>1, <2>2, <2>3, <2>4, <2>5 DEF FarmInv
<1> QED BY <1>1, <1>2

\* The two ways of naming Writer's step agree.
LEMMA WriterNext == W!Next => WP!Next
BY DEF W!Next, WP!Next, W!start, WP!start, W!add, WP!add, W!NotifyOne,
       WP!NotifyOne, W!Destructor, WP!Destructor, W!SetStop, WP!SetStop,
       W!StopNotify, WP!StopNotify, W!Join, WP!Join, W!Thread, WP!Thread,
       W!LockForWait, WP!LockForWait, W!EvalPredicate, WP!EvalPredicate,
       W!Pop, WP!Pop, W!WriteJob, WP!WriteJob, W!Relock, WP!Relock,
       W!LeaveDrain, WP!LeaveDrain, W!SpuriousWakeup, WP!SpuriousWakeup,
       W!WriteAt, WP!WriteAt, W!MaxOf, WP!MaxOf, W!fileVars, WP!fileVars

\* What is enqueued is a verified piece.
LEMMA EnqueueAdds ==
  ASSUME FarmInv, FarmInv', Enqueue
  PROVE  \/ UNCHANGED <<jobs, writerVars>>
         \/ \E j \in PieceJobs : W!add(j)
<1>1. CASE jobs' = jobs
  BY <1>1 DEF Enqueue
<1>2. CASE jobs' # jobs
  <2> DEFINE j == jobs'[Len(jobs')]
  <2>1. W!add(j) /\ jobs' = Append(jobs, j)
    BY <1>2 DEF Enqueue, W!add
  <2>2. jobs' \in Seq(VerifiedJob)
    BY DEF FarmInv, DownloaderInv, VerifiedJob, PieceContent, Slice, PieceLen,
           Pieces
  <2>3. jobs \in Seq(VerifiedJob)
    BY DEF FarmInv, DownloaderInv
  <2> DEFINE i == j
             js == jobs'
  <2>4. Len(js) \in 1 .. Len(js)
    <3> HIDE DEF j
    <3>1. Len(Append(jobs, j)) = Len(jobs) + 1 /\ Len(jobs) \in Nat
      BY <2>3
    <3> QED BY <2>1, <3>1
  <2>5. j \in VerifiedJob
    BY <2>2, <2>4
  <2> HIDE DEF j
  <2> QED BY <2>1, <2>5, PieceJobsAreJobs
<1> QED BY <1>1, <1>2

\* To Writer it is one of its own steps, or none.
LEMMA StepOfWriter ==
  ASSUME FarmInv, FarmInv', [ClientNext]_clientVars
  PROVE  [W!Next]_(W!vars)
<1> USE DEF W!vars, writerVars
<1>1. CASE UNCHANGED <<jobs, writerVars>>
  BY <1>1
<1>2. CASE Main
  <2>1. CASE StartWriter
    BY <2>1 DEF StartWriter, W!Next
  <2>2. CASE DestroyWriter
    BY <2>2 DEF DestroyWriter, W!Next, W!Destructor
  <2>3. CASE NothingToDo \/ Construct \/ StartSpeed \/ ConstructFarm
             \/ StartThrows \/ StartReturns \/ DestroySpeed
    <3>1. UNCHANGED <<vars, writerVars>>
      BY <2>3 DEF NothingToDo, Construct, StartSpeed, ConstructFarm, StartThrows,
                  StartReturns, DestroySpeed
    <3> QED BY <1>1, <3>1 DEF vars, dlVars
  <2> QED BY <1>2, <2>1, <2>2, <2>3 DEF Main
<1>3. CASE NetworkStep
  BY <1>1, <1>3, EnqueueAdds DEF NetworkStep, W!Next
<1>4. CASE CountRest \/ ProgressThread \/ Interrupt \/ UNCHANGED clientVars
  BY <1>1, <1>4 DEF CountRest, ProgressThread, Interrupt, clientVars, vars, dlVars
<1>5. CASE DiskThread
  BY <1>5 DEF DiskThread, W!Next
<1>6. ASSUME NEW c \in Conns, PeerStep(c)
      PROVE  UNCHANGED <<jobs, writerVars>>
  BY <1>6 DEF PeerStep, Peer, PeerGreet, PeerUnchoke, PeerChoke, PeerForgets,
              PeerHave, PeerServe, PeerCloses, OnlyPeer, dlVars
<1> QED BY <1>1, <1>2, <1>3, <1>4, <1>5, <1>6 DEF ClientNext, NetworkThread

LEMMA WriterKept ==
  ASSUME WP!WriterInv, [W!Next]_(W!vars)
  PROVE  WP!WriterInv'
<1>1. [WP!Next]_(WP!vars)
  BY WriterNext DEF W!vars, WP!vars
<1> QED BY <1>1, PieceJobsAreJobs, WP!StepInv

-----------------------------------------------------------------------------
(* The bytes counted are different bytes of the file. *)

\* Two positions in pieces are two positions in the file.
LEMMA PlaceInFile ==
  ASSUME NEW i \in Pieces, NEW p \in 1 .. PieceLen(i),
         NEW j \in Pieces, NEW s \in 1 .. PieceLen(j)
  PROVE  /\ i * PieceLength + p \in 1 .. Length
         /\ i * PieceLength + p = j * PieceLength + s => i = j /\ p = s
<1> DEFINE P == PieceLength
<1>1. /\ P \in Nat \ {0} /\ Length \in Nat /\ i \in Nat /\ j \in Nat
      /\ i * P \in Nat /\ j * P \in Nat
      /\ PieceLen(i) \in 1 .. P /\ PieceLen(j) \in 1 .. P
      /\ i * P + PieceLen(i) <= Length
  BY TorrentConstants, PieceLenType, PieceFits DEF Pieces
<1>2. p \in 1 .. P /\ s \in 1 .. P /\ i * P + p \in 1 .. Length
  BY <1>1
<1>3. ASSUME NEW a \in Nat, NEW b \in Nat, a < b,
             NEW t \in 1 .. P, NEW u \in 1 .. P
      PROVE  a * P + t # b * P + u
  <2>1. b * P = a * P + (b - a - 1) * P + P
    BY <1>1, <1>3
  <2>2. a * P \in Nat /\ b * P \in Nat /\ (b - a - 1) * P \in Nat
    BY <1>1, <1>3
  <2> HIDE DEF P
  <2> QED BY <1>1, <1>3, <2>1, <2>2
<1> HIDE DEF P
<1>4. i * P + p = j * P + s => i = j
  BY <1>1, <1>2, <1>3
<1> QED BY <1>1, <1>2, <1>4 DEF P

\* What has been asked for are positions in pieces ...
LEMMA AskedInPiece ==
  ASSUME RequestInv, NEW x \in AskedCells(asked)
  PROVE  \E i \in Pieces : \E p \in 1 .. PieceLen(i) : x = <<i, p>>
<1>1. PICK i \in Pieces : \E p \in 1 .. EndOf(asked[i]) : x = <<i, p>>
  BY AskedPair
<1>2. PICK p \in 1 .. EndOf(asked[i]) : x = <<i, p>>
  BY <1>1
<1>3. asked[i] \in Seq(Request) /\ PieceLen(i) \in Nat
  BY PieceLenType, TorrentConstants DEF RequestInv, RequestTypes
<1>4. EndOf(asked[i]) \in Nat /\ EndOf(asked[i]) <= PieceLen(i)
  <2>1. CASE Len(asked[i]) = 0
    BY <1>3, <2>1 DEF EndOf
  <2>2. CASE Len(asked[i]) # 0
    <3>1. Len(asked[i]) \in DOMAIN asked[i]
      BY <1>3, <2>2
    <3>2. asked[i][Len(asked[i])].begin + asked[i][Len(asked[i])].len <= PieceLen(i)
      BY <3>1 DEF RequestInv, RequestsTile
    <3> QED BY <1>3, <2>2, <3>2, EndOfType DEF EndOf
  <2> QED BY <2>1, <2>2
<1>5. p \in 1 .. PieceLen(i)
  BY <1>3, <1>4
<1> QED BY <1>2, <1>5

\* ... and so are not more than the file has bytes.
LEMMA AskedFits ==
  ASSUME RequestInv, NEW R \in SUBSET AskedCells(asked)
  PROVE  IsFiniteSet(R) /\ Cardinality(R) \in Nat /\ Cardinality(R) <= Length
<1> DEFINE place(x) == x[1] * PieceLength + x[2]
           f == [x \in R |-> place(x)]
<1>1. ASSUME NEW x \in R, NEW y \in R
      PROVE  place(x) \in 1 .. Length /\ (place(x) = place(y) => x = y)
  <2>1. PICK i \in Pieces : \E p \in 1 .. PieceLen(i) : x = <<i, p>>
    BY AskedInPiece
  <2>2. PICK p \in 1 .. PieceLen(i) : x = <<i, p>>
    BY <2>1
  <2>3. PICK j \in Pieces : \E p2 \in 1 .. PieceLen(j) : y = <<j, p2>>
    BY AskedInPiece
  <2>4. PICK t \in 1 .. PieceLen(j) : y = <<j, t>>
    BY <2>3
  <2>5. place(x) = i * PieceLength + p /\ place(y) = j * PieceLength + t
    BY <2>2, <2>4
  <2> HIDE DEF place
  <2>6. /\ i * PieceLength + p \in 1 .. Length
        /\ i * PieceLength + p = j * PieceLength + t => i = j /\ p = t
    BY PlaceInFile
  <2> QED BY <2>2, <2>4, <2>5, <2>6
<1> HIDE DEF place
<1>2. f \in Injection(R, 1 .. Length)
  BY <1>1 DEF Injection, IsInjective
<1> HIDE DEF f
<1>3. Length \in Nat
  BY TorrentConstants
<1>4. IsFiniteSet(1 .. Length) /\ Cardinality(1 .. Length) = Length
  BY <1>3, FS_Interval
<1>5. IsFiniteSet(R) /\ Cardinality(R) <= Cardinality(1 .. Length)
  BY <1>2, <1>4, FS_Injection
<1> QED BY <1>4, <1>5, FS_CardinalityType

\* A block has as many cells as bytes.
LEMMA CellsCounted ==
  ASSUME NEW i, NEW off \in Nat, NEW len \in Nat
  PROVE  IsFiniteSet(Cells(i, off, len)) /\ Cardinality(Cells(i, off, len)) = len
<1> DEFINE T == off + 1 .. off + len
           f == [p \in T |-> <<i, p>>]
<1>1. IsFiniteSet(T) /\ Cardinality(T) = len
  BY FS_Interval
<1> HIDE DEF T
<1>2. f \in Bijection(T, At(i, T))
  BY DEF At, Bijection, Injection, Surjection, IsInjective
<1>3. ExistsBijection(T, At(i, T))
  BY <1>2 DEF ExistsBijection
<1>4. IsFiniteSet(At(i, T)) /\ Cardinality(At(i, T)) = Cardinality(T)
  BY <1>1, <1>3, FS_Bijection
<1> QED BY <1>1, <1>4 DEF Cells, T

\* The end of the process leaves the network thread where it is.
LEMMA PcKept ==
  ASSUME PcInv, [Next]_vars \/ Terminated
  PROVE  PcInv'
<1>1. Terminated => PcInv'
  BY DEF Terminated, PcInv, farmVars, readVars
<1> QED BY <1>1, PcStep

\* The bytes of a block are counted in the step that processes it.
LEMMA BlockCounted ==
  ASSUME FarmInv, PcInv, Network
  PROVE  /\ BlockBytes \in Nat
         /\ BlockBytes = 0
            \/ \E c \in Conns : /\ ProcessMessage(c)
                                /\ Head(wire[c]).type = "piece"
                                /\ BlockBytes = Len(Head(wire[c]).data)
<1> DEFINE c == reading
<1>1. CASE ~(reading # NoConn /\ state[reading] = "DOWNLOADING"
             /\ Head(wire[reading]).type = "piece")
  BY <1>1 DEF BlockBytes
<1>2. CASE reading # NoConn /\ state[reading] = "DOWNLOADING"
           /\ Head(wire[reading]).type = "piece"
  <2>1. c \in Conns /\ wire \in [Conns -> Seq(Message)]
    BY <1>2 DEF FarmInv, WireInv, ReadTypes, PeerTypes
  <2>2. ProcessMessage(c)
    BY <1>2
    DEF Network, PcInv, EnterRun, Poll, WaitReturns, RunReturns, Idle,
        AddConnection, HandleOut, HandleIn, ProcessMessage
  <2>3. left \in 1 .. Len(wire[c]) /\ wire[c] \in Seq(Message)
    BY <1>2, <2>1, <2>2 DEF FarmInv, WireInv, ReadInv, ProcessMessage
  <2> DEFINE m == Head(wire[c])
  <2>4. m \in Message
    BY <2>3
  <2>5. m \in PieceMsg
    BY <1>2, <2>4 DEF Message
  <2>6. Len(m.data) \in Nat
    <3>1. m.data \in Seq(Byte)
      BY <2>5 DEF PieceMsg
    <3> QED BY <3>1
  <2>7. BlockBytes = Len(m.data)
    BY <1>2 DEF BlockBytes
  <2> QED BY <1>2, <2>1, <2>2, <2>6, <2>7
<1> QED BY <1>1, <1>2

\* There are as many cells that have been asked for and have arrived as bytes
\* have been counted.
CountInv ==
  \E R \in SUBSET AskedCells(asked) :
    Settled(wire, reqs, asked, R) /\ Cardinality(R) = bytes_downloaded

\* The cells of a block that is taken off the wire are new.
LEMMA BlockIsNew ==
  ASSUME FarmInv, FlightInv, NEW c \in Conns, ProcessMessage(c),
         Head(wire[c]).type = "piece", NEW R, Settled(wire, reqs, asked, R)
  PROVE  \E M : /\ IsFiniteSet(M) /\ Cardinality(M) = Len(Head(wire[c]).data)
                /\ M \cap R = {} /\ Settled(wire', reqs', asked', R \cup M)
<1> DEFINE m == Head(wire[c])
           M == MessageCells(m)
<1>1. PICK N, next : Takes(wire, reqs, asked, wire', reqs', asked', c, N, next)
  BY ProcessTakes
<1>2. /\ wire[c] \in Seq(Message) /\ 1 \in DOMAIN wire[c] /\ m = wire[c][1]
      /\ m \in Message
  <2>1. reading = c /\ left \in 1 .. Len(wire[c]) /\ wire[c] \in Seq(Message)
    BY ConnsConstant
    DEF FarmInv, WireInv, ReadInv, PeerTypes, ProcessMessage, NoConn
  <2> QED BY <2>1
<1>3. m \in PieceMsg
  BY <1>2 DEF Message
<1>4. m.begin \in Nat /\ Len(m.data) \in Nat
  <2>1. m.begin \in Nat /\ m.data \in Seq(Byte)
    BY <1>3 DEF PieceMsg
  <2> QED BY <2>1
<1>5. M = Cells(m.index, m.begin, Len(m.data))
  BY DEF MessageCells
<1> HIDE DEF m
<1>6. IsFiniteSet(M) /\ Cardinality(M) = Len(m.data)
  BY <1>4, <1>5, CellsCounted
<1>7. M \cap R = {}
  <2>1. /\ WireSlot(c, 1) \in Slots
        /\ Cargo(wire, reqs, WireSlot(c, 1)) = WireCargo(wire[c], 1)
    <3>1. 1 \in Nat \ {0}
      OBVIOUS
    <3> QED BY <3>1, CargoAt
  <2>2. WireCargo(wire[c], 1) = M
    BY <1>2 DEF WireCargo
  <2> QED BY <2>1, <2>2 DEF Settled
<1>8. Settled(wire', reqs', asked', R) /\ Settled(wire', reqs', asked', M)
  <2>1. /\ \A Q : Settled(wire, reqs, asked, Q) => Settled(wire', reqs', asked', Q)
        /\ Settled(wire', reqs', asked', MessageCells(wire[c][1]))
    <3>1. Blocks(wire, reqs, asked)
      BY DEF FlightInv
    <3> QED BY <1>1, <3>1, BlocksTake, Zenon
  <2> QED BY <1>2, <2>1
<1>9. Settled(wire', reqs', asked', R \cup M)
  BY <1>8, SettledWithin
<1> QED BY <1>6, <1>7, <1>9 DEF m

LEMMA CountStep ==
  ASSUME FarmInv, FlightInv, PcInv, CountInv, [ClientNext]_clientVars
  PROVE  CountInv'
<1>1. PICK R \in SUBSET AskedCells(asked) :
        Settled(wire, reqs, asked, R) /\ Cardinality(R) = bytes_downloaded
  BY DEF CountInv
<1>2. Settled(wire', reqs', asked', R)
  <2>1. CASE [Next]_vars
    BY <1>1, <2>1, MoveStep DEF Apart
  <2>2. CASE Terminated
    BY <1>1, <2>2 DEF Terminated, peerVars
  <2> QED BY <2>1, <2>2, StepOfFarm
<1>3. ASSUME NEW T, Settled(wire', reqs', asked', T),
             Cardinality(T) = bytes_downloaded'
      PROVE  CountInv'
  <2>1. T \in SUBSET AskedCells(asked')
    BY <1>3 DEF Settled
  <2>2. /\ AskedCells(asked)' = AskedCells(asked')
        /\ Settled(wire, reqs, asked, T)' = Settled(wire', reqs', asked', T)
    BY DEF AskedCells, Settled, Slots, Cargo, At, EndOf, Pieces, WireCargo,
           ReqCargo, MessageCells, RequestCells, Cells
  <2> QED BY <1>3, <2>1, <2>2 DEF CountInv
<1>4. CASE bytes_downloaded' = bytes_downloaded
  BY <1>1, <1>2, <1>3, <1>4
<1>5. CASE NetworkStep
  <2>1. Network /\ bytes_downloaded' = bytes_downloaded + BlockBytes
    BY <1>5 DEF NetworkStep, CountHalf, S!addTotal
  <2>2. IsFiniteSet(R) /\ Cardinality(R) \in Nat
    BY AskedFits DEF FarmInv
  <2>3. CASE BlockBytes = 0
    BY <1>1, <1>4, <2>1, <2>2, <2>3
  <2>4. ASSUME NEW c \in Conns, ProcessMessage(c), Head(wire[c]).type = "piece",
               BlockBytes = Len(Head(wire[c]).data)
        PROVE  CountInv'
    <3>1. PICK M : /\ IsFiniteSet(M) /\ Cardinality(M) = Len(Head(wire[c]).data)
                   /\ M \cap R = {} /\ Settled(wire', reqs', asked', R \cup M)
      BY <1>1, <2>4, BlockIsNew
    <3>2. Cardinality(R \cup M) = Cardinality(R) + Cardinality(M) - Cardinality(R \cap M)
      BY <2>2, <3>1, FS_Union
    <3>3. Cardinality(R \cap M) = 0
      <4>1. R \cap M = {}
        BY <3>1
      <4> QED BY <4>1, FS_EmptySet
    <3>4. Cardinality(M) = BlockBytes /\ BlockBytes \in Nat
      BY <2>1, <2>4, <3>1, BlockCounted
    <3>5. Cardinality(R \cup M) = bytes_downloaded'
      BY <1>1, <2>1, <2>2, <3>2, <3>3, <3>4
    <3> QED BY <1>3, <3>1, <3>5
  <2> QED BY <2>1, <2>3, <2>4, BlockCounted
<1>6. CASE Main \/ CountRest \/ DiskThread \/ ProgressThread \/ Interrupt
           \/ UNCHANGED clientVars \/ \E c \in Conns : PeerStep(c)
  <2>1. bytes_downloaded' = bytes_downloaded
    BY <1>6
    DEF Main, NothingToDo, Construct, StartWriter, StartSpeed, ConstructFarm,
        StartThrows, StartReturns, DestroySpeed, DestroyWriter, CountRest,
        CountHalf, DiskThread, ProgressThread, Interrupt, clientVars, PeerStep,
        speedVars, S!start, S!addSession, S!Thread, S!Test, S!Sample, S!Progress, S!Draw,
        S!SetFlag, S!Join
  <2> QED BY <1>4, <2>1
<1> QED BY <1>5, <1>6 DEF ClientNext, NetworkThread

-----------------------------------------------------------------------------
(* The counters of Speed. *)

SpeedInv ==
  /\ bytes_downloaded \in Nat /\ session_bytes \in Nat /\ adding \in Nat
  /\ sampled \in Nat /\ progress \in Nat /\ shown \in Nat
  /\ SpeedConserves
  /\ s_thread = "draw" => sampled <= progress
  /\ s_thread \in {"none", "test"} => sampled <= shown

LEMMA SpeedStep ==
  ASSUME FarmInv, PcInv, SpeedInv, [ClientNext]_clientVars
  PROVE  SpeedInv'
<1> USE DEF SpeedInv, SpeedConserves
<1>1. CASE UNCHANGED <<speedVars, adding>>
  BY <1>1 DEF speedVars
<1>2. CASE Main
  <2>1. CASE StartSpeed
    BY <2>1 DEF StartSpeed, S!start
  <2>2. CASE DestroySpeed
    BY <2>2 DEF DestroySpeed, S!SetFlag, S!Join
  <2>3. CASE NothingToDo \/ Construct \/ StartWriter \/ ConstructFarm
             \/ StartThrows \/ StartReturns \/ DestroyWriter
    BY <1>1, <2>3 DEF NothingToDo, Construct, StartWriter, ConstructFarm,
                      StartThrows, StartReturns, DestroyWriter
  <2> QED BY <1>2, <2>1, <2>2, <2>3 DEF Main
<1>3. CASE NetworkStep
  <2>1. BlockBytes \in Nat
    BY <1>3, BlockCounted DEF NetworkStep
  <2>2. /\ adding = 0 /\ adding' = BlockBytes
        /\ bytes_downloaded' = bytes_downloaded + BlockBytes
        /\ UNCHANGED <<session_bytes, s_thread, sampled, progress, shown>>
    BY <1>3 DEF NetworkStep, CountHalf, S!addTotal
  <2> QED BY <2>1, <2>2
<1>4. CASE CountRest
  <2>1. /\ adding' = 0 /\ session_bytes' = session_bytes + adding
        /\ UNCHANGED <<bytes_downloaded, s_thread, sampled, progress, shown>>
    BY <1>4 DEF CountRest, CountHalf, S!addSession
  <2> QED BY <2>1
<1>5. CASE ProgressThread
  <2>1. CASE S!Test
    BY <1>5, <2>1 DEF ProgressThread, S!Test
  <2>2. CASE S!Sample
    BY <1>5, <2>2 DEF ProgressThread, S!Sample
  <2>3. CASE S!Progress
    BY <1>5, <2>3 DEF ProgressThread, S!Progress
  <2>4. CASE S!Draw
    BY <1>5, <2>4 DEF ProgressThread, S!Draw
  <2> QED BY <1>5, <2>1, <2>2, <2>3, <2>4 DEF ProgressThread, S!Thread
<1>6. CASE DiskThread \/ Interrupt \/ UNCHANGED clientVars
           \/ \E c \in Conns : PeerStep(c)
  BY <1>1, <1>6 DEF DiskThread, Interrupt, clientVars, PeerStep
<1> QED BY <1>2, <1>3, <1>4, <1>5, <1>6 DEF ClientNext, NetworkThread

-----------------------------------------------------------------------------
(* The file. *)

\* The bytes b are those of the torrent at off.
Right(off, b) == \A k \in 1 .. Len(b) : b[k] = Content[off + k]

\* A file of bytes of the torrent in their place, and zeros.
InPlace(f) == f \in Seq(Byte) /\ \A p \in 1 .. Len(f) : f[p] \in {0, Content[p]}

\* A file that holds the bytes of the torrent in the place of the job j.
Covers(f, j) ==
  /\ Len(f) >= j.offset + Len(j.b)
  /\ \A k \in 1 .. Len(j.b) : f[j.offset + k] = Content[j.offset + k]

\* A job holds bytes of the torrent.
LEMMA JobIsRight ==
  ASSUME NEW j \in PieceJobs
  PROVE  /\ j.offset \in Nat /\ j.b \in Seq(Byte) /\ Len(j.b) \in Nat \ {0}
         /\ j.b = Slice(j.offset, Len(j.b)) /\ Right(j.offset, j.b)
<1>1. PICK i \in Pieces : j = [b |-> PieceContent(i), offset |-> i * PieceLength]
  BY DEF PieceJobs
<1> DEFINE off == i * PieceLength
           len == PieceLen(i)
<1>2. /\ off \in Nat /\ len \in Nat \ {0} /\ off + 0 = off /\ off + len <= Length
  BY PieceLenType, PieceFits, TorrentConstants DEF Pieces
<1>3. Slice(off + 0, len) \in Seq(Byte) /\ Len(Slice(off + 0, len)) = len
  BY <1>2, SliceType
<1>4. j.offset = off /\ j.b = Slice(off, len)
  BY <1>1 DEF PieceContent
<1> HIDE DEF off, len
<1>5. \A k \in 1 .. len : Slice(off, len)[k] = Content[off + k]
  <2>1. Content \in Seq(Byte) /\ Len(Content) = Length /\ Length \in Nat
    BY TorrentConstants
  <2>2. \A m \in off + 1 .. off + len : Content[m] \in Byte
    BY <1>2, <2>1
  <2>3. ASSUME NEW k \in 1 .. len
        PROVE  SubSeq(Content, off + 1, off + len)[k] = Content[off + k]
    <3>1. k \in 1 .. (off + len) - (off + 1) + 1 /\ (off + 1) + k - 1 = off + k
      BY <1>2
    <3> QED BY <1>2, <2>1, <3>1
  <2> QED BY <2>3 DEF Slice
<1> QED BY <1>2, <1>3, <1>4, <1>5 DEF Right

\* Its first bytes do as well.
LEMMA PartIsRight ==
  ASSUME NEW j \in PieceJobs, NEW n \in 0 .. Len(j.b)
  PROVE  SubSeq(j.b, 1, n) \in Seq(Byte) /\ Right(j.offset, SubSeq(j.b, 1, n))
<1> DEFINE b == j.b
<1>1. b \in Seq(Byte) /\ Len(b) \in Nat /\ n \in 0 .. Len(b) /\ Right(j.offset, b)
  BY JobIsRight
<1> HIDE DEF b
<1>2. /\ SubSeq(b, 1, n) \in Seq(Byte) /\ Len(SubSeq(b, 1, n)) = n
      /\ \A k \in 1 .. n : SubSeq(b, 1, n)[k] = b[k]
  BY <1>1
<1>3. \A k \in 1 .. n : k \in 1 .. Len(b)
  BY <1>1
<1> QED BY <1>1, <1>2, <1>3 DEF Right, b

\* Writing right bytes, all or some of them, leaves the file in place.
LEMMA WriteInPlace ==
  ASSUME NEW f, InPlace(f), NEW off \in Nat, NEW b \in Seq(Byte), Right(off, b)
  PROVE  InPlace(WP!WriteAt(f, off, b))
<1> DEFINE g == WP!WriteAt(f, off, b)
<1>1. f \in Seq(Byte) /\ Len(f) \in Nat /\ Len(b) \in Nat
  BY DEF InPlace
<1>2. g \in Seq(Byte) /\ Len(g) \in Nat
  BY <1>1, PieceJobsAreJobs, WP!WriteAtType
<1>3. /\ \A k \in 1 .. Len(b) : g[off + k] = b[k]
      /\ \A p \in 1 .. Len(f) : p <= off \/ p > off + Len(b) => g[p] = f[p]
      /\ \A p \in 1 .. Len(g) :
           p > Len(f) /\ (p <= off \/ p > off + Len(b)) => g[p] = 0
  BY <1>1, PieceJobsAreJobs, WP!WriteAtBytes
<1> HIDE DEF g
<1>4. ASSUME NEW p \in 1 .. Len(g) PROVE g[p] \in {0, Content[p]}
  <2>1. CASE p > off /\ p <= off + Len(b)
    <3>1. p - off \in 1 .. Len(b) /\ off + (p - off) = p
      BY <1>1, <1>2, <2>1
    <3> QED BY <1>3, <3>1 DEF Right
  <2>2. CASE p <= off \/ p > off + Len(b)
    <3>1. CASE p <= Len(f)
      <4>1. p \in 1 .. Len(f)
        BY <1>1, <3>1
      <4> QED BY <1>3, <2>2, <4>1 DEF InPlace
    <3>2. CASE p > Len(f)
      BY <1>3, <2>2, <3>2
    <3> QED BY <1>1, <3>1, <3>2
  <2> QED BY <1>1, <2>1, <2>2
<1> QED BY <1>2, <1>4 DEF InPlace, g

\* A file that has grown: what another one had of the torrent, this one has.
Keeps(f, g) ==
  /\ Len(f) <= Len(g)
  /\ \A p \in 1 .. Len(f) : f[p] = Content[p] => g[p] = Content[p]

LEMMA KeepsChain ==
  ASSUME NEW f \in Seq(Byte), NEW g \in Seq(Byte), NEW h \in Seq(Byte),
         Keeps(f, g), Keeps(g, h)
  PROVE  Keeps(f, h)
<1>1. Len(f) \in Nat /\ Len(g) \in Nat /\ Len(h) \in Nat
  OBVIOUS
<1>2. Len(f) <= Len(g) /\ Len(g) <= Len(h)
  BY DEF Keeps
<1>3. \A p \in 1 .. Len(f) : p \in 1 .. Len(g)
  BY <1>1, <1>2
<1>4. Len(f) <= Len(h)
  BY <1>1, <1>2
<1> QED BY <1>3, <1>4 DEF Keeps

LEMMA KeepsSame ==
  ASSUME NEW f \in Seq(Byte)
  PROVE  Keeps(f, f)
<1>1. Len(f) <= Len(f)
  OBVIOUS
<1> QED BY <1>1 DEF Keeps

\* Writing right bytes, all or some of them, takes none away.
LEMMA WriteKeeps ==
  ASSUME NEW f \in Seq(Byte), NEW off \in Nat, NEW b \in Seq(Byte), Right(off, b)
  PROVE  Keeps(f, WP!WriteAt(f, off, b))
<1> DEFINE g == WP!WriteAt(f, off, b)
<1>1. Len(f) \in Nat /\ Len(b) \in Nat
  OBVIOUS
<1>2. /\ Len(g) >= Len(f)
      /\ \A k \in 1 .. Len(b) : g[off + k] = b[k]
      /\ \A p \in 1 .. Len(f) : p <= off \/ p > off + Len(b) => g[p] = f[p]
  BY PieceJobsAreJobs, WP!WriteAtBytes
<1>3. Len(g) \in Nat
  <2>1. g \in Seq(Byte)
    BY PieceJobsAreJobs, WP!WriteAtType
  <2> QED BY <2>1
<1> HIDE DEF g
<1>4. ASSUME NEW p \in 1 .. Len(f), f[p] = Content[p]
      PROVE  g[p] = Content[p]
  <2>1. CASE p > off /\ p <= off + Len(b)
    <3>1. p - off \in 1 .. Len(b) /\ off + (p - off) = p
      BY <1>1, <2>1
    <3>2. b[p - off] = Content[off + (p - off)]
      BY <3>1 DEF Right
    <3>3. g[off + (p - off)] = b[p - off]
      BY <1>2, <3>1
    <3> QED BY <3>1, <3>2, <3>3
  <2>2. CASE p <= off \/ p > off + Len(b)
    BY <1>2, <1>4, <2>2
  <2> QED BY <1>1, <2>1, <2>2
<1>5. Len(f) <= Len(g)
  BY <1>1, <1>2, <1>3
<1> QED BY <1>4, <1>5 DEF Keeps, g

\* What is written to a file that is behind another one, at a place where that
\* one has the bytes of the torrent already, leaves it behind.
LEMMA PartBehind ==
  ASSUME NEW f \in Seq(Byte), NEW g, InPlace(g), Keeps(f, g),
         NEW off \in Nat, NEW b \in Seq(Byte), off + Len(b) <= Len(g),
         \A k \in 1 .. Len(b) : g[off + k] = Content[off + k]
  PROVE  Keeps(WP!WriteAt(f, off, b), g)
<1> DEFINE h == WP!WriteAt(f, off, b)
<1>1. /\ Len(g) \in Nat /\ Len(f) \in Nat /\ Len(b) \in Nat /\ Len(f) <= Len(g)
      /\ \A p \in 1 .. Len(g) : g[p] \in {0, Content[p]}
  BY DEF Keeps, InPlace
<1>2. Len(h) \in Nat
  <2>1. h \in Seq(Byte)
    BY PieceJobsAreJobs, WP!WriteAtType
  <2> QED BY <2>1
<1>3. /\ b # <<>> => Len(h) = WP!MaxOf(Len(f), off + Len(b))
      /\ \A p \in 1 .. Len(f) : p <= off \/ p > off + Len(b) => h[p] = f[p]
      /\ \A p \in 1 .. Len(h) :
           p > Len(f) /\ (p <= off \/ p > off + Len(b)) => h[p] = 0
  BY PieceJobsAreJobs, WP!WriteAtBytes
<1>4. b = <<>> => h = f
  BY DEF WP!WriteAt
<1> HIDE DEF h
<1>5. Len(h) <= Len(g)
  BY <1>1, <1>3, <1>4 DEF WP!MaxOf
<1>6. ASSUME NEW p \in 1 .. Len(h), h[p] = Content[p]
      PROVE  g[p] = Content[p]
  <2>1. p \in 1 .. Len(g)
    BY <1>1, <1>2, <1>5
  <2>2. CASE p > off /\ p <= off + Len(b)
    <3>1. p - off \in 1 .. Len(b) /\ off + (p - off) = p
      BY <1>1, <2>2
    <3> QED BY <3>1
  <2>3. CASE p <= Len(f) /\ (p <= off \/ p > off + Len(b))
    <3>1. p \in 1 .. Len(f)
      BY <1>1, <2>3
    <3> QED BY <1>3, <1>6, <2>3, <3>1 DEF Keeps
  <2>4. CASE p > Len(f) /\ (p <= off \/ p > off + Len(b))
    <3>1. Content[p] = 0
      BY <1>3, <1>6, <2>4
    <3> QED BY <1>1, <2>1, <3>1
  <2> QED BY <1>1, <1>2, <2>2, <2>3, <2>4
<1> QED BY <1>5, <1>6 DEF Keeps, h

\* What is covered stays so when the file grows.
LEMMA StaysCovered ==
  ASSUME NEW f \in Seq(Byte), NEW g \in Seq(Byte), Keeps(f, g),
         NEW j \in PieceJobs, Covers(f, j)
  PROVE  Covers(g, j)
<1>1. Len(f) \in Nat /\ Len(g) \in Nat /\ j.offset \in Nat /\ Len(j.b) \in Nat
  BY JobIsRight
<1>2. /\ Len(f) >= j.offset + Len(j.b) /\ Len(f) <= Len(g)
      /\ \A k \in 1 .. Len(j.b) : f[j.offset + k] = Content[j.offset + k]
  BY DEF Covers, Keeps
<1>3. \A k \in 1 .. Len(j.b) : j.offset + k \in 1 .. Len(f)
  BY <1>1, <1>2
<1>4. \A k \in 1 .. Len(j.b) : g[j.offset + k] = Content[j.offset + k]
  BY <1>2, <1>3 DEF Keeps
<1>5. Len(g) >= j.offset + Len(j.b)
  BY <1>1, <1>2
<1> QED BY <1>4, <1>5 DEF Covers

\* A job that is written is covered, and every job that was covered still is.
LEMMA WriteCovers ==
  ASSUME NEW f \in Seq(Byte), NEW j \in PieceJobs
  PROVE  /\ Covers(WP!WriteAt(f, j.offset, j.b), j)
         /\ \A w \in PieceJobs :
              Covers(f, w) => Covers(WP!WriteAt(f, j.offset, j.b), w)
<1> DEFINE g == WP!WriteAt(f, j.offset, j.b)
           off == j.offset
           b == j.b
<1>1. /\ off \in Nat /\ b \in Seq(Byte) /\ Len(b) \in Nat \ {0} /\ b # <<>>
      /\ Right(off, b)
  BY JobIsRight
<1>2. Len(g) >= off + Len(b) /\ \A k \in 1 .. Len(b) : g[off + k] = b[k]
  BY <1>1, PieceJobsAreJobs, WP!WriteAtBytes
<1>3. g \in Seq(Byte) /\ Keeps(f, g)
  BY <1>1, PieceJobsAreJobs, WP!WriteAtType, WriteKeeps
<1> HIDE DEF g
<1>4. Covers(g, j)
  BY <1>1, <1>2 DEF Covers, Right
<1>5. \A w \in PieceJobs : Covers(f, w) => Covers(g, w)
  BY <1>3, StaysCovered
<1> QED BY <1>4, <1>5 DEF g

\* The bytes of a file from an offset on.
LEMMA BytesFrom ==
  ASSUME NEW f \in Seq(Byte), NEW off \in Nat, NEW n \in Nat \ {0},
         off + n <= Len(f)
  PROVE  /\ SubSeq(f, off + 1, off + n) \in Seq(Byte)
         /\ Len(SubSeq(f, off + 1, off + n)) = n
         /\ \A k \in 1 .. n : SubSeq(f, off + 1, off + n)[k] = f[off + k]
<1> DEFINE d == SubSeq(f, off + 1, off + n)
           last == off + n
<1>1. Len(f) \in Nat /\ last \in Nat /\ last - (off + 1) + 1 = n
      /\ off + 1 \in Int /\ last \in Int /\ off + 1 <= last
  OBVIOUS
<1>2. \A m \in off + 1 .. last : f[m] \in Byte
  BY <1>1
<1>3. /\ d \in Seq(Byte) /\ Len(d) = last - (off + 1) + 1
      /\ \A k \in 1 .. last - (off + 1) + 1 : d[k] = f[off + 1 + k - 1]
  <2> HIDE DEF last
  <2> QED BY <1>1, <1>2, SubSeqProperties DEF last
<1> HIDE DEF d, last
<1>4. \A k \in 1 .. n : d[k] = f[off + k]
  <2>1. \A k \in 1 .. n : off + 1 + k - 1 = off + k
    OBVIOUS
  <2> QED BY <1>1, <1>3, <2>1
<1> QED BY <1>1, <1>3, <1>4 DEF d, last

\* OnDisk, of any file: the jobs that are covered.
On(f, j) ==
  /\ Len(f) >= j.offset + Len(j.b)
  /\ SubSeq(f, j.offset + 1, j.offset + Len(j.b)) = Slice(j.offset, Len(j.b))

LEMMA CoveredIsOn ==
  ASSUME NEW f \in Seq(Byte), NEW j \in PieceJobs
  PROVE  Covers(f, j) <=> On(f, j)
<1> DEFINE off == j.offset
           n == Len(j.b)
           d == SubSeq(f, off + 1, off + n)
<1>1. /\ off \in Nat /\ n \in Nat \ {0} /\ j.b \in Seq(Byte)
      /\ j.b = Slice(off, n) /\ Right(off, j.b) /\ Len(f) \in Nat
  BY JobIsRight
<1>2. On(f, j) <=> Len(f) >= off + n /\ d = j.b
  BY <1>1 DEF On
<1>3. /\ Len(j.b) = n /\ \A k \in 1 .. n : j.b[k] = Content[off + k]
  BY <1>1 DEF Right
<1>4. /\ Covers(f, j) <=>
            /\ Len(f) >= off + n
            /\ \A k \in 1 .. n : f[off + k] = Content[off + k]
  BY DEF Covers
<1>5. ASSUME Len(f) >= off + n
      PROVE  d \in Seq(Byte) /\ Len(d) = n /\ \A k \in 1 .. n : d[k] = f[off + k]
  <2> HIDE DEF off, n
  <2>1. off + n <= Len(f)
    BY <1>1, <1>5
  <2> QED BY <1>1, <2>1, BytesFrom
<1> DEFINE b == j.b
<1> HIDE DEF d, off, n
<1>6. Covers(f, j) => On(f, j)
  <2> SUFFICES ASSUME Covers(f, j) PROVE d = b
    BY <1>2, <1>4
  <2>1. \A k \in 1 .. n : d[k] = b[k]
    BY <1>3, <1>4, <1>5
  <2>2. d \in Seq(Byte) /\ Len(d) = n /\ b \in Seq(Byte) /\ Len(b) = n
    BY <1>1, <1>3, <1>4, <1>5
  <2> HIDE DEF b
  <2> QED BY <2>1, <2>2, SeqEqual
<1>7. On(f, j) => Covers(f, j)
  BY <1>2, <1>3, <1>4, <1>5
<1> QED BY <1>6, <1>7

LEMMA CoveredOnDisk ==
  ASSUME disk \in Seq(Byte), NEW j \in PieceJobs
  PROVE  Covers(disk, j) <=> OnDisk(j)
BY CoveredIsOn DEF On, OnDisk

\* What was written is the front of what was given to the Writer.
LEMMA WrittenFront ==
  ASSUME WP!WriterInv, NEW k \in DOMAIN written
  PROVE  k \in DOMAIN jobs /\ written[k] = jobs[k] /\ jobs[k] \in PieceJobs
<1>1. /\ written \in Seq(PieceJobs) /\ q \in Seq(PieceJobs)
      /\ inhand \in Seq(PieceJobs) /\ jobs \in Seq(PieceJobs)
  <2>1. inhand = <<>> \/ \E j \in PieceJobs : inhand = <<j>>
    BY DEF WP!WriterInv, WP!TypeOK
  <2>2. <<>> \in Seq(PieceJobs) /\ \A j \in PieceJobs : <<j>> \in Seq(PieceJobs)
    OBVIOUS
  <2> QED BY <2>1, <2>2 DEF WP!WriterInv, WP!TypeOK
<1> DEFINE a == written
           b == inhand
           d == q
<1>2. a \o b \o d = jobs
  BY DEF WP!WriterInv, WP!NothingLost
<1>3. a \in Seq(PieceJobs) /\ b \in Seq(PieceJobs) /\ d \in Seq(PieceJobs) /\ k \in 1 .. Len(a)
  BY <1>1
<1> HIDE DEF a, b, d
<1>4. a \o b \in Seq(PieceJobs) /\ k \in 1 .. Len(a \o b) /\ (a \o b)[k] = a[k]
  BY <1>3
<1>5. k \in 1 .. Len((a \o b) \o d) /\ ((a \o b) \o d)[k] = a[k]
  <2> DEFINE e == a \o b
  <2>1. e \in Seq(PieceJobs) /\ k \in 1 .. Len(e) /\ e[k] = a[k]
    BY <1>4
  <2> HIDE DEF e
  <2>2. k \in 1 .. Len(e \o d) /\ (e \o d)[k] = a[k]
    BY <1>3, <2>1
  <2> QED BY <2>2 DEF e
<1>6. k \in 1 .. Len(jobs) /\ jobs[k] = written[k]
  BY <1>2, <1>5 DEF a
<1> QED BY <1>1, <1>6

\* Until the network thread runs there is nothing to write.
EarlyInv ==
  life \in {"main", "constructed", "writing", "drawing"} => jobs = <<>>

\* The file as the stream sees it and as the kernel does, while no write has
\* failed and when the program has ended.
DiskInv ==
  /\ InPlace(file) /\ InPlace(disk)
  /\ good => \A k \in DOMAIN written : Covers(file, written[k])
  /\ good => \A k \in DOMAIN written :
               k < Len(written) \/ Len(written[k].b) >= DirectWrite
                 => Covers(disk, written[k])
  /\ life = "exited" /\ good /\ ~lost
       => \A k \in DOMAIN jobs : Covers(disk, jobs[k])

\* A step that writes nothing and does not end the program.
LEMMA DiskUntouched ==
  ASSUME DiskInv, UNCHANGED <<disk, file, good, written>>,
         life' # "exited" \/ UNCHANGED <<jobs, life, lost>>
  PROVE  DiskInv'
BY DEF DiskInv, InPlace, Covers

\* What the kernel has of the torrent the stream has as well: nothing that is in
\* the file is overwritten by what the stream still holds back.
BehindInv == Keeps(disk, file)

\* A flush that fails leaves the disk between what it was and the file.
LEMMA FlushFailsBetween ==
  ASSUME WP!WriterInv, DiskInv, BehindInv, good, FlushFails
  PROVE  InPlace(disk') /\ Keeps(disk, disk') /\ Keeps(disk', file)
<1>1. disk \in Seq(Byte) /\ InPlace(disk) /\ InPlace(file) /\ Keeps(disk, file)
  BY DEF DiskInv, BehindInv, InPlace
<1>2. CASE disk' = disk
  BY <1>1, <1>2, KeepsSame
<1>3. CASE written # <<>>
  <2> DEFINE k == Len(written)
             w == written[k]
  <2>1. written \in Seq(PieceJobs)
    BY DEF WP!WriterInv, WP!TypeOK
  <2>2. k \in DOMAIN written /\ w \in PieceJobs
    BY <1>3, <2>1
  <2>3. Covers(file, w)
    BY <2>2 DEF DiskInv
  <2>4. PICK n \in 0 .. Len(w.b) :
          disk' = W!WriteAt(disk, w.offset, SubSeq(w.b, 1, n))
    BY <1>3 DEF FlushFails
  <2> HIDE DEF w
  <2> DEFINE d == WP!WriteAt(disk, w.offset, SubSeq(w.b, 1, n))
  <2>5. disk' = d
    BY <2>4 DEF W!WriteAt, WP!WriteAt, W!MaxOf, WP!MaxOf
  <2>6. w.offset \in Nat /\ SubSeq(w.b, 1, n) \in Seq(Byte)
        /\ Right(w.offset, SubSeq(w.b, 1, n))
    BY <2>2, JobIsRight, PartIsRight
  <2>7. InPlace(d) /\ Keeps(disk, d)
    BY <1>1, <2>6, WriteInPlace, WriteKeeps
  <2>8. Keeps(d, file)
    <3> DEFINE b == SubSeq(w.b, 1, n)
    <3>1. /\ w.b \in Seq(Byte) /\ Len(w.b) \in Nat /\ Len(file) \in Nat
          /\ Len(file) >= w.offset + Len(w.b)
          /\ \A k1 \in 1 .. Len(w.b) :
               file[w.offset + k1] = Content[w.offset + k1]
      BY <1>1, <2>2, <2>3, JobIsRight DEF Covers, InPlace
    <3>2. Len(b) = n /\ n \in 0 .. Len(w.b)
      BY <3>1
    <3> HIDE DEF b
    <3>3. w.offset + Len(b) <= Len(file) /\ \A k1 \in 1 .. Len(b) : k1 \in 1 .. Len(w.b)
      BY <2>6, <3>1, <3>2
    <3>4. w.offset \in Nat /\ b \in Seq(Byte)
      BY <2>6 DEF b
    <3>5. \A k1 \in 1 .. Len(b) : file[w.offset + k1] = Content[w.offset + k1]
      BY <3>1, <3>3
    <3>6. Keeps(WP!WriteAt(disk, w.offset, b), file)
      BY <1>1, <3>3, <3>4, <3>5, PartBehind
    <3> QED BY <3>6 DEF b
  <2> QED BY <2>5, <2>7, <2>8
<1> QED BY <1>2, <1>3 DEF FlushFails

\* What a step of the disk thread does to the file, as the stream has it and as
\* the kernel has it.
LEMMA DiskThreadWrites ==
  ASSUME WP!WriterInv, DiskThread
  PROVE  \/ UNCHANGED <<disk, file, good, written>>
         \/ \E j \in PieceJobs :
              /\ written' = Append(written, j)
              /\ \/ /\ good /\ good'
                    /\ file' = WP!WriteAt(file, j.offset, j.b)
                    /\ disk' = IF Len(j.b) >= DirectWrite THEN file' ELSE file
                 \/ /\ good /\ ~good' /\ disk' = file'
                    /\ \E n \in 0 .. Len(j.b) :
                         file' = WP!WriteAt(file, j.offset, SubSeq(j.b, 1, n))
                 \/ good /\ ~good' /\ UNCHANGED file /\ FlushFails
                 \/ ~good /\ ~good' /\ UNCHANGED <<file, disk>>
<1>1. CASE tpc # "write"
  BY <1>1
  DEF DiskThread, W!Thread, W!LockForWait, W!EvalPredicate, W!Pop, W!WriteJob,
      W!Relock, W!LeaveDrain, W!SpuriousWakeup
<1>2. CASE tpc = "write"
  <2>1. /\ W!WriteJob
        /\ IF good THEN disk' = Flushed \/ (~good' /\ UNCHANGED file /\ FlushFails)
                   ELSE UNCHANGED disk
    BY <1>2
    DEF DiskThread, W!Thread, W!LockForWait, W!EvalPredicate, W!Pop, W!Relock,
        W!LeaveDrain, W!SpuriousWakeup
  <2>2. PICK j \in PieceJobs : inhand = <<j>>
    BY <1>2 DEF WP!WriterInv, WP!TypeOK, WP!Control
  <2>3. inhand[1] = j
    BY <2>2
  <2>4. \A b : W!WriteAt(file, j.offset, b) = WP!WriteAt(file, j.offset, b)
    BY DEF W!WriteAt, WP!WriteAt, W!MaxOf, WP!MaxOf
  <2>5. /\ written' = Append(written, j)
        /\ \/ good /\ file' = W!WriteAt(file, j.offset, j.b) /\ good' = good
           \/ /\ good /\ good' = FALSE
              /\ \E n \in 0 .. Len(j.b) :
                   file' = W!WriteAt(file, j.offset, SubSeq(j.b, 1, n))
           \/ ~good /\ good' = good /\ file' = file
    BY <2>1, <2>3 DEF W!WriteJob, W!fileVars
  <2>6. IF good
        THEN \/ disk' = IF Len(j.b) >= DirectWrite \/ ~good' THEN file' ELSE file
             \/ ~good' /\ UNCHANGED file /\ FlushFails
        ELSE UNCHANGED disk
    BY <2>1, <2>3 DEF Flushed
  <2>7. \/ /\ good /\ good'
           /\ file' = WP!WriteAt(file, j.offset, j.b)
           /\ disk' = IF Len(j.b) >= DirectWrite THEN file' ELSE file
        \/ /\ good /\ ~good' /\ disk' = file'
           /\ \E n \in 0 .. Len(j.b) :
                file' = WP!WriteAt(file, j.offset, SubSeq(j.b, 1, n))
        \/ good /\ ~good' /\ UNCHANGED file /\ FlushFails
        \/ ~good /\ ~good' /\ UNCHANGED <<file, disk>>
    BY <2>4, <2>5, <2>6
  <2> QED BY <2>5, <2>7
<1> QED BY <1>1, <1>2

\* A step of the disk thread.
LEMMA DiskThreadKeeps ==
  ASSUME WP!WriterInv, EarlyInv, DiskInv, BehindInv, DiskThread
  PROVE  DiskInv'
<1>1. life # "exited" /\ UNCHANGED <<life, jobs>>
  BY DEF DiskThread, Alive, vars, dlVars
<1>2. CASE UNCHANGED <<disk, file, good, written>>
  BY <1>1, <1>2, DiskUntouched
<1>3. ASSUME NEW j \in PieceJobs, written' = Append(written, j),
             \/ /\ good /\ good'
                /\ file' = WP!WriteAt(file, j.offset, j.b)
                /\ disk' = IF Len(j.b) >= DirectWrite THEN file' ELSE file
             \/ /\ good /\ ~good' /\ disk' = file'
                /\ \E n \in 0 .. Len(j.b) :
                     file' = WP!WriteAt(file, j.offset, SubSeq(j.b, 1, n))
             \/ good /\ ~good' /\ UNCHANGED file /\ FlushFails
             \/ ~good /\ ~good' /\ UNCHANGED <<file, disk>>
      PROVE  DiskInv'
  <2>1. /\ j.offset \in Nat /\ j.b \in Seq(Byte) /\ Right(j.offset, j.b)
        /\ written \in Seq(PieceJobs) /\ file \in Seq(Byte)
        /\ InPlace(file) /\ InPlace(disk)
    BY JobIsRight DEF WP!WriterInv, WP!TypeOK, DiskInv
  <2>2. /\ Len(written) \in Nat
        /\ DOMAIN written' = 1 .. Len(written) + 1 /\ Len(written') = Len(written) + 1
        /\ written'[Len(written) + 1] = j
        /\ \A k \in 1 .. Len(written) : written'[k] = written[k]
        /\ \A k \in DOMAIN written : k \in 1 .. Len(written) /\ written[k] \in PieceJobs
    BY <1>3, <2>1
  <2> DEFINE whole == WP!WriteAt(file, j.offset, j.b)
  <2>3. CASE ~good
    BY <1>1, <1>3, <2>1, <2>3 DEF DiskInv, InPlace
  <2>4. CASE good /\ ~good' /\ ~(UNCHANGED file /\ FlushFails)
    <3>1. PICK n \in 0 .. Len(j.b) :
            file' = WP!WriteAt(file, j.offset, SubSeq(j.b, 1, n))
      BY <1>3, <2>4
    <3>2. InPlace(file)'
      <4>1. InPlace(WP!WriteAt(file, j.offset, SubSeq(j.b, 1, n)))
        BY <2>1, PartIsRight, WriteInPlace
      <4> QED BY <3>1, <4>1 DEF InPlace
    <3>3. disk' = file'
      BY <1>3, <2>4
    <3> QED BY <1>1, <2>4, <3>2, <3>3 DEF DiskInv, InPlace
  <2>5. CASE good /\ good'
    <3> DEFINE long == Len(j.b) >= DirectWrite
    <3>1. file' = whole /\ disk' = IF long THEN whole ELSE file
      BY <1>3, <2>5
    <3>2. /\ InPlace(whole) /\ Covers(whole, j)
          /\ \A w \in PieceJobs : Covers(file, w) => Covers(whole, w)
      BY <2>1, WriteInPlace, WriteCovers
    <3> HIDE DEF whole
    <3>3. \A k \in 1 .. Len(written) : Covers(file, written[k]) /\ Covers(whole, written[k])
      BY <2>2, <2>5, <3>2 DEF DiskInv
    <3>4. \A k \in 1 .. Len(written) + 1 : Covers(file', written'[k])
      <4> SUFFICES ASSUME NEW k \in 1 .. Len(written) + 1
                   PROVE  Covers(whole, written'[k])
        BY <3>1
      <4>1. CASE k \in 1 .. Len(written)
        BY <2>2, <3>3, <4>1
      <4>2. CASE k = Len(written) + 1
        BY <2>2, <3>2, <4>2
      <4> QED BY <2>2, <4>1, <4>2
    <3>5. \A k \in 1 .. Len(written) + 1 :
            k < Len(written) + 1 \/ Len(written'[k].b) >= DirectWrite
              => Covers(disk', written'[k])
      <4> SUFFICES ASSUME NEW k \in 1 .. Len(written) + 1,
                          k < Len(written) + 1 \/ Len(written'[k].b) >= DirectWrite
                   PROVE  Covers(disk', written'[k])
        OBVIOUS
      <4>1. CASE k \in 1 .. Len(written)
        <5>1. disk' = whole \/ disk' = file
          BY <3>1
        <5> QED BY <2>2, <3>3, <4>1, <5>1
      <4>2. CASE k = Len(written) + 1
        <5>1. long
          BY <2>2, <4>2
        <5> QED BY <2>2, <3>1, <3>2, <4>2, <5>1
      <4> QED BY <2>2, <4>1, <4>2
    <3>6. InPlace(file)' /\ InPlace(disk)'
      BY <2>1, <3>1, <3>2 DEF InPlace
    <3>7. /\ \A k \in DOMAIN written' : Covers(file, written[k])'
          /\ \A k \in DOMAIN written' :
               k < Len(written') \/ Len(written'[k].b) >= DirectWrite
                 => Covers(disk, written[k])'
      BY <2>2, <3>4, <3>5 DEF Covers
    <3> QED BY <1>1, <3>6, <3>7 DEF DiskInv
  <2>6. CASE good /\ ~good' /\ UNCHANGED file /\ FlushFails
    <3>1. InPlace(disk')
      BY <2>6, FlushFailsBetween
    <3> QED BY <1>1, <2>1, <2>6, <3>1 DEF DiskInv, InPlace
  <2> QED BY <1>3, <2>3, <2>4, <2>5, <2>6
<1> QED BY <1>2, <1>3, DiskThreadWrites

LEMMA EarlyStep ==
  ASSUME EarlyInv, [ClientNext]_clientVars
  PROVE  EarlyInv'
<1> USE DEF EarlyInv
<1>1. CASE Main
  BY <1>1 DEF Main, NothingToDo, Construct, StartWriter, StartSpeed, ConstructFarm,
              StartThrows, StartReturns, DestroySpeed, DestroyWriter, Goto, vars,
              dlVars
<1>2. CASE NetworkStep
  BY <1>2 DEF NetworkStep
<1>3. CASE CountRest \/ DiskThread \/ ProgressThread \/ Interrupt
           \/ UNCHANGED clientVars
  BY <1>3 DEF CountRest, DiskThread, ProgressThread, Interrupt, clientVars, vars,
              dlVars
<1>4. ASSUME NEW c \in Conns, PeerStep(c)
      PROVE  EarlyInv'
  BY <1>4 DEF PeerStep, Peer, PeerGreet, PeerUnchoke, PeerChoke, PeerForgets,
              PeerHave, PeerServe, PeerCloses, OnlyPeer, dlVars
<1> QED BY <1>1, <1>2, <1>3, <1>4 DEF ClientNext, NetworkThread

\* Closing the file, when the disk thread has written everything.
LEMMA CloseKeeps ==
  ASSUME WP!WriterInv, DiskInv, BehindInv, Close,
         UNCHANGED <<file, good, written, jobs>>, written = jobs
  PROVE  DiskInv'
<1>1. /\ InPlace(file) /\ InPlace(disk) /\ written \in Seq(PieceJobs)
      /\ file \in Seq(Byte) /\ disk \in Seq(Byte)
  BY DEF DiskInv, InPlace, WP!WriterInv, WP!TypeOK
<1>2. CASE ~good
  <2>1. disk' \in {file, disk}
    BY <1>2 DEF Close
  <2> QED BY <1>1, <1>2, <2>1 DEF DiskInv, InPlace
<1>3. CASE good /\ disk' = file
  BY <1>1, <1>3 DEF DiskInv, InPlace, Covers
<1>4. CASE good /\ lost' /\ FlushFails
  <2>1. InPlace(disk') /\ Keeps(disk, disk') /\ disk' \in Seq(Byte)
    BY <1>4, FlushFailsBetween DEF InPlace
  <2>2. ASSUME NEW k \in DOMAIN written,
               k < Len(written) \/ Len(written[k].b) >= DirectWrite
        PROVE  Covers(disk', written[k])
    <3>1. Covers(disk, written[k]) /\ written[k] \in PieceJobs
      BY <1>1, <1>4, <2>2 DEF DiskInv
    <3> QED BY <1>1, <2>1, <3>1, StaysCovered
  <2>3. \A k \in DOMAIN written : Covers(file, written[k])
    BY <1>4 DEF DiskInv
  <2> QED BY <1>1, <1>4, <2>1, <2>2, <2>3 DEF DiskInv, InPlace, Covers
<1> QED BY <1>2, <1>3, <1>4 DEF Close

LEMMA DiskStep ==
  ASSUME WP!WriterInv, EarlyInv, DiskInv, BehindInv, [ClientNext]_clientVars
  PROVE  DiskInv'
<1>1. CASE DestroyWriter
  <2>1. CASE W!Join /\ Close
    <3>1. UNCHANGED <<file, good, written, jobs>>
      BY <2>1 DEF W!Join
    <3>2. written = jobs
      <4>1. tpc \in {"none", "done"}
        BY <2>1 DEF W!Join
      <4> QED BY <4>1, PieceJobsAreJobs, WP!DrainedWhenOver
    <3> QED BY <2>1, <3>1, <3>2, CloseKeeps
  <2>2. CASE (W!SetStop \/ W!StopNotify) /\ UNCHANGED <<life, disk, lost>>
    <3>1. UNCHANGED <<disk, file, good, written, jobs, life, lost>>
      BY <2>2 DEF W!SetStop, W!StopNotify
    <3> QED BY <3>1, DiskUntouched
  <2> QED BY <1>1, <2>1, <2>2 DEF DestroyWriter, Goto
<1>2. CASE NothingToDo
  <2>1. /\ UNCHANGED <<disk, file, good, written, jobs>> /\ jobs = <<>>
    BY <1>2 DEF NothingToDo, EarlyInv, writerVars, vars, dlVars
  <2> QED BY <2>1 DEF DiskInv, InPlace, Covers
<1>3. CASE Construct \/ StartWriter \/ StartSpeed \/ ConstructFarm \/ StartThrows
           \/ StartReturns \/ DestroySpeed
  <2>1. UNCHANGED <<disk, file, good, written>> /\ life' # "exited"
    BY <1>3 DEF Construct, StartWriter, StartSpeed, ConstructFarm, StartThrows,
                StartReturns, DestroySpeed, Goto, writerVars, W!start
  <2> QED BY <2>1, DiskUntouched
<1>4. CASE NetworkStep
  <2>1. UNCHANGED <<disk, file, good, written>> /\ life' # "exited"
    BY <1>4 DEF NetworkStep, Enqueue, writerVars, W!add
  <2> QED BY <2>1, DiskUntouched
<1>5. CASE CountRest \/ ProgressThread \/ Interrupt \/ UNCHANGED clientVars
  <2>1. UNCHANGED <<disk, file, good, written, jobs, life, lost>>
    BY <1>5 DEF CountRest, ProgressThread, Interrupt, clientVars, writerVars, vars,
                dlVars
  <2> QED BY <2>1, DiskUntouched
<1>6. CASE DiskThread
  BY <1>6, DiskThreadKeeps
<1>7. ASSUME NEW c \in Conns, PeerStep(c)
      PROVE  DiskInv'
  <2>1. UNCHANGED <<disk, file, good, written, jobs, life, lost>>
    BY <1>7 DEF PeerStep, Peer, PeerGreet, PeerUnchoke, PeerChoke, PeerForgets,
                PeerHave, PeerServe, PeerCloses, OnlyPeer, dlVars, writerVars
  <2> QED BY <2>1, DiskUntouched
<1> QED BY <1>1, <1>2, <1>3, <1>4, <1>5, <1>6, <1>7
        DEF ClientNext, NetworkThread, Main

\* The file only ever grows.
LEMMA FileGrows ==
  ASSUME WP!WriterInv, DiskInv, BehindInv, [ClientNext]_clientVars
  PROVE  Keeps(disk, disk') /\ BehindInv'
<1>1. /\ disk \in Seq(Byte) /\ file \in Seq(Byte)
      /\ Keeps(disk, disk) /\ Keeps(file, file) /\ Keeps(disk, file)
  BY KeepsSame DEF DiskInv, InPlace, BehindInv
<1>2. CASE UNCHANGED <<disk, file>>
  BY <1>1, <1>2 DEF BehindInv, Keeps
<1>3. CASE DestroyWriter
  <2>1. /\ file' = file
        /\ disk' \in {disk, file} \/ (good /\ FlushFails)
    BY <1>3 DEF DestroyWriter, Close, W!SetStop, W!StopNotify, W!Join
  <2>2. CASE disk' \in {disk, file}
    BY <1>1, <2>1, <2>2 DEF BehindInv, Keeps
  <2>3. CASE good /\ FlushFails
    BY <2>1, <2>3, FlushFailsBetween DEF BehindInv, Keeps
  <2> QED BY <2>1, <2>2, <2>3
<1>4. CASE DiskThread
  <2>1. ASSUME NEW j \in PieceJobs, NEW b \in Seq(Byte), Right(j.offset, b),
               file' = WP!WriteAt(file, j.offset, b), disk' \in {file, file'}
        PROVE  Keeps(disk, disk') /\ BehindInv'
    <3> DEFINE g == WP!WriteAt(file, j.offset, b)
    <3>1. g \in Seq(Byte) /\ Keeps(file, g)
      BY <1>1, <2>1, JobIsRight, PieceJobsAreJobs, WP!WriteAtType, WriteKeeps
    <3>2. file' = g
      BY <2>1
    <3> HIDE DEF g
    <3>3. Keeps(disk, g) /\ Keeps(g, g)
      BY <1>1, <3>1, KeepsChain, KeepsSame
    <3> QED BY <1>1, <2>1, <3>1, <3>2, <3>3 DEF BehindInv, Keeps
  <2>2. ASSUME NEW j \in PieceJobs, good, good',
               file' = WP!WriteAt(file, j.offset, j.b), disk' \in {file, file'}
        PROVE  Keeps(disk, disk') /\ BehindInv'
    BY <2>1, <2>2, JobIsRight
  <2>3. ASSUME NEW j \in PieceJobs, disk' = file', NEW n \in 0 .. Len(j.b),
               file' = WP!WriteAt(file, j.offset, SubSeq(j.b, 1, n))
        PROVE  Keeps(disk, disk') /\ BehindInv'
    BY <2>1, <2>3, PartIsRight
  <2>4. ASSUME good, UNCHANGED file, FlushFails
        PROVE  Keeps(disk, disk') /\ BehindInv'
    BY <2>4, FlushFailsBetween DEF BehindInv, Keeps
  <2> QED BY <1>2, <1>4, <2>2, <2>3, <2>4, DiskThreadWrites
<1>5. CASE Main /\ ~DestroyWriter
  BY <1>2, <1>5
  DEF Main, NothingToDo, Construct, StartWriter, StartSpeed, ConstructFarm,
      StartThrows, StartReturns, DestroySpeed, W!start, writerVars
<1>6. CASE NetworkThread \/ ProgressThread \/ Interrupt \/ UNCHANGED clientVars
           \/ \E c \in Conns : PeerStep(c)
  BY <1>2, <1>6
  DEF NetworkThread, NetworkStep, CountRest, Enqueue, W!add, ProgressThread,
      Interrupt, PeerStep, clientVars, writerVars
<1> QED BY <1>3, <1>4, <1>5, <1>6 DEF ClientNext

-----------------------------------------------------------------------------
(* The invariant and the theorems. *)

ClientInv ==
  /\ FarmInv /\ FlightInv /\ PcInv /\ EarlyInv
  /\ WP!WriterInv /\ DiskInv /\ BehindInv /\ SpeedInv /\ CountInv

LEMMA ClientInitInv == ClientInit => ClientInv
<1> SUFFICES ASSUME ClientInit PROVE ClientInv
  OBVIOUS
<1>1. Init /\ W!Init /\ S!Init /\ life = "main" /\ adding = 0 /\ disk = <<>>
  BY DEF ClientInit
<1>2. FarmInv /\ FlightInv
  BY <1>1, FarmInit, FlightInit
<1>3. PcInv /\ EarlyInv
  BY <1>1 DEF Init, DownloaderInit, ConnectionInit, PcInv, EarlyInv
<1>4. WP!WriterInv
  <2>1. WP!Init
    BY <1>1 DEF W!Init, WP!Init
  <2> QED BY <2>1, PieceJobsAreJobs, WP!InitInv
<1>5. DiskInv /\ BehindInv
  <2>1. file = <<>> /\ disk = <<>> /\ written = <<>>
    BY <1>1 DEF W!Init
  <2>2. <<>> \in Seq(Byte) /\ Len(<<>>) = 0
    OBVIOUS
  <2> QED BY <1>1, <2>1, <2>2 DEF DiskInv, InPlace, BehindInv, Keeps
<1>6. SpeedInv
  BY <1>1 DEF S!Init, SpeedInv, SpeedConserves
<1>7. CountInv
  <2>1. bytes_downloaded = 0
    BY <1>1 DEF S!Init
  <2>2. Settled(wire, reqs, asked, {}) /\ {} \in SUBSET AskedCells(asked)
    BY DEF Settled
  <2> QED BY <2>1, <2>2, FS_EmptySet DEF CountInv
<1> QED BY <1>2, <1>3, <1>4, <1>5, <1>6, <1>7 DEF ClientInv

LEMMA ClientStep == ClientInv /\ [ClientNext]_clientVars => ClientInv'
<1> SUFFICES ASSUME ClientInv, [ClientNext]_clientVars PROVE ClientInv'
  OBVIOUS
<1>1. /\ FarmInv /\ FlightInv /\ PcInv /\ EarlyInv
      /\ WP!WriterInv /\ DiskInv /\ BehindInv /\ SpeedInv /\ CountInv
  BY DEF ClientInv
<1>2. [Next]_vars \/ Terminated
  BY StepOfFarm
<1>3. FarmInv' /\ FlightInv'
  BY <1>1, <1>2, FarmKept
<1>4. PcInv'
  BY <1>1, <1>2, PcKept
<1>5. WP!WriterInv'
  BY <1>1, <1>3, StepOfWriter, WriterKept
<1>6. EarlyInv' /\ DiskInv' /\ BehindInv'
  BY <1>1, EarlyStep, DiskStep, FileGrows
<1>7. SpeedInv' /\ CountInv'
  BY <1>1, SpeedStep, CountStep
<1> QED BY <1>3, <1>4, <1>5, <1>6, <1>7 DEF ClientInv

\* ClientInv holds in every reachable state.
THEOREM ClientInvariant == ClientSpec => []ClientInv
BY ClientInitInv, ClientStep, PTL DEF ClientSpec

\* The rest of the program, whatever its other threads do and whenever it is
\* ended, uses the Writer as module Writer assumes: every theorem about Writer
\* holds of the program.
THEOREM WriterUsedAsSpecified == ClientSpec => WriterAsSpecified
<1>1. ClientInit => W!Init
  BY DEF ClientInit
<1>2. ClientInv /\ ClientInv' /\ [ClientNext]_clientVars => [W!Next]_(W!vars)
  BY StepOfWriter DEF ClientInv
<1> QED BY <1>1, <1>2, ClientInvariant, PTL
        DEF ClientSpec, WriterAsSpecified, W!Spec

\* Hence the promise of Worker.h is kept to Downloader: the pieces it hands to add
\* are stored once each and in their order, and ~Writer waits for all of them.
THEOREM ClientKeepsJobLog == ClientSpec => W!ImplementsJobLog
<1>1. W!Init => WP!Init
  BY DEF W!Init, WP!Init
<1>2. [W!Next]_(W!vars) => [WP!Next]_(WP!vars)
  BY WriterNext DEF W!vars, WP!vars
<1>3. WP!Spec => WP!ImplementsJobLog
  BY PieceJobsAreJobs, WP!WriterImplementsJobLog
<1>4. WP!Log!LogInit => W!Log!LogInit
  BY DEF WP!Log!LogInit, W!Log!LogInit
<1>5. [WP!Log!LogNext]_(WP!Log!logVars) => [W!Log!LogNext]_(W!Log!logVars)
  BY DEF WP!Log!LogNext, W!Log!LogNext, WP!Log!logVars, W!Log!logVars,
         WP!Log!Accept, W!Log!Accept, WP!Log!Store, W!Log!Store,
         WP!Log!Close, W!Log!Close
<1> QED
  BY <1>1, <1>2, <1>3, <1>4, <1>5, WriterUsedAsSpecified, PTL
     DEF WriterAsSpecified, W!Spec, WP!Spec, WP!ImplementsJobLog,
         W!ImplementsJobLog, WP!Log!LogSpec, W!Log!LogSpec

\* Nothing else was assumed: add is called once for a piece at most, so the
\* bound of Writer on its calls keeps nothing from being added.
THEOREM AddsWithinBound == ClientSpec => [](Len(jobs) <= NumPieces)
<1>1. ClientInv => Len(jobs) <= NumPieces
  <2> SUFFICES ASSUME ClientInv PROVE Len(jobs) <= NumPieces
    OBVIOUS
  <2>1. jobs \in Seq(VerifiedJob) /\ WrittenOnce
    BY DEF ClientInv, FarmInv, DownloaderInv, FlightInv
  <2> DEFINE K == 1 .. Len(jobs)
             f == [k \in K |-> CHOOSE i \in Pieces : jobs[k].offset = i * PieceLength]
  <2>2. ASSUME NEW k \in K
        PROVE  f[k] \in Pieces /\ jobs[k].offset = f[k] * PieceLength
    <3>1. jobs[k] \in VerifiedJob
      BY <2>1
    <3>2. \E i \in Pieces : jobs[k].offset = i * PieceLength
      BY <3>1 DEF VerifiedJob
    <3> QED BY <3>2
  <2>3. DOMAIN jobs = K /\ Len(jobs) \in Nat
    BY <2>1
  <2>4. f = [k \in K |-> f[k]]
    OBVIOUS
  <2> HIDE DEF f, K
  <2>5. f \in [K -> Pieces]
    BY <2>2, <2>4
  <2>6. \A k, l \in K : f[k] = f[l] => k = l
    BY <2>1, <2>2, <2>3 DEF WrittenOnce
  <2>7. f \in Injection(K, Pieces)
    BY <2>5, <2>6 DEF Injection, IsInjective
  <2>8. NumPieces \in Nat \ {0}
    BY TorrentConstants
  <2>9. IsFiniteSet(Pieces) /\ Cardinality(Pieces) = NumPieces
    BY <2>8, FS_Interval DEF Pieces
  <2>10. Cardinality(K) = Len(jobs)
    <3> DEFINE n == Len(jobs)
    <3>1. n \in Nat
      BY <2>3
    <3> HIDE DEF n
    <3>2. Cardinality(1 .. n) = n
      BY <3>1, FS_Interval
    <3> QED BY <3>2 DEF K, n
  <2> QED BY <2>7, <2>9, <2>10, FS_Injection
<1> QED BY <1>1, ClientInvariant, PTL

\* What Farm promises survives that Enqueue may have to wait, that Start may throw
\* and that the process may be terminated: requests tile the pieces, a piece is
\* written once, and no socket is read with nothing to receive.
THEOREM FarmKeepsPromises ==
  ClientSpec => [](RequestsTile /\ WrittenOnce /\ ReadableWhenRead)
<1>1. ClientInit => ReadableInv
  <2>1. ClientInit => Init
    BY DEF ClientInit
  <2> QED BY <2>1 DEF Init, DownloaderInit, ConnectionInit, ReadableInv, PcInv,
                      ReadableWhenRead
<1>2. ClientInv /\ ReadableInv /\ [ClientNext]_clientVars => ReadableInv'
  <2> SUFFICES ASSUME ClientInv, ReadableInv, [ClientNext]_clientVars
               PROVE  ReadableInv'
    OBVIOUS
  <2>1. CASE [Next]_vars
    BY <2>1, ReadableStep DEF ClientInv
  <2>2. CASE Terminated
    <3>1. UNCHANGED <<pc, events, reading, sock, wire, link>>
      BY <2>2 DEF Terminated, farmVars, readVars, connVars, peerVars
    <3> QED BY <3>1 DEF ReadableInv, PcInv, ReadableWhenRead
  <2> QED BY <2>1, <2>2, StepOfFarm
<1>3. ClientInv /\ ReadableInv => RequestsTile /\ WrittenOnce /\ ReadableWhenRead
  BY DEF ClientInv, FarmInv, RequestInv, FlightInv, ReadableInv
<1> QED BY <1>1, <1>2, <1>3, ClientInvariant, PTL DEF ClientSpec

\* Whenever the process is terminated, whatever failed: the file holds bytes of
\* the torrent in their place and zeros, and of what was written it lacks the
\* last piece at most.
THEOREM DiskHoldsTorrent == ClientSpec => []DiskHoldsWritten
<1>1. ClientInv => DiskHoldsWritten
  <2> SUFFICES ASSUME ClientInv PROVE DiskHoldsWritten
    OBVIOUS
  <2>1. WP!WriterInv /\ DiskInv
    BY DEF ClientInv
  <2>2. \A p \in DOMAIN disk : disk[p] \in {0, Content[p]}
    BY <2>1 DEF DiskInv, InPlace
  <2>3. ASSUME good, NEW k \in DOMAIN written,
               k < Len(written) \/ Len(jobs[k].b) >= DirectWrite
        PROVE  OnDisk(jobs[k])
    <3>1. written[k] = jobs[k] /\ jobs[k] \in PieceJobs
      BY <2>1, WrittenFront
    <3>2. Covers(disk, jobs[k])
      BY <2>1, <2>3, <3>1 DEF DiskInv
    <3> QED BY <2>1, <3>1, <3>2, CoveredOnDisk DEF DiskInv, InPlace
  <2> QED BY <2>2, <2>3 DEF DiskHoldsWritten
<1> QED BY <1>1, ClientInvariant, PTL

\* A program that ends by itself, be it that Run has returned or that Start has
\* thrown, and in which neither a write nor the closing of the file has failed
\* (good, ~lost), has every piece that was given to the Writer in the file.  Of a
\* process that is terminated it says nothing: of that, DiskHoldsTorrent.
THEOREM NothingLostAtExit == ClientSpec => []ExitHoldsAll
<1>1. ClientInv => ExitHoldsAll
  <2> SUFFICES ASSUME ClientInv, life = "exited", good, ~lost,
                      NEW k \in DOMAIN jobs
               PROVE  OnDisk(jobs[k])
    BY DEF ExitHoldsAll
  <2>1. WP!WriterInv /\ DiskInv
    BY DEF ClientInv
  <2>2. jobs[k] \in PieceJobs
    BY <2>1 DEF WP!WriterInv, WP!TypeOK
  <2> QED BY <2>1, <2>2, CoveredOnDisk DEF DiskInv, InPlace
<1> QED BY <1>1, ClientInvariant, PTL

\* However add and the progress thread interleave, every byte is sampled once.
THEOREM BytesSampledOnce == ClientSpec => []SpeedConserves
<1>1. ClientInv => SpeedConserves
  BY DEF ClientInv, SpeedInv
<1> QED BY <1>1, ClientInvariant, PTL

\* The bar and the totals cover all that was sampled: add counts the total
\* first, the progress thread reads it last.
THEOREM ProgressCoversSpeeds == ClientSpec => []ShownCoversSamples
<1>1. ClientInv => ShownCoversSamples
  BY DEF ClientInv, SpeedInv, ShownCoversSamples
<1> QED BY <1>1, ClientInvariant, PTL

\* The progress never passes 100 percent, for any torrent and any peers: every
\* byte counted was asked for, and asked for once.
THEOREM ProgressWithinTotal == ClientSpec => []NeverOverTotal
<1>1. ClientInv => NeverOverTotal
  BY AskedFits DEF ClientInv, CountInv, NeverOverTotal, FarmInv
<1> QED BY <1>1, ClientInvariant, PTL

-----------------------------------------------------------------------------
(* The program as its user sees it: module Download. *)

JobOf(i) == [b |-> PieceContent(i), offset |-> i * PieceLength]

\* The pieces that are in the file, before and after a step.
LEMMA KeptIs ==
  ASSUME disk \in Seq(Byte), disk' \in Seq(Byte)
  PROVE  /\ Kept = {i \in Pieces : Queued(i) /\ Covers(disk, JobOf(i))}
         /\ Kept' = {i \in Pieces : Queued(i)' /\ Covers(disk', JobOf(i))}
         /\ Verified' = {i \in Pieces : Queued(i)'}
<1>1. \A i \in Pieces : JobOf(i) \in PieceJobs
  BY DEF JobOf, PieceJobs
<1>2. \A i \in Pieces : /\ Covers(disk, JobOf(i)) <=> On(disk, JobOf(i))
                        /\ Covers(disk', JobOf(i)) <=> On(disk', JobOf(i))
  BY <1>1, CoveredIsOn
<1>3. Kept = {i \in Pieces : Queued(i) /\ On(disk, JobOf(i))}
  BY DEF Kept, Verified, JobOf, On, OnDisk
<1>4. Kept' = {i \in Pieces : Queued(i)' /\ On(disk', JobOf(i))}
  BY DEF Kept, Verified, JobOf, On, OnDisk, Slice, PieceContent, PieceLen, Pieces
<1>5. Verified' = {i \in Pieces : Queued(i)'}
  BY DEF Verified, Pieces
<1> QED BY <1>2, <1>3, <1>4, <1>5

\* A step of no interest to Download.
LEMMA DownloadStutters ==
  ASSUME UNCHANGED <<jobs, disk, killed>>,
         UNCHANGED <<life, good, lost>> \/ (life # "exited" /\ life' # "exited")
  PROVE  UNCHANGED D!downloadVars
<1>1. Verified' = Verified
  BY DEF Verified, Queued, Pieces
<1>2. Kept' = Kept
  BY DEF Kept, Verified, Queued, OnDisk, Slice, PieceContent, PieceLen, Pieces
<1>3. Over' = Over
  BY DEF Over
<1> QED BY <1>1, <1>2, <1>3 DEF D!downloadVars

\* A piece given to the Writer is one that was not given to it before: Verify.
LEMMA StepVerifies ==
  ASSUME FarmInv, WrittenOnce', disk \in Seq(Byte), UNCHANGED <<disk, life>>,
         ~killed, killed' \in BOOLEAN, life # "exited",
         NEW i \in Pieces, jobs' = Append(jobs, JobOf(i))
  PROVE  D!Verify(i)
<1> DEFINE n == Len(jobs) + 1
<1>1. /\ n \in Nat /\ n \in DOMAIN jobs' /\ jobs'[n] = JobOf(i)
      /\ DOMAIN jobs = 1 .. Len(jobs) /\ Len(jobs) \in Nat
      /\ DOMAIN jobs' = 1 .. n
      /\ \A k \in DOMAIN jobs : k \in DOMAIN jobs' /\ jobs'[k] = jobs[k] /\ k # n
  <2>1. jobs \in Seq(VerifiedJob)
    BY DEF FarmInv, DownloaderInv
  <2> DEFINE j == JobOf(i)
  <2> HIDE DEF j
  <2>2. jobs' = Append(jobs, j)
    BY DEF j
  <2>3. /\ n \in Nat /\ n \in DOMAIN jobs' /\ jobs'[n] = j
        /\ DOMAIN jobs = 1 .. Len(jobs) /\ Len(jobs) \in Nat
        /\ DOMAIN jobs' = 1 .. n
        /\ \A k \in DOMAIN jobs : k \in DOMAIN jobs' /\ jobs'[k] = jobs[k] /\ k # n
    BY <2>1, <2>2
  <2> QED BY <2>3 DEF j
<1> HIDE DEF n
<1>2. jobs'[n].offset = i * PieceLength
  BY <1>1 DEF JobOf
<1>3. ~Queued(i)
  <2> SUFFICES ASSUME NEW k \in DOMAIN jobs, jobs[k].offset = i * PieceLength
               PROVE  FALSE
    BY DEF Queued
  <2>1. k \in DOMAIN jobs' /\ jobs'[k] = jobs[k] /\ k # n
    BY <1>1
  <2> QED BY <1>1, <1>2, <2>1 DEF WrittenOnce
<1>4. ASSUME NEW x \in Pieces
      PROVE  Queued(x)' <=> Queued(x) \/ x = i
  <2>1. Queued(x)' <=> \E k \in DOMAIN jobs' : jobs'[k].offset = x * PieceLength
    BY DEF Queued
  <2>2. ASSUME NEW k \in DOMAIN jobs', jobs'[k].offset = x * PieceLength
        PROVE  Queued(x) \/ x = i
    <3>1. CASE k = n
      BY <1>2, <2>2, <3>1, OffsetOfPiece
    <3>2. CASE k # n
      <4>1. k \in DOMAIN jobs
        BY <1>1, <3>2
      <4> QED BY <1>1, <2>2, <4>1 DEF Queued
    <3> QED BY <3>1, <3>2
  <2>3. Queued(x) => Queued(x)'
    BY <1>1, <2>1 DEF Queued
  <2>4. x = i => Queued(x)'
    BY <1>1, <1>2, <2>1
  <2> QED BY <2>1, <2>2, <2>3, <2>4
<1>5. /\ Kept = {x \in Pieces : Queued(x) /\ Covers(disk, JobOf(x))}
      /\ Kept' = {x \in Pieces : Queued(x)' /\ Covers(disk, JobOf(x))}
      /\ Verified' = {x \in Pieces : Queued(x)'}
  BY KeptIs
<1>6. Verified' = Verified \cup {i} /\ i \notin Verified
  BY <1>3, <1>4, <1>5 DEF Verified
<1>7. Kept' \in {Kept, Kept \cup {i}}
  <2>1. CASE Covers(disk, JobOf(i))
    <3>1. Kept' = Kept \cup {i}
      BY <1>4, <1>5, <2>1
    <3> QED BY <3>1
  <2>2. CASE ~Covers(disk, JobOf(i))
    <3>1. Kept' = Kept
      BY <1>4, <1>5, <2>2
    <3> QED BY <3>1
  <2> QED BY <2>1, <2>2
<1>8. Over = "no" /\ Over' \in {"no", "cut"}
  BY DEF Over
<1> QED BY <1>6, <1>7, <1>8 DEF D!Verify

\* What the disk thread does to the file: Save.
LEMMA StepSaves ==
  ASSUME disk \in Seq(Byte), disk' \in Seq(Byte), Keeps(disk, disk'),
         UNCHANGED <<jobs, killed, life>>, ~killed, life # "exited"
  PROVE  D!Save
<1>1. \A i \in Pieces : JobOf(i) \in PieceJobs /\ (Queued(i)' <=> Queued(i))
  BY DEF JobOf, PieceJobs, Queued
<1>2. \A i \in Pieces : Covers(disk, JobOf(i)) => Covers(disk', JobOf(i))
  BY <1>1, StaysCovered
<1>3. Verified' = Verified /\ Kept \subseteq Kept' /\ Kept' \subseteq Verified
  BY <1>1, <1>2, KeptIs DEF Verified
<1>4. Over = "no" /\ Over' = Over
  BY DEF Over
<1> QED BY <1>3, <1>4 DEF D!Save

\* The program ends by itself: Finish if every write succeeded, else Cut.
LEMMA StepEnds ==
  ASSUME FarmInv, DiskInv, DiskInv', UNCHANGED <<jobs, killed, good>>,
         ~killed, life # "exited", life' = "exited", Keeps(disk, disk')
  PROVE  D!Finish \/ D!Cut
<1>1. disk \in Seq(Byte) /\ disk' \in Seq(Byte)
  BY DEF DiskInv, InPlace
<1>2. Over = "no" /\ Over' = IF good /\ ~lost' THEN "clean" ELSE "cut"
  BY DEF Over
<1>3. \A i \in Pieces : JobOf(i) \in PieceJobs /\ (Queued(i)' <=> Queued(i))
  BY DEF JobOf, PieceJobs, Queued
<1>4. Verified' = Verified
  BY <1>1, <1>3, KeptIs DEF Verified
<1>5. CASE good /\ ~lost'
  <2>1. \A k \in DOMAIN jobs' : Covers(disk', jobs'[k])
    BY <1>5 DEF DiskInv, Covers
  <2>2. ASSUME NEW i \in Pieces, Queued(i)'
        PROVE  Covers(disk', JobOf(i))
    <3>1. PICK k \in DOMAIN jobs : jobs[k].offset = i * PieceLength
      BY <1>3, <2>2 DEF Queued
    <3>2. jobs[k] \in VerifiedJob
      BY <3>1 DEF FarmInv, DownloaderInv
    <3>3. PICK j \in Pieces : jobs[k] = JobOf(j)
      BY <3>2 DEF VerifiedJob, JobOf
    <3>4. j = i
      BY <3>1, <3>3, OffsetOfPiece DEF JobOf
    <3> QED BY <2>1, <3>1, <3>3, <3>4
  <2>3. Kept' = Verified
    BY <1>1, <1>3, <2>2, KeptIs DEF Verified
  <2> QED BY <1>2, <1>4, <1>5, <2>3 DEF D!Finish
<1>6. CASE ~(good /\ ~lost')
  <2>1. \A i \in Pieces : Covers(disk, JobOf(i)) => Covers(disk', JobOf(i))
    BY <1>1, <1>3, StaysCovered
  <2>2. Kept \subseteq Kept' /\ Kept' \subseteq Verified
    BY <1>1, <1>3, <2>1, KeptIs DEF Verified
  <2> QED BY <1>2, <1>4, <1>6, <2>2 DEF D!Cut
<1> QED BY <1>5, <1>6

\* The process is terminated.
LEMMA StepCuts ==
  ASSUME UNCHANGED <<jobs, disk>>, ~killed, life # "exited", killed'
  PROVE  D!Cut
<1>1. Verified' = Verified /\ Kept' = Kept /\ Kept \subseteq Verified
  BY DEF Verified, Kept, Queued, OnDisk, Slice, PieceContent, PieceLen, Pieces
<1>2. Over = "no" /\ Over' = "cut"
  BY DEF Over
<1> QED BY <1>1, <1>2 DEF D!Cut

\* Every step of the program is a step of Download, or of no interest to it.
LEMMA StepOfDownload ==
  ASSUME ClientInv, ClientInv', [ClientNext]_clientVars
  PROVE  [D!DownloadNext]_(D!downloadVars)
<1>1. /\ FarmInv /\ EarlyInv /\ WP!WriterInv /\ DiskInv /\ DiskInv' /\ WrittenOnce'
      /\ disk \in Seq(Byte) /\ disk' \in Seq(Byte) /\ killed' \in BOOLEAN
      /\ FarmInv' /\ killed \in BOOLEAN
  BY DEF ClientInv, DiskInv, InPlace, FlightInv, FarmInv, ControlTypes
<1>2. Keeps(disk, disk')
  BY FileGrows DEF ClientInv
<1>3. CASE NothingToDo
  <2>1. /\ UNCHANGED <<jobs, killed, good, disk>>
        /\ ~killed /\ life # "exited" /\ life' = "exited"
    BY <1>3 DEF NothingToDo, Alive, Goto, writerVars, vars, dlVars
  <2> QED BY <1>1, <1>2, <2>1, StepEnds DEF D!DownloadNext
<1>4. CASE DestroyWriter
  <2>1. /\ UNCHANGED <<jobs, killed, good>> /\ ~killed /\ life # "exited"
        /\ UNCHANGED <<life, disk, lost>> \/ life' = "exited"
    BY <1>4 DEF DestroyWriter, Alive, Goto, W!SetStop, W!StopNotify, W!Join, vars,
                dlVars
  <2>2. CASE UNCHANGED <<life, disk, lost>>
    BY <2>1, <2>2, DownloadStutters
  <2>3. CASE life' = "exited"
    BY <1>1, <1>2, <2>1, <2>3, StepEnds DEF D!DownloadNext
  <2> QED BY <2>1, <2>2, <2>3
<1>5. CASE Main /\ ~NothingToDo /\ ~DestroyWriter
  <2>1. /\ UNCHANGED <<jobs, disk, killed>> /\ life # "exited" /\ life' # "exited"
    BY <1>5
    DEF Main, Construct, StartWriter, StartSpeed, ConstructFarm, StartThrows,
        StartReturns, DestroySpeed, Alive, Goto, vars, dlVars
  <2> QED BY <2>1, DownloadStutters
<1>6. CASE NetworkStep
  <2>1. UNCHANGED <<disk, life, good, lost>> /\ ~killed /\ life # "exited"
    BY <1>6 DEF NetworkStep, Enqueue, W!add, writerVars
  <2>2. CASE jobs' = jobs
    <3>1. CASE killed'
      BY <2>1, <2>2, <3>1, StepCuts DEF D!DownloadNext
    <3>2. CASE ~killed'
      <4>1. killed' = killed
        BY <1>1, <2>1, <3>2
      <4> QED BY <2>1, <2>2, <4>1, DownloadStutters
    <3> QED BY <3>1, <3>2
  <2>3. ASSUME NEW j \in PieceJobs, W!add(j)
        PROVE  D!DownloadNext
    <3>1. PICK i \in Pieces : j = JobOf(i)
      BY DEF PieceJobs, JobOf
    <3>2. jobs' = Append(jobs, JobOf(i))
      BY <2>3, <3>1 DEF W!add
    <3> QED BY <1>1, <2>1, <3>2, StepVerifies DEF D!DownloadNext
  <2> QED BY <1>1, <1>6, <2>2, <2>3, EnqueueAdds DEF NetworkStep
<1>7. CASE CountRest \/ ProgressThread \/ UNCHANGED clientVars
  <2>1. UNCHANGED <<jobs, disk, killed, life, good, lost>>
    BY <1>7 DEF CountRest, ProgressThread, clientVars, writerVars, vars, dlVars
  <2> QED BY <2>1, DownloadStutters
<1>8. CASE DiskThread
  <2>1. UNCHANGED <<jobs, killed, life>> /\ ~killed /\ life # "exited"
    BY <1>8 DEF DiskThread, Alive, vars, dlVars
  <2> QED BY <1>1, <1>2, <2>1, StepSaves DEF D!DownloadNext
<1>9. CASE Interrupt
  <2>1. UNCHANGED <<jobs, disk>> /\ ~killed /\ life # "exited" /\ killed'
    BY <1>9 DEF Interrupt, Alive, dlVars
  <2> QED BY <2>1, StepCuts DEF D!DownloadNext
<1>10. ASSUME NEW c \in Conns, PeerStep(c)
       PROVE  UNCHANGED D!downloadVars
  <2>1. UNCHANGED <<jobs, disk, killed, life, good, lost>>
    BY <1>10 DEF PeerStep, Peer, PeerGreet, PeerUnchoke, PeerChoke, PeerForgets,
                 PeerHave, PeerServe, PeerCloses, OnlyPeer, dlVars, writerVars
  <2> QED BY <2>1, DownloadStutters
<1> QED BY <1>3, <1>4, <1>5, <1>6, <1>7, <1>8, <1>9, <1>10
        DEF ClientNext, NetworkThread

\* The program, with all its threads, keeps the promise of Download, for every
\* torrent and any peers, whatever fails and whenever it is terminated: a piece
\* that is in the file stays there, and an end by itself, in which no write and
\* not the closing of the file failed, leaves none out.
THEOREM ClientImplementsDownload == ClientSpec => ImplementsDownload
<1>1. ClientInit => D!DownloadInit
  <2> SUFFICES ASSUME ClientInit PROVE D!DownloadInit
    OBVIOUS
  <2>1. jobs = <<>> /\ ~killed /\ life = "main"
    BY DEF ClientInit, Init, DownloaderInit, ConnectionInit
  <2>2. Verified = {} /\ Kept = {} /\ Over = "no"
    BY <2>1 DEF Verified, Kept, Over, Queued
  <2> QED BY <2>2 DEF D!DownloadInit
<1>2. ClientInv /\ ClientInv' /\ [ClientNext]_clientVars
        => [D!DownloadNext]_(D!downloadVars)
  BY StepOfDownload
<1> QED BY <1>1, <1>2, ClientInvariant, PTL
        DEF ClientSpec, ImplementsDownload, D!DownloadSpec

=============================================================================

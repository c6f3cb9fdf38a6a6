------------------------------- MODULE Client -------------------------------
(***************************************************************************)
(* One life of the program (test/main.cpp): the torrent is loaded, the     *)
(* tracker asked, a Downloader constructed and started, and destroyed      *)
(* again.  Three threads: the network thread, which is main and runs       *)
(* module Farm; the disk thread of module Writer; the progress thread of   *)
(* module Speed.  The jobs of Farm are the calls of Writer::add, the       *)
(* blocks it processes the calls of Speed::add.                            *)
(*                                                                         *)
(* The process may be terminated at any moment: by its user, by the        *)
(* SIGPIPE of module Connection.  What is then on the disk is what the     *)
(* stream had handed to the kernel.                                        *)
(***************************************************************************)
EXTENDS Farm

\* External: writes of fewer bytes stay in the buffer of std::ofstream until
\* the next seek or the close (1024 in the C++ library of Linux).
CONSTANT DirectWrite

\* At most 5 peers are connected to (Downloader::Start).
ASSUME ClientConstants == DirectWrite \in Nat /\ Cardinality(Conns) <= 5

VARIABLES
  life,                                        \* where main is
  adding,                                      \* the rest of a Speed::add
  disk,                                        \* the file, as the kernel has it
  lost,                                        \* closing it has failed, unnoticed
  q, mx, stop_flag, tpc, inhand, good, file,   \* file_writer
  mpc, written,
  bytes_downloaded, session_bytes, s_flag,     \* s
  s_thread, s_owner, sampled, progress, shown

writerVars == <<q, mx, stop_flag, tpc, inhand, good, file, mpc, written>>
speedVars == <<bytes_downloaded, session_bytes, s_flag, s_thread, s_owner,
               sampled, progress, shown>>
clientVars == <<vars, life, adding, disk, lost, writerVars, speedVars>>

PieceJobs == {[b |-> PieceContent(i), offset |-> i * PieceLength] : i \in Pieces}

W == INSTANCE Writer WITH added <- jobs, Jobs <- PieceJobs,
                          MaxAdds <- NumPieces + 1
S == INSTANCE Speed WITH stop_flag <- s_flag, thread <- s_thread,
                         owner <- s_owner

ClientInit ==
  /\ Init /\ W!Init /\ S!Init
  /\ life = "main" /\ adding = 0 /\ disk = <<>> /\ lost = FALSE

Alive == ~killed /\ life # "exited"
Goto(l) == life' = l

-----------------------------------------------------------------------------
(* main and the life of the Downloader. *)

\* TorrentFile::Load or Tracker::GetPeers throws, or there are no peers.
NothingToDo ==
  /\ Alive /\ life = "main" /\ Goto("exited")
  /\ UNCHANGED <<vars, adding, disk, lost, writerVars, speedVars>>

\* The constructor of Downloader; that of Writer opens the file, which may
\* fail: good.
Construct ==
  /\ Alive /\ life = "main" /\ Goto("constructed")
  /\ UNCHANGED <<vars, adding, disk, lost, writerVars, speedVars>>

StartWriter ==
  /\ Alive /\ life = "constructed" /\ W!start /\ Goto("writing")
  /\ UNCHANGED <<vars, adding, disk, lost, speedVars>>

StartSpeed ==
  /\ Alive /\ life = "writing" /\ S!start /\ Goto("drawing")
  /\ UNCHANGED <<vars, adding, disk, lost, writerVars>>

\* epoll_create1 succeeds.
ConstructFarm ==
  /\ Alive /\ life = "drawing" /\ Goto("run")
  /\ UNCHANGED <<vars, adding, disk, lost, writerVars, speedVars>>

\* A thread cannot be created, or epoll_create1 fails: the exception leaves
\* Start and destroys the Downloader.
StartThrows ==
  /\ Alive /\ life \in {"constructed", "writing", "drawing"}
  /\ Goto("~Speed")
  /\ UNCHANGED <<vars, adding, disk, lost, writerVars, speedVars>>

StartReturns ==
  /\ Alive /\ life = "run" /\ pc = "done" /\ adding = 0
  /\ Goto("~Speed")
  /\ UNCHANGED <<vars, adding, disk, lost, writerVars, speedVars>>

\* The members are destroyed last to first: s, then file_writer.
DestroySpeed ==
  /\ Alive /\ life = "~Speed"
  /\ \/ S!SetFlag /\ UNCHANGED life
     \/ S!Join /\ Goto("~Writer")
  /\ UNCHANGED <<vars, adding, disk, lost, writerVars>>

\* The kernel does not take all of the buffer, which holds the last bytes that
\* were written: it takes some of them, or none.
FlushFails ==
  IF written = <<>> THEN UNCHANGED disk
  ELSE LET last == written[Len(written)] IN
       \E n \in 0 .. Len(last.b) :
         disk' = W!WriteAt(disk, last.offset, SubSeq(last.b, 1, n))

\* Closing the stream flushes it.  That this fails nobody can see: no flag of
\* the stream says so any more.
Close ==
  \/ disk' = file /\ UNCHANGED lost
  \/ lost' = TRUE /\ IF good THEN FlushFails ELSE UNCHANGED disk

\* Faulty variant of DestroyWriter: the stream is closed before the join.
DestroyWriterEarlyClose ==
  /\ Alive /\ life = "~Writer"
  /\ \/ W!SetStop /\ Close /\ UNCHANGED life
     \/ W!StopNotify /\ UNCHANGED <<life, disk, lost>>
     \/ W!Join /\ Goto("exited") /\ UNCHANGED <<disk, lost>>
  /\ UNCHANGED <<vars, adding, speedVars>>

\* The members of the Writer go after the join: the stream is closed.
DestroyWriter ==
  /\ Alive /\ life = "~Writer"
  /\ \/ (W!SetStop \/ W!StopNotify) /\ UNCHANGED <<life, disk, lost>>
     \/ W!Join /\ Goto("exited") /\ Close
  /\ UNCHANGED <<vars, adding, speedVars>>

Main == NothingToDo \/ Construct \/ StartWriter \/ StartSpeed \/ ConstructFarm
        \/ StartThrows \/ StartReturns \/ DestroySpeed \/ DestroyWriter

-----------------------------------------------------------------------------
(* The three threads. *)

\* Faulty variant of Enqueue: the queue is changed without the lock.
EnqueueUnlocked ==
  IF jobs' = jobs THEN UNCHANGED writerVars
  ELSE /\ q' = Append(q, jobs'[Len(jobs')])
       /\ UNCHANGED <<mx, stop_flag, tpc, inhand, good, file, mpc, written>>

\* file_writer.add, if the step verified a piece; it waits for the lock.
Enqueue ==
  IF jobs' = jobs THEN UNCHANGED writerVars
  ELSE W!add(jobs'[Len(jobs')])

\* The bytes of the block that is being processed, if it is one.
BlockBytes ==
  IF reading # NoConn /\ state[reading] = "DOWNLOADING"
     /\ Head(wire[reading]).type = "piece"
  THEN Len(Head(wire[reading]).data) ELSE 0

\* Faulty variant of CountHalf: the counters in the other order.
CountHalfSwapped(half, b) ==
  IF half = 1 THEN S!addSession(b) ELSE S!addTotal(b)

\* s.add is two atomic additions.
CountHalf(half, b) == IF half = 1 THEN S!addTotal(b) ELSE S!addSession(b)

NetworkStep ==
  /\ ~killed /\ life = "run" /\ adding = 0
  /\ Network /\ Enqueue
  /\ CountHalf(1, BlockBytes) /\ adding' = BlockBytes
  /\ UNCHANGED <<life, disk, lost>>

\* The second half of s.add.  The call comes before the piece is verified, but
\* what it touches is only seen by the progress thread.
CountRest ==
  /\ ~killed /\ adding > 0
  /\ CountHalf(2, adding) /\ adding' = 0
  /\ UNCHANGED <<vars, life, disk, lost, writerVars>>

NetworkThread == NetworkStep \/ CountRest

\* seekp hands over what was buffered, a long write goes through.  If it is the
\* handing over that fails, nothing of the job is written.
Flushed ==
  IF Len(inhand[1].b) >= DirectWrite \/ ~good' THEN file' ELSE file

DiskThread ==
  /\ Alive
  /\ W!Thread \/ W!SpuriousWakeup
  /\ IF tpc = "write" /\ good
     THEN \/ disk' = Flushed
          \/ ~good' /\ UNCHANGED file /\ FlushFails
     ELSE UNCHANGED disk
  /\ UNCHANGED <<vars, life, adding, lost, speedVars>>

ProgressThread ==
  /\ Alive /\ S!Thread
  /\ UNCHANGED <<vars, life, adding, disk, lost, writerVars>>

-----------------------------------------------------------------------------
(* External: the peers, and who ends the process. *)

PeerStep(c) ==
  /\ Peer(c)
  /\ UNCHANGED <<life, adding, disk, lost, writerVars, speedVars>>

Interrupt ==
  /\ Alive /\ killed' = TRUE
  /\ UNCHANGED <<next_req_index, dlVars, connVars, readVars, peerVars, asked,
                 farmVars, envVars, life, adding, disk, lost, writerVars,
                 speedVars>>

ClientNext ==
  \/ Main \/ NetworkThread \/ DiskThread \/ ProgressThread \/ Interrupt
  \/ \E c \in Conns : PeerStep(c)

ClientSpec == ClientInit /\ [][ClientNext]_clientVars

\* Each thread that can run is run.  The network thread may find the mutex of
\* the Writer taken; as the disk thread lets it go again and again, even if
\* its wake-ups are spurious for ever, the network thread has it in the end:
\* strong fairness.  A peer that is up answers the handshake, unchokes and
\* serves.  Nobody has to interrupt, no wake-up has to be spurious.
WriterWorks == Alive /\ W!Thread /\ DiskThread

ClientFairSpec ==
  /\ ClientSpec
  /\ SF_clientVars(Main) /\ SF_clientVars(NetworkThread)
  /\ WF_clientVars(WriterWorks) /\ WF_clientVars(ProgressThread)
  /\ \A c \in Conns :
       /\ WF_clientVars(PeerGreet(c) /\ PeerStep(c))
       /\ WF_clientVars(PeerUnchoke(c) /\ PeerStep(c))
       /\ WF_clientVars(PeerServe(c) /\ PeerStep(c))

-----------------------------------------------------------------------------
(* Properties. *)

\* The rest of the program uses the Writer as module Writer assumes: what is added
\* is a verified piece, and nothing but add, start and the destructor, under the
\* lock where they take it, touches what the two threads share.
WriterAsSpecified == W!Spec

OnDisk(j) ==
  /\ Len(disk) >= j.offset + Len(j.b)
  /\ SubSeq(disk, j.offset + 1, j.offset + Len(j.b))
       = Slice(j.offset, Len(j.b))

\* Whenever the process is terminated, and whatever failed, the file holds
\* nothing but bytes of the torrent in their place and zeros; and if no write
\* has failed it lacks of the written pieces at most the last, and that only if
\* it is short.
DiskHoldsWritten ==
  /\ \A p \in DOMAIN disk : disk[p] \in {0, Content[p]}
  /\ good => \A k \in DOMAIN written :
               k < Len(written) \/ Len(jobs[k].b) >= DirectWrite
                 => OnDisk(jobs[k])

\* A program that ends by itself (Run has returned, or Start or what comes
\* before it has thrown) has every verified piece in the file, if no write has
\* failed and closing the file has not.
ExitHoldsAll ==
  life = "exited" /\ good /\ ~lost => \A k \in DOMAIN jobs : OnDisk(jobs[k])

\* The pieces found good, those of them that are in the file, and the end.
Verified == {i \in Pieces : Queued(i)}
Kept == {i \in Verified : OnDisk([b |-> PieceContent(i),
                                  offset |-> i * PieceLength])}
Over == IF killed \/ (life = "exited" /\ (~good \/ lost)) THEN "cut"
        ELSE IF life = "exited" THEN "clean" ELSE "no"

\* The program as its user sees it, across all threads, failures of a write and
\* moments of termination: no piece is found good twice, none that is in the file
\* leaves it, and an orderly end in which nothing failed leaves none out.
D == INSTANCE Download WITH verified <- Verified, safe <- Kept, over <- Over
ImplementsDownload == D!DownloadSpec

\* Every byte counted is in exactly one sample, or still to be sampled, however
\* the two additions and the exchange interleave.
SpeedConserves == sampled + session_bytes + adding = bytes_downloaded

\* However the additions of the network thread fall between the readings of the
\* progress thread, what a round draws is not behind the speeds that were shown:
\* neither the bar nor the totals.
ShownCoversSamples ==
  /\ s_thread = "draw" => sampled <= progress
  /\ s_thread = "test" => sampled <= shown

\* The progress never passes the size of the file: no block is asked for, sent
\* and counted twice.
NeverOverTotal == bytes_downloaded <= Length

\* The digests of the torrent can be compared with those that are calculated.
\* They can in the form "hex"; in the form "raw", the one TorrentFile::Load keeps,
\* no comparison succeeds and nothing is ever written.
DigestsMatch == \A i \in Pieces : Sha1Calculate(PieceContent(i)) = PieceHash(i)

\* With one peer that serves, and unless something failed, the user interrupted
\* or the peer left, the whole torrent is received; and if its digests match,
\* every piece goes all the way to the disk thread and is written, no wake-up
\* lost.
EveryPieceHandled ==
  <>(\/ /\ bytes_downloaded = Length
        /\ DigestsMatch => \A i \in Pieces : \E k \in DOMAIN written :
                             written[k].offset = i * PieceLength
     \/ killed \/ life \in {"~Speed", "~Writer", "exited"} \/ pc = "done"
     \/ \E c \in Conns : ~sock[c] /\ c \notin todo)

\* The destructors end the program: both threads stop, whatever they were
\* doing and however much is queued.
ProgramEnds == life = "~Speed" ~> life = "exited" \/ killed

=============================================================================

# NodeLink in TLA+

NodeLink is a BitTorrent client in C++: it parses a torrent file, asks a tracker
for peers, and downloads the file from them on one network thread while a second
thread writes to disk and a third draws the progress. This directory holds the
TLA+ modules that model it, the TLC runs that check them and the proofs about
them. Line numbers refer to `src/`.

## 1. Inventory

### Components

| component | source | state it keeps | operations |
|---|---|---|---|
| **Writer** | `download/Worker.{h,cpp}` (1-48) | queue of jobs `q`, mutex `mx`, condition variable `cv`, `stop_flag`, output stream `out`, thread `t` | constructor, `start`, `add`, destructor; the thread's loop |
| **Downloader** | `download/downloader.{h,cpp}` | `next_req_index`, `downloaded_bytes`, `piece_buffer`, `piece_bytes_received`, `current_piece_index` | `Start`, `OnBlockReceived`, `GetNextPieceToRequest`, `IsComplete` |
| **Connection** | `download/Connection.{h,cpp}` | socket, `state`, `choked`, `peer_pieces`, `current_piece`, `block_offset`, `recv_buffer`, `handshake_done` | `Connect`, `OnReadyRead`, `OnReadyWrite`, `ProcessBuffer`, `RequestNextBlock` |
| **Farm** | `download/Farm.{h,cpp}` | epoll descriptor, vector `connections` | `AddConnection`, `Run` |
| **Transport** | `tracker/transport.{h,cpp}` | socket descriptors | `TcpClient`/`UdpClient` construction, `Send`, `Receive` |
| **Message** | `download/message.{h,cpp}` | none | builders of the wire messages |
| **Speed** | `download/Worker.{h,cpp}` (49-125) | atomic counters, `stop_flag`, thread | constructor, `start`, `add`, destructor; the thread's loop |
| **Client lifecycle** | `test/main.cpp`, `Downloader`'s construction and destruction | none of its own | `main` |
| **Tracker** | `tracker/tracker.{h,cpp}` | none between calls | HTTP and UDP announce |
| **Url** | `tracker/Url.{h,cpp}` | none | parse |
| **Bnode** | `parsing/Bnode.{h,cpp}` | a tree | decode, encode |
| **TorrentFile** | `parsing/TorrentFile.{h,cpp}` | fields of the torrent | `Load` |
| **Sha1**, **Buffer**, **Peer** | `parsing/Sha1.h`, `parsing/buffer.h`, `tracker/Peer.h` | none | digest, byte vector, pair |

### How they interact

```
main -> TorrentFile::Load -> tracker -> Downloader::Start
                                           |
              +----------------------------+---------------------+
              | network thread                                   | disk thread
              |  Farm::Run: epoll_wait -> OnReadyWrite           |
              |                        -> OnReadyRead            |
              |     ProcessBuffer, the switch over the id        |
              |       PIECE -> Downloader::OnBlockReceived --add-> q --> out
              |       UNCHOKE, PIECE -> RequestNextBlock         |
              |            -> Downloader::GetNextPieceToRequest  | progress thread
              |            -> TcpClient::Send --> peer           |  Speed
              +--------------------------------------------------+
```

All connections share one `Downloader`: the counter the pieces come from and the
one buffer a piece is assembled in. The network thread and the disk thread share
`q` and `stop_flag` under `mx`. The peers act concurrently with everything.

### What is hard, and what makes each part correct

* **Writer.** Interleavings of `add`, the unlocked write, spurious wake-ups and
  the destructor. Correct when no job is lost, duplicated or overtaken, no
  wake-up is lost, the destructor returns, and only after the queue is drained.
* **Downloader.** Blocks arrive in an order the peers decide, for pieces that
  may alternate, with bytes that may be wrong. Correct when only whole verified
  pieces reach the disk, at their place, each once; and when every piece that
  arrived intact does reach it.
* **Connection.** A state machine fed in chunks, whose sends can fail between the
  claim of a piece and the request for it. Correct when the requests for a piece
  tile it, and every block not delivered is asked for again.
* **Farm.** One thread for all sockets; a batch of events may refer to a socket a
  handler of the same batch has closed. Correct when every peer is heard, every
  dead one dropped, and the loop ends when it should.
* **The byte stream.** A message, its length or the handshake is split over any
  number of receives. Correct when the handlers see whole messages, in order.
* **Speed, Client.** Three threads, no lock around the counters, destructors that
  join. Correct when no byte is counted twice or forgotten, the program ends, and
  the file holds what was verified, also if the process is terminated.
* **Tracker.** Loss, late and duplicate datagrams, error answers, a timeout, a
  socket on every path. Correct when the call returns, leaves nothing open, and
  gives the peers of the tracker.
* **Bnode, TorrentFile.** `info_hash` is right only if decoding and encoding give
  back the bytes of the file.

`PROJECT.json` lists the hazards one by one, each at its line.

## 2. Modules

```
JobLog <--refines-- Writer <-- MCWriter        Downloader
                      ^                            ^
              Speed   |                        Connection
                ^     |                            ^
                +-----+---- Client -------------> Farm <-- MCFarm
                             ^   \
                      MCClient   refines--> Download

MessageStream <--refines-- Framing <-- MCFraming
Bencode <-- Url <-- TorrentFile <-- MCTorrentFile
             ^
        HttpAnswer --+
Tracker <------------+-- MCTracker

Proofs:
Farm <-- FarmProofs <-- FarmTypeProofs <-- FarmPipelineProofs
                              ^
                        FarmFlightProofs <-- ClientProofs --> Client
                                                  |
Writer <-- WriterProofs <-------------------------+
Tracker <-- TrackerProofs
Framing <-- FramingProofs
```

Definitions whose comment begins with "Faulty variant of" are plausible mistakes
in the code. No specification uses them: each shows that a property can fail.

### JobLog and Writer

`JobLog` is what `Worker.h` promises of the Writer: accepted jobs are stored once
and in order, and the destructor waits for them. `Writer` is the code.

| code | model |
|---|---|
| `q`, `stop_flag`, `out`, the local `Job j` | `q`, `stop_flag`, `good` with `file`, `inhand` |
| `mx` | `mx`: "t" while the disk thread holds it. The regions in which the other thread holds it are single steps, guarded by `mx = "free"` |
| where the lambda of `start()` is | `tpc`: `lock`, `wait` (at the predicate), `waiting` (asleep), `woken`, `drain` (at `while (!q.empty())`), `write` (unlocked), `relock`, `done` |
| where the owner is | `mpc`: `constructed`, `running`, then the destructor: `notify`, `join`, `destroyed` |
| `cv.wait` | `EvalPredicate` lets the lock go and falls asleep in one step; `LockForWait` takes it again; `SpuriousWakeup` |
| `out.seekp; out.write` | `WriteJob`: complete, partial (the stream then fails), or ignored on a failed stream |

`added` and `written` are histories.

### Downloader, Connection, Farm

One specification in three layers; each module adds the variables of its class.
Code that runs without giving up control between two events is one step, except
that `OnReadyRead` is cut after each message (`HandleIn` reads, then
`ProcessMessage` takes `left` messages): an exception in the middle leaves the
rest of the chunk unread, and the peers go on acting in between.

| code | model |
|---|---|
| fields of `Downloader` | variables of the same names |
| `file_writer.add(...)` | `jobs`, the sequence of jobs added |
| `std::move(piece_buffer)` | the buffer is empty afterwards (`MovedFrom`) |
| `Sha1::Calculate`, `torrent.piece_hashes` | digests are pairs of a form and the bytes they are of; `HashForm` is the form `piece_hashes` has |
| `socket` | `sock[c]`: the pointer is not null |
| `GetNextPieceToRequest` in the loop of `RequestNextBlock` | `FirstCandidate`; when there is none the counter runs past the end |
| `TcpClient::Send`, `Receive` | `SendRequest`, `SendThrows`, `SendKills`; `HandleIn` |
| the batch of `epoll_wait` | `events`; any order of the sockets, for one socket writing before reading |
| `Start` before, in and after `Run` | `pc`: "connect", "run", "done" |

External to the code: the peers (`PeerGreet`, `PeerUnchoke`, `PeerChoke`,
`PeerForgets`, `PeerHave`, `PeerServe`, `PeerCloses`) and TCP. `link[c]` is what
TCP knows of the peer's end: "up"; "fin", it has closed; "rst", it has reset the
connection; "dead", it has closed and then answered data with a reset.

Abstractions, and why they keep what the properties speak of:

* A stream is a sequence of whole messages, which is what `Framing` shows the bytes
  to become. Bytes that do not complete a message only lengthen `recv_buffer`.
* A digest does not collide.
* Peers follow the protocol: they send the handshake first, a piece only where
  and as long as it was asked for, and pieces of the torrent only; but the bytes
  of a piece may be wrong, answers may be out of order, they may choke at any
  moment, close or reset. What is said of the pieces (`VerifiedWrites`,
  `CountsDistinctBytes`, `WrittenOnce`) is said of such peers: `OnBlockReceived`
  compares neither the place nor the length of a block with a request.
* A send is never short: the send buffer is far larger than the requests a peer
  can have outstanding.
* EINTR and the timeout of `epoll_wait` lead back to it and change nothing: time is
  not modelled. Other failures end `Run`; `WaitMayFail` says whether there are any.
  They cannot occur with a valid descriptor, so the runs of `Farm` have none and
  only `Client` does, for which it is one more way to end.
* A message with no case in the switch is represented by HAVE.

### MessageStream and Framing

`MessageStream` is what `Connection` assumes of the stream: the messages of the
peer are dealt with one by one, whole and in order, those with a case in the switch
by their handler (`Handle`), the others by nobody (`Ignore`), until the socket is
dropped. `Framing` is the code on bytes: `OnReadyRead` appends what a receive
returned (`Receive`: any number of bytes up to `Chunk`), `ProcessBuffer` is a
step per round of its loop, until `WaitForMore` leaves it.

| code | model |
|---|---|
| `recv_buffer`, `state`, `socket` | `recv_buffer`, `state`, `sock` |
| in the loop of `ProcessBuffer` | `reading` |
| bytes in the kernel or on the way | `stream` after the first `got`; `stream` is all the peer has sent |
| `Message::BuildHandshake`, `BuildInterested`, `BuildRequest`, `PushInt32`, `ReadBE32`, `ReadMessageLength` | operators of the same names |
| `4 + len` in 32 bits | `FrameLen`, modulo `Word` |
| a case of the switch | `Dispatch`, with the call recorded in `handled` |
| the last bytes sent and what they say | `out`, `meant` |

`sent`, `ends` (where in the stream each message ends), `taken` (how many have been
taken out of the buffer) and `handled` are histories.

The peer is external: `PeerBytes` lays out its messages, its handshake among them,
and `PeerReads` reads ours. Both are written from the protocol and use no builder
or reader of the code, so that an error in a layout shows. The width of a byte is a parameter, `Bits`: with 3 bits the numbers
in a message use several of their four bytes while TLC can still enumerate.

### Speed and Client

`Speed` has one step per access to a shared variable: the two additions of `add`,
the test of `stop_flag`, the exchange, and the two readings of
`bytes_downloaded`: `progress` for the bar, `shown` for the totals beside it.
`stop_flag` is an ordinary `bool`; the loop calls functions the compiler cannot see
through (the stream, the sleep), so each round reads it again, and that is what the
model has. What another build might make of the race is outside it.

`Client` puts `Farm`, `Writer` and `Speed` into one life of the program. `W` and
`S` are instances whose variables are `Client`'s; `W!added` is `Farm`'s `jobs`.

| code | model |
|---|---|
| where `main` is | `life`: `main`, `constructed`, `writing`, `drawing`, `run`, `~Speed`, `~Writer`, `exited` |
| `file_writer.add` inside `OnBlockReceived` | `Enqueue`: the step that adds to `jobs` is also `W!add`, and waits for the mutex |
| `s.add` inside `OnBlockReceived` | the step counts one half (`CountHalf`), `CountRest` the other; `adding` lies between |
| exceptions of `Start` | `StartThrows`: the Downloader is destroyed with the threads it has started |
| destruction of the members | `DestroySpeed`, then `DestroyWriter`, whose last step closes the stream (`Close`) |
| SIGPIPE, a signal from the user | `killed`; `Interrupt` |
| the buffer of `std::ofstream` | `disk` is the file as the kernel has it, `file` as the stream has it. `seekp` and closing hand over what is buffered, a write of `DirectWrite` bytes or more goes through |
| the kernel does not take what is handed over | `FlushFails`: some of the last bytes written reach the disk, or none. In `seekp` or a write the stream then fails (`good`); in the destructor no one can see it, and the history `lost` records it |

`Download` is what whoever runs the program is promised, without peers, threads
or bytes: pieces are found good one at a time and each at most once (`Verify`),
those in the file never leave it (`Save` only adds), a program that ends by
itself, in which no write failed and closing the file did not, has all of them in
the file (`Finish`), and otherwise it is cut short (`Cut`, in which a last piece may
still reach the file). `Client` implements it with `verified` the pieces it has
queued, `safe` those whose bytes the kernel has, and `over` from `killed`, `life`,
`good` and `lost`. Two things `Verify` allows look odd and are what the
program does: a piece of zeros is in the file before it is written, if a later
piece left a gap there; and the handler that has verified a piece goes on to send
the next request, which may raise SIGPIPE.

`s.add` is called before the digest is compared and `CountRest` comes after it:
what it touches is only seen by the progress thread, so the order does not show.

### Tracker

One call of `GetPeers`, `pc` naming the call it is at. A datagram is a record with
its action, transaction id, connection id and length; `net` is the set of those
under way, so that they arrive in any order, `Lose` takes one away, and an arrival
may leave a duplicate. `Stale` is the late answer of an earlier exchange. `faulty`
is a history: something failed, was lost, cut or came late; `CleanGivesPeers` is
about calls without it. Six bytes of a datagram that is no announce answer are
`Text`.

For HTTP the answers (`Responses`) are bytes. The one receive gets any beginning of
them, up to `MaxHttp`, and what is read in it is the constant operator `HttpPeers`.
`MCTracker` gives it `PeersInResponse` of `HttpAnswer`, which is the code: the end of
the header is searched, the rest decoded with `Bencode`, the entry looked up and
its bytes taken six by six. It is an operator so that `TrackerProofs` reaches no
recursive definition; of it the proofs use only that a whole answer in the form
asked for is understood, which the run evaluates for the real one.

### Bencode, Url, TorrentFile

Functions on bytes, with the branches of the code. `Bencode` decodes and encodes;
`Throw` is an exception. `Url` has `Url::Parse` and `Tracker::UrlEncode`.
`TorrentFile` has a small machine: a torrent is made from parts by someone else,
its end may be cut off, it is loaded, and `GetPeers` begins with what was loaded.
The maker is external and has a layout of its own (`Written`, `Numeral`,
`KeysWritten`), from the description of the format; it uses neither the program's
encoder nor its numbers. It writes in one of three forms: canonical; with the keys
out of order; with a zero before every number. The keys of the dictionaries
are short ones in the same order, and with the shorter "name" behind the longer
"length", as in the format. SHA-1 returns any of a few digests.

## 3. Runs

What the runs are about depends on the form of the digests. `TorrentFile::Load` keeps
twenty raw bytes (`TorrentFile.cpp:50-52`); `OnBlockReceived` compares them with
hexadecimal digits (`downloader.cpp:86`), so that the program as it is accepts no
piece and writes nothing. This is what `raw_hashes` shows. In all other runs of the
download (`farm`, `farm_choke`, `client`, `never_complete`, `shared_buffer`,
`choked_away`) `HashForm` is "hex": the program with digests that can be compared,
without which nothing behind the comparison would ever be reached. Hence what
`EveryPieceHandled` shows of written pieces, in `client`, is about that program; the
condition, `DigestsMatch`, is in its text. The safety theorems are
proved for both forms.

| run | question | bounds |
|---|---|---|
| `writer` | does the queue keep the promise of `JobLog`, for every interleaving, failure and moment of destruction? How long can the destructor wait? Safety and liveness | 3 calls of `add`; jobs adjacent, and overlapping both |
| `farm` | with two peers that answer with blocks as they were asked for, though perhaps with wrong bytes, and that refuse, close and reset, is only verified data written, once, at its place? Is a socket only read when it is readable, however old the batch is? Is every peer heard and every dead one dropped if only the network thread is scheduled fairly? | 2 peers, one unchoke each, both may die |
| `farm_choke` | do the requests of all connections tile the pieces across choke and unchoke, reordered answers, HAVE, a connection lost? How many are in flight? | 2 peers, two unchokes each |
| `framing` | however the stream is cut, do the handlers see the messages of the peer, and the peer ours? | 3 messages of 8 kinds, receives of 1 to 9 bytes |
| `client` | what is in the file at the exit and when the process is terminated at any moment, whatever write or flush fails; is all that the download `Download` promises; are the counters kept; does every piece go all the way to the disk thread; do the destructors return? | 1 peer that may leave, 2 pieces |
| `tracker` | whatever is lost, late, repeated, cut or refused, does `GetPeers` return (but for an HTTP tracker that keeps the connection open in silence), leave no socket, take an HTTP list whole or not at all, and give the tracker's peers? | 4 peers of which a datagram holds three and a half; 2 transaction and 2 connection ids; 7 HTTP answers, cut at every byte |
| `torrent_file` | are the fields, the hashed bytes and the address what the maker meant, and is a cut file refused? | 1458 torrents, every cut of each |

The torrent of the farm runs and of `client` has 5 bytes: a piece of 3 and one of
2, asked for in blocks of 2, so that there is a whole block, a short last block, a
short last piece, and a piece of one block. Two pieces are enough for the
alternation of pieces in one buffer and for a piece passed over; two connections
for every conflict over the counter or the buffer, since all of these are
between one claim and another. Two unchokes (hence a choke between them) are
enough for a request forgotten and a second request in flight. For the writer,
three jobs put one in the file, one in hand and one in the queue at once.

`framing`: three messages give one in the buffer, one cut and one to come; the
longest is 15 bytes and a receive takes at most 9, so that a message can need two
receives and a receive can hold two messages; the handshake ends anywhere in one.
`client`: one peer, because what is new here is between the threads; what two
peers do to each other is in `farm`. A piece of 3 bytes goes through the buffer of
the stream (`DirectWrite` is 3), the last one, of 2, stays in it. `tracker`: `MaxUdp`
cuts the announce answer in the middle of a peer; the errors are too short for a
connect answer, then as long as an announce answer must at least be, then longer by
a peer. The HTTP answers are the list as asked for, alone, after another entry, and
between two (the last is longer than `MaxHttp`, which cuts it behind the list); a
list of dictionaries; a failure; a text that is no dictionary; and a body in chunks.
The bytes of the peers hold the characters of the format and the end of a header.
`torrent_file`: no, two and a bad number
of digests; digests that hold characters of the format; entries before and after
the known ones, nested; the three forms; with and without port and
path, and a path with a colon.

Bounds: `MaxAdds` (calls of `add`), `MaxUnchokes` (unchoke messages of a peer;
a peer chokes only if it may still unchoke), `MaxSent` (messages of the peer in
`Framing`). Everything else is bounded by the system: requests by the tiling,
pieces sent by requests, HAVE by `PeerGains`, datagrams by the ids there are.

`CHECK_DEADLOCK FALSE` is in every configuration because the systems do stop:
the writer after its destructor, the download when `Run` has returned, when the
process is terminated, or when no connection is in the farm any more; a
connection when its socket is dropped; the tracker and the torrent file when the
call has returned.

Symmetry is not used: the peers differ in what they have.

### Where code and text disagree

Five runs check a sentence of the repository and TLC finds a counterexample.

| run | the text | what the code does |
|---|---|---|
| `never_complete` | `downloader.cpp:39`, `Farm.cpp:40`: the loop ends when the download is finished | `downloaded_bytes` grows by the size of a buffer that has just been moved away (`downloader.cpp:91`), so by 0 |
| `raw_hashes` | `README.md:45`: verified and written | hexadecimal digits are compared with raw bytes (`downloader.cpp:86`); no piece is accepted |
| `shared_buffer` | `README.md:15`: out-of-order packets | a block of another piece resets the one buffer (`downloader.cpp:51`) |
| `choked_away` | `Connection.cpp:244`: repeat until the piece is done | requests dropped by a choking peer are not repeated |
| `tracker_error` | `README.md:31`: the answer is a list of peers | the answer to the announce is not matched with the request (`tracker.cpp:234`): the text of an error becomes peers |

Also true of the code, and in the modules, without a run of their own: a piece
passed over for a peer that lacks it is never offered again (`RequestNextBlock`),
`Run` does not return when all peers are gone (`RunReturns`), a send after the
peer's reset raises SIGPIPE (`SendKills`), and the bytes hashed are those of the
file exactly if these are in the canonical form (`HashesTheFile` says both
directions).

## 4. Fairness

* `Writer`: weak fairness of the disk thread and of the two later steps of the
  destructor. The operating system runs a thread that can run; mutexes are held
  for a bounded time. Neither `add` nor a spurious wake-up is ever owed.
* `Farm`: weak fairness of `Network`, the one network thread, as a whole: which
  of its enabled steps it takes is the model's choice, so fairness between
  connections is not assumed but follows from the batches. A step of the thread
  must not wait for a peer for this to be justified: the sockets are blocking, and
  what makes it true is `ReadableWhenRead`, which is checked and proved.
* `Framing`: weak fairness of `Network`: that a readable socket is read is
  `PeersAreHeard` of `Farm`, and a handler does not stop half way.
* `Client`: weak fairness of the disk thread's own steps (not of spurious
  wake-ups) and of the progress thread; strong fairness of `main` and of the
  network thread, because they may find the mutex taken again and again by a disk
  thread that wakes up spuriously for ever, and a mutex that is free again and
  again is had in the end. The peer serves; nobody has to interrupt.
* `Tracker`: weak fairness of the call: a receive with SO_RCVTIMEO ends by itself.
  Nothing is assumed of trackers and the network. Nothing in the code ends the
  receive of an HTTP answer, so `GetPeersReturns` names the one exception: the
  tracker that has accepted the connection and then neither answers nor closes it.
* The peers of `Farm` owe nothing, except in `CooperativeSpec`, which asks whether
  the download can succeed at all: a peer that is up answers the handshake,
  unchokes and serves.

## 5. Proofs

| theorem | module | says, for all values of the constants |
|---|---|---|
| `WriterInvariant`, `WriterTypes`, `WriterLosesNothing`, `WriterNoLostWakeup`, `WriterDrains`, `WriterKeepsFile` | `WriterProofs` | the safety of the Writer |
| `WriterStopIsNear` | `WriterProofs` | how long the destructor can wait |
| `WriterImplementsJobLog` | `WriterProofs` | the Writer refines `JobLog` |
| `RequestsInvariant`, `BlocksRequestedOnce` | `FarmProofs` | the requests for a piece come from one connection and tile it |
| `FarmInvariant`, `FarmTypes`, `OnlyVerifiedWrites` | `FarmTypeProofs` | type correctness; only verified pieces reach the writer, whatever bytes peers put into the blocks asked for |
| `ReadOnlyReadable` | `FarmTypeProofs` | a socket is only read when something can be received |
| `FlightInvariant`, `CountsEachByteOnce`, `PiecesWrittenOnce` | `FarmFlightProofs` | every block is in one place at a time; the bytes counted for a piece are different ones, so the count is full exactly when all bytes of the piece have been received; its piece is written once |
| `RequestsBoundedByUnchokes` | `FarmPipelineProofs` | the requests in flight never exceed the unchokes |
| `ClientInvariant`, `WriterUsedAsSpecified`, `AddsWithinBound` | `ClientProofs` | the program is a behaviour of `Writer` (the link to its theorems; no run checks it by itself); its invariant |
| `ClientKeepsJobLog` | `ClientProofs` | the program keeps the promise of `JobLog` for the pieces `Farm` queues |
| `DiskHoldsTorrent`, `NothingLostAtExit` | `ClientProofs` | what is in the file at any moment, and at an exit by itself in which no write and not the closing failed |
| `BytesSampledOnce`, `ProgressCoversSpeeds`, `ProgressWithinTotal` | `ClientProofs` | the counters of the progress thread |
| `FarmKeepsPromises` | `ClientProofs` | `RequestsTile`, `WrittenOnce` and `ReadableWhenRead` also hold in the program with its other threads |
| `ClientImplementsDownload` | `ClientProofs` | the program refines `Download` |
| `FramingInvariant`, `FramingKeepsPlace` | `FramingProofs` | `ProcessBuffer` never loses its place in the stream |
| `PeerReadsUs` | `FramingProofs` | the peer reads in our bytes what was meant |
| `FramingImplementsStream` | `FramingProofs` | the handlers see the messages of the peer: `Framing` refines `MessageStream` |
| `TrackerInvariant`, `NoSocketLeaks`, `AnnounceIsAnswerable`, `CleanCallGivesPeers` | `TrackerProofs` | the safety of `GetPeers` |

The assumptions are those of the modules: `WriterConstants`, `TorrentConstants`
(a file cut into pieces of equal length but the last), `ConnsConstant` (any
number of connections), `PeerConstants`, `ClientConstants` (`main` takes at most
five peers), `TrackerConstants` (ids and lengths are numbers, the stale ids
are not those of this call, the list is a sequence, a whole HTTP answer in the
form asked for is understood) and, for bytes,
`FramingConstants` (the lengths of the handshake's parts add up to `HandshakeLen`;
what is said fits the protocol, and no message is so long that its length wraps)
and `ByteAssumption` (a byte has a value for every choice of its bits). The last is
the binary notation: for the 8 bits of the code, or the 3 of the run, a finite fact
that TLC evaluates; for any number of bits an induction. There is no assumption on
the behaviour of peers beyond the modules' definition of them, and no bound:
`MaxAdds`, `MaxUnchokes` and `MaxSent` are any numbers.

Every inductive invariant was given to TLC as an invariant of the run of its
module before it was proved (`FlightInv` with the positions of `Slots` limited to
the longest wire, `CountInv` and `BehindInv` on `client`). `WriterInv`,
`RequestInv` and `DestroyedIsDrained` are in no configuration of their own: the
first two are the theorems that carry the others, the last is part of
`ImplementsJobLog`.

*Writer.* `NothingLost` is not inductive alone: that what is written, in hand
and queued is what was added needs to know who holds the mutex and when there is
a job in hand. `WriterInv` adds `Control`, which says so for each value of `tpc`
and `mpc`, and `NoLostWakeup`. `FileHoldsJobs` is inductive on top of it: a write
changes the file only where it writes, and a job it touches is one of those
`Untouched` excepts; a partial write fails the stream. The refinement maps
`added` to `accepted` and `written` to `stored`: `add` is `Accept`, `WriteJob` is
`Store`, `Join` is `Close`, the rest stutters; that `Join` finds everything
stored is `DestroyedIsDrained`. `StopIsNear` is the part of `DestructorReturns` that
is not fairness: once the flag is up, `StepsLeft` (three steps for each queued job
and those to the end of the loop) never grows and every step of the thread lowers
it. It needs of `Control` that nobody can add any more.

*Requests.* `RequestsTile` speaks of requests already sent; its proof needs the
cursors. `RequestInv` adds `Unclaimed` (no request was sent for a piece the
counter has not reached) and `Claimed` (the piece under a connection's cursor was
asked for by that connection alone, up to the cursor, and is no other
connection's). A new claim takes a piece at or past the counter, so nobody else
has requested it; a block continues where the cursor is; a send that throws has
moved the cursor to the claimed piece but sent nothing, which `Claimed` allows.

*Types and verified writes.* That a block stays inside its piece, from the
request to the buffer, goes around the loop request, peer, wire, buffer, so the
type of `wire` and `reqs` carries it: `FarmInv` is `RequestInv`,
`DownloaderInv` (every job is a verified piece), `WireInv` (messages in transit
lie within their piece; the thread reads only what is there) and `ControlTypes`.
That a job is a piece is then the comparison of digests; that the piece lies
within the file is arithmetic on `TorrentConstants` (`PieceFits`).

*Only what is readable is read.* An event says that a socket was readable when
the batch was made; `ReadableWhenRead` says it still is when its turn comes.
`ReadableInv` adds that the connection being read has no event left, for its
messages may be read to the last one, and that while connections are made there
is no batch. Then a step does to a connection with an event left no more than
send to it, reset it or close it (`StaysReadable`): what one handler does stays
with its own connection (`ProcessElsewhere`), and peers only add to their wire.

*Counted once.* `CountsDistinctBytes` and `WrittenOnce` follow from where a byte
is. `FarmFlightProofs` calls a byte of a piece a *cell* and a position in a
`reqs[c]` or `wire[c]` a *slot*. `Blocks` says that no two slots hold the same
cell and that every cell in a slot has been asked for; `Settled` that the cells
which have landed (`LandedCells`: those in the buffer and those of queued pieces)
are in no slot. A request takes cells never asked for, which is `RequestsTile`;
serving moves them from `reqs` to `wire`, whatever the order; reading takes them
off the wire, hence they are in neither the buffer nor a queued piece; choking,
forgetting and closing only drop slots. Each step is one of two kinds, cells that
move or disappear (`ShrinkMoves`) and one block taken with perhaps one request
made (`Takes`), so the invariant is proved for the kinds and the actions are
shown to be of them. `BufferInv` ties the buffer to the counter; it has the one
state in which the buffer is empty and its piece full, after the move.

*Requests in flight.* `PipelineDepth` is inductive with the types: an unchoke
sent adds one on both sides, serving moves a unit from `reqs` to `wire`, and a
request is only made by a step that has just taken a unit off the wire.

*Client.* A step of the program is a step of `Farm` or the end of the process
(`StepOfFarm`), and a step of `Writer` or none (`StepOfWriter`), so the
invariants of both hold of it; the jobs are pieces (`PieceJobs`), and since none
is written twice there are at most `NumPieces` of them, hence the bound
`MaxAdds` of the instance is never met, and `WriterImplementsJobLog` carries
over. What is added here: `DiskInv`, that what the stream and the kernel hold of
the file is of the torrent and in its place, up to the last short write, and that a
handing over that fails leaves the disk between what it was and what it should have
become (`FlushFailsBetween`);
`SpeedInv`, that the two halves of `add` and the exchange neither lose nor
repeat; and `CountInv`, that there is a set of settled cells as large as
`bytes_downloaded`. `NeverOverTotal` needs the last, because the counter grows
before the digest is known: blocks of a piece that is then refused, or that a
reset throws away, are counted though they land nowhere; but each was asked for
once, and the cells asked for are at most the bytes of the torrent.

*The download.* That a piece in the file stays in it needs `BehindInv`: what the
kernel has is behind the stream, that is, no longer, and where the bytes of the
torrent are on the disk they are in the stream as well (`Keeps(disk, file)`). A
write, whole or short, puts bytes of the torrent in their place and destroys
none (`WriteKeeps`), so the disk after any flush keeps what it held (`FileGrows`).
For the steps: a block that completes its piece is `Verify`, and the piece is a new
one because none is queued twice (`StepVerifies`); the disk thread is `Save`
(`StepSaves`); the last step of `~Writer` is `Finish`, as the queue is drained and
closing flushes, or, if a write or the closing failed, `Cut`, before which part of the
last bytes may still have reached the disk (`CloseKeeps`, `StepEnds`); a signal is
`Cut`.

*Tracker.* `TrackerInv` says for each place of the call what it holds:
the socket, the transaction id and an issued connection id, no result yet.
`Datagram` gives the ids what may be under way, so that an answer that matches
the transaction id of a connect carries an issued id.

*Framing.* `Aligned` is not inductive: that the next four bytes of the buffer are
the length of a message needs to know where the messages lie. `PlaceInv` adds
`StreamInv` (the bytes of each message of the peer are in `stream` between the end
of the one before and its own) and `BufferInv` (what the buffer is before the
handshake has been taken out). When `ProcessBuffer` has four bytes, `NextMessage`
finds the message they begin; its length is what `ReadMessageLength` reads and does
not wrap, and when `Complete` holds the bytes taken out are that message to the
last (`MessageTaken`). `SentIsRead` then has each layout: numbers by quotient and
remainder (`ReadsBack`, from `FourBytes`), bitfields bit by bit (`BitfieldRead`),
so `Dispatch` calls the handler with the message that was sent. The other
direction, `NumberFound` and `RequestRead`, says that a peer takes our bytes for what
was meant. In the refinement `ProcessMessage` is `Handle` or `Ignore`,
`ProcessKeepAlive` is `Ignore`, a send of the peer is `Put`, and what drops the
socket elsewhere is `Drop`.

Checked by TLC only:

* All liveness (`AllHandled`, `EveryPieceHandled`, `GetPeersReturns` and the
  others of section 4): the provers do not reach fairness and ENABLED.
* `Bencode`, `Url` and `TorrentFile`: recursive operators, and statements about
  what they compute for every input, which are inductions over data. So also
  `HttpAllOrNothing` of `Tracker`, which rests on what the decoder does with the
  beginning of an answer.
* The five counterexamples of section 3, which are what the code does.

## 6. Not modelled, and the plan

All components but the drawing, SHA-1 and the manual programs have a module. What
is left out, and why:

* The compression function of SHA-1: arithmetic on words, for which test vectors
  are the right tool. The drawing of the progress and `FormatBytes`: output only.
* The programs in `test/` other than `main.cpp`: they print and assert nothing.
* `UdpClient`, `ReadMessageID`, `BuildKeepAlive`, `BuildChoke`, `BuildUnchoke`,
  `Farm::Run()` without an argument: no caller in the client.
* The address lists that error paths leave allocated, and the second `close` of a
  socket whose `connect` failed: no state that anything reads depends on them.
* Time. A `connect` that blocks for long delays the start.
* Malformed input: peers here follow their protocol except for wrong bytes of a
  piece, silence and closing; trackers except for errors, silence, closing and HTTP
  answers that are cut or in another form (section 3); torrents are consistent (the
  number of digests, the length and the piece length agree), though cut off.
* A second run of the program: the constructor of Writer truncates the file, so it
  starts from nothing.

What may still be proved. The safety properties that the runs check are theorems
but for `HttpAllOrNothing` and those of `TorrentFile`, which are out of the provers'
reach as said in section 5, and so are the refinements. Of the liveness properties, the part that is
not fairness is proved where it is hard: `NoLostWakeup` and `StopIsNear` for the
Writer, `ReadOnlyReadable` for the network thread, `FramingKeepsPlace` for a message
that is still to come. A measure for the download as a whole, in blocks still to be
requested, answered and written, would do the same for `EveryPieceHandled`.

-------------------------------- MODULE Farm --------------------------------
(***************************************************************************)
(* Downloader::Start and class Farm (include/download/Farm.h,              *)
(* source/download/Farm.cpp): the connections are made one after the       *)
(* other, then one thread waits on epoll and calls the handlers of         *)
(* Connection for every socket that is ready.  The peers at the other end  *)
(* are external and run concurrently with that thread.                     *)
(***************************************************************************)
EXTENDS Connection

CONSTANTS
  PeerHas,      \* PeerHas[c]: the pieces the peer announces in its bitfield
  PeerGains,    \* PeerGains[c]: those it gets and announces with HAVE later
  Corrupters,   \* the peers whose blocks may hold wrong bytes
  Closers,      \* those that may refuse, close or reset the connection
  Reorderers,   \* those that answer requests out of order
  WaitMayFail,  \* whether epoll_wait may fail for good
  MaxUnchokes   \* bound on the unchoke messages of one peer

ASSUME PeerConstants ==
  /\ PeerHas \in [Conns -> SUBSET Pieces]
  /\ PeerGains \in [Conns -> SUBSET Pieces]
  /\ Corrupters \subseteq Conns /\ Closers \subseteq Conns
  /\ Reorderers \subseteq Conns
  /\ WaitMayFail \in BOOLEAN /\ MaxUnchokes \in Nat

VARIABLES
  pc,           \* where Start is: adding connections, in Run, returned
  todo,         \* the connections not yet added
  connections,  \* Farm::connections
  events,       \* what is left of the batch epoll_wait returned
  greeted,      \* external: the peer has answered the handshake
  peer_choking, \* external: the peer is choking us
  unchokes,     \* external: the unchoke messages it has sent
  haves         \* external: the pieces it has announced with HAVE

farmVars == <<pc, todo, connections, events>>
envVars == <<greeted, peer_choking, unchokes, haves>>
vars == <<next_req_index, dlVars, connVars, readVars, killed, peerVars,
          asked, farmVars, envVars>>

Init ==
  /\ DownloaderInit /\ ConnectionInit
  /\ pc = "connect" /\ todo = Conns /\ connections = {} /\ events = {}
  /\ greeted = [c \in Conns |-> FALSE]
  /\ peer_choking = [c \in Conns |-> TRUE]
  /\ unchokes = [c \in Conns |-> 0]
  /\ haves = [c \in Conns |-> {}]

-----------------------------------------------------------------------------
(* The network thread. *)

\* Whether a call to the peer or to epoll can succeed, and whether it can fail.
MaySucceed(c) == {TRUE} \cup IF c \in Closers THEN {FALSE} ELSE {}

\* Connection::Connect blocks until TcpClient's constructor has connected, or
\* catches what it throws and leaves the socket null.
Connect(c, ok) ==
  /\ ok \in MaySucceed(c)
  /\ sock' = IF ok THEN [sock EXCEPT ![c] = TRUE] ELSE sock
  /\ state' = [state EXCEPT ![c] = "CONNECTING"]

\* A connection that epoll refuses stays open, outside the farm.
AddConnection(c) ==
  /\ pc = "connect" /\ c \in todo /\ \A d \in todo : c <= d
  /\ todo' = todo \ {c}
  /\ \E ok \in BOOLEAN, added \in MaySucceed(c) :
       /\ Connect(c, ok)
       /\ connections' = connections \cup IF ok /\ added THEN {c} ELSE {}
  /\ UNCHANGED <<next_req_index, dlVars, choked, peer_pieces, current_piece,
                 block_offset, readVars, killed, peerVars, asked, pc, events,
                 envVars>>

EnterRun ==
  /\ pc = "connect" /\ todo = {} /\ pc' = "run"
  /\ UNCHANGED <<next_req_index, dlVars, connVars, readVars, killed, peerVars,
                 asked, todo, connections, events, envVars>>

Idle == pc = "run" /\ events = {} /\ reading = NoConn /\ ~killed

\* Faulty variant of Ready: read from a socket that is only writable.
ReadyForBoth(c) == {<<c, "out">>, <<c, "in">>}

\* EPOLLOUT is level triggered and the send buffer never fills: requests are
\* 17 bytes long.  EPOLLIN tells of data, of the end of the stream, of errors.
Ready(c) ==
  {<<c, "out">>} \cup
  IF wire[c] # <<>> \/ link[c] # "up" THEN {<<c, "in">>} ELSE {}

Registered == {c \in connections : sock[c]}

WaitReturns(S) ==
  /\ Idle /\ connections # {} /\ ~IsComplete
  /\ events' = S /\ events' # {}
  /\ UNCHANGED <<next_req_index, dlVars, connVars, readVars, killed, peerVars,
                 asked, pc, todo, connections, envVars>>

\* Faulty variant of Poll: one event at a time, the same connection first.
PollOne == \E c \in Registered :
             (\A d \in Registered : c <= d) /\ WaitReturns(Ready(c))

\* epoll_wait returns everything that is ready; its timeout and EINTR only
\* lead back to it.  A closed socket is gone from epoll.
Poll == WaitReturns(UNION {Ready(c) : c \in Registered})

\* The loop ends, at its tests or because epoll_wait fails with anything but
\* EINTR, and Start returns, which destroys the connections.
RunReturns ==
  /\ Idle
  /\ WaitMayFail \/ ~(connections # {} /\ ~IsComplete)
  /\ pc' = "done" /\ connections' = {}
  /\ sock' = [c \in Conns |-> FALSE]
  /\ wire' = [c \in Conns |-> <<>>]
  /\ UNCHANGED <<next_req_index, dlVars, state, choked, peer_pieces,
                 current_piece, block_offset, readVars, killed, reqs, link,
                 asked, todo, events, envVars>>

-----------------------------------------------------------------------------
(* One event.  For one socket, writing is handled before reading. *)

\* No connection has had the first half of its event handled only.
BetweenEvents ==
  \A c \in Conns : <<c, "in">> \in events => <<c, "out">> \in events

\* The handshake is the first thing sent: the link cannot be "dead" yet.
HandleOut(c) ==
  /\ reading = NoConn /\ ~killed
  /\ <<c, "out">> \in events /\ BetweenEvents
  /\ events' = events \ {<<c, "out">>}
  /\ \/ /\ ~sock[c] \/ state[c] # "CONNECTING"
        /\ UNCHANGED <<sock, state, killed, link>>
     \/ /\ sock[c] /\ state[c] = "CONNECTING"
        /\ \/ /\ CanSend(c)
              /\ link' \in {[link EXCEPT ![c] = l] : l \in AfterSend(c)}
              /\ state' = [state EXCEPT ![c] = "HANDSHAKING"]
              /\ UNCHANGED <<sock, killed>>
           \/ /\ link[c] = "rst"
              /\ sock' = [sock EXCEPT ![c] = FALSE]
              /\ UNCHANGED <<state, killed, link>>
  /\ wire' = [wire EXCEPT ![c] = IF sock'[c] THEN @ ELSE <<>>]
  /\ UNCHANGED <<next_req_index, dlVars, choked, peer_pieces, current_piece,
                 block_offset, readVars, reqs, asked, pc, todo, connections,
                 envVars>>

\* Faulty variant of ReceiveFails: the handler only returns.
ReturnOnly(c) == UNCHANGED sock

\* Receive returns nothing, or throws.
ReceiveFails(c) == sock' = [sock EXCEPT ![c] = FALSE]

\* OnReadyRead up to ProcessBuffer, whose messages ProcessMessage takes.
HandleIn(c) ==
  /\ reading = NoConn /\ ~killed
  /\ <<c, "in">> \in events /\ <<c, "out">> \notin events
  /\ events' = events \ {<<c, "in">>}
  /\ \/ ~sock[c] /\ UNCHANGED <<sock, readVars>>
     \/ /\ sock[c] /\ wire[c] = <<>>
        /\ ReceiveFails(c)
        /\ UNCHANGED readVars
     \/ /\ sock[c] /\ wire[c] # <<>>
        /\ reading' = c /\ left' \in 1 .. Len(wire[c])
        /\ UNCHANGED sock
  /\ UNCHANGED <<next_req_index, dlVars, state, choked, peer_pieces,
                 current_piece, block_offset, killed, peerVars, asked, pc,
                 todo, connections, envVars>>

Network ==
  \/ EnterRun \/ Poll \/ RunReturns
  \/ \E c \in Conns :
       \/ AddConnection(c) \/ HandleOut(c) \/ HandleIn(c)
       \/ ProcessMessage(c) /\ UNCHANGED <<farmVars, envVars>>

-----------------------------------------------------------------------------
(* External: the peers.  They follow the protocol, except that Corrupters *)
(* may send wrong bytes, at the place and of the length asked for.        *)

PeerUp(c) == sock[c] /\ link[c] = "up" /\ ~killed
PeerSends(c, ms) == wire' = [wire EXCEPT ![c] = @ \o ms]
OnlyPeer ==
  UNCHANGED <<next_req_index, dlVars, connVars, readVars, killed, asked,
              farmVars>>

Owned(c) == PeerHas[c] \cup haves[c]

\* It may not wait for our handshake before it sends its own.
PeerGreet(c) ==
  /\ PeerUp(c) /\ ~greeted[c]
  /\ greeted' = [greeted EXCEPT ![c] = TRUE]
  /\ PeerSends(c, <<[type |-> "handshake"]>> \o
                  IF PeerHas[c] = {} THEN <<>>
                  ELSE <<[type |-> "bitfield", pieces |-> PeerHas[c]]>>)
  /\ OnlyPeer /\ UNCHANGED <<reqs, link, peer_choking, unchokes, haves>>

PeerUnchoke(c) ==
  /\ PeerUp(c) /\ greeted[c] /\ peer_choking[c] /\ unchokes[c] < MaxUnchokes
  /\ peer_choking' = [peer_choking EXCEPT ![c] = FALSE]
  /\ unchokes' = [unchokes EXCEPT ![c] = @ + 1]
  /\ PeerSends(c, <<[type |-> "unchoke"]>>)
  /\ OnlyPeer /\ UNCHANGED <<reqs, link, greeted, haves>>

\* Only while it can still unchoke within the bound.
PeerChoke(c) ==
  /\ PeerUp(c) /\ ~peer_choking[c] /\ unchokes[c] < MaxUnchokes
  /\ peer_choking' = [peer_choking EXCEPT ![c] = TRUE]
  /\ PeerSends(c, <<[type |-> "choke"]>>)
  /\ OnlyPeer /\ UNCHANGED <<reqs, link, greeted, unchokes, haves>>

\* A peer that chokes forgets the requests it has.
PeerForgets(c) ==
  /\ PeerUp(c) /\ peer_choking[c] /\ reqs[c] # <<>>
  /\ reqs' = [reqs EXCEPT ![c] = <<>>]
  /\ OnlyPeer /\ UNCHANGED <<wire, link, envVars>>

PeerHave(c) ==
  /\ PeerUp(c) /\ greeted[c]
  /\ \E i \in PeerGains[c] \ Owned(c) : haves' = [haves EXCEPT ![c] = @ \cup {i}]
  /\ PeerSends(c, <<[type |-> "have"]>>)
  /\ OnlyPeer /\ UNCHANGED <<reqs, link, greeted, peer_choking, unchokes>>

PeerServe(c) ==
  /\ PeerUp(c) /\ ~peer_choking[c]
  /\ \E k \in 1 .. Len(reqs[c]) :
       LET r == reqs[c][k]
           good == Slice(r.index * PieceLength + r.begin, r.len)
       IN
       /\ k = 1 \/ c \in Reorderers
       /\ reqs' = [reqs EXCEPT ![c] =
                     SubSeq(@, 1, k - 1) \o SubSeq(@, k + 1, Len(@))]
       /\ \E data \in {good} \cup
                      IF c \in Corrupters THEN [1 .. r.len -> Byte] ELSE {} :
            PeerSends(c, <<[type |-> "piece", index |-> r.index,
                            begin |-> r.begin, data |-> data]>>)
  /\ OnlyPeer /\ UNCHANGED <<link, envVars>>

PeerCloses(c) ==
  /\ PeerUp(c) /\ c \in Closers
  /\ \E l \in {"fin", "rst"} : link' = [link EXCEPT ![c] = l]
  /\ OnlyPeer /\ UNCHANGED <<wire, reqs, envVars>>

Peer(c) ==
  \/ PeerGreet(c) \/ PeerUnchoke(c) \/ PeerChoke(c) \/ PeerForgets(c)
  \/ PeerHave(c) \/ PeerServe(c) \/ PeerCloses(c)

Next == Network \/ \E c \in Conns : Peer(c)

Spec == Init /\ [][Next]_vars

-----------------------------------------------------------------------------
(* Fairness.  There is one network thread and the kernel runs it.  It does *)
(* not wait inside a handler: a socket is only read when it is readable.   *)
(* Nothing is assumed of the peers, except in CooperativeSpec: one that    *)
(* is up, answers the handshake, unchokes once it chokes, and serves.      *)

FairSpec == Spec /\ WF_vars(Network)

CooperativeSpec ==
  FairSpec /\ \A c \in Conns : WF_vars(PeerGreet(c)) /\ WF_vars(PeerUnchoke(c))
                               /\ WF_vars(PeerServe(c))

-----------------------------------------------------------------------------
(* Safety. *)

DownloaderTypes ==
  /\ downloaded_bytes \in Nat
  /\ piece_buffer \in Seq(Byte) /\ Len(piece_buffer) <= PieceLength
  /\ piece_bytes_received \in Nat
  /\ current_piece_index \in Pieces \cup {NoPiece}
  /\ jobs \in Seq([b : Seq(Byte), offset : Nat])
  /\ fill \subseteq 1 .. PieceLength
  /\ intact \in [Pieces -> SUBSET (1 .. PieceLength)]

RequestTypes ==
  /\ next_req_index \in Nat
  /\ peer_pieces \in [Conns -> SUBSET Pieces]
  /\ current_piece \in [Conns -> Pieces \cup {NoPiece}]
  /\ block_offset \in [Conns -> 0 .. PieceLength]
  /\ asked \in [Pieces -> Seq(Request)]

ReadTypes == reading \in Conns \cup {NoConn} /\ left \in Nat

PeerTypes ==
  /\ wire \in [Conns -> Seq(Message)] /\ reqs \in [Conns -> Seq(PeerRequest)]
  /\ haves \in [Conns -> SUBSET Pieces] /\ unchokes \in [Conns -> Nat]

ControlTypes ==
  /\ sock \in [Conns -> BOOLEAN] /\ choked \in [Conns -> BOOLEAN]
  /\ state \in [Conns -> {"CONNECTING", "HANDSHAKING", "DOWNLOADING"}]
  /\ link \in [Conns -> {"up", "fin", "rst", "dead"}]
  /\ killed \in BOOLEAN /\ pc \in {"connect", "run", "done"}
  /\ todo \subseteq Conns /\ connections \subseteq Conns
  /\ events \subseteq Conns \X {"in", "out"}
  /\ greeted \in [Conns -> BOOLEAN] /\ peer_choking \in [Conns -> BOOLEAN]

\* The type of every variable of the network thread and of the peers.
TypeOK ==
  DownloaderTypes /\ RequestTypes /\ ReadTypes /\ PeerTypes /\ ControlTypes

\* What is given to the writer is a piece of the torrent, whole, at the place
\* of that piece, whatever bytes are in the blocks and in whatever order the
\* connections deliver them.  A block is at the place and of the length that was
\* asked for: the peers of this module send no other.
VerifiedWrites ==
  \A k \in DOMAIN jobs : \E i \in Pieces :
    jobs[k] = [b |-> PieceContent(i), offset |-> i * PieceLength]

\* No piece is given to the writer twice.
WrittenOnce ==
  \A k, l \in DOMAIN jobs : jobs[k].offset = jobs[l].offset => k = l

\* The end of the last request in a sequence of requests.
EndOf(rs) == IF Len(rs) = 0 THEN 0 ELSE rs[Len(rs)].begin + rs[Len(rs)].len

\* One connection sends all requests for a piece, and they tile the piece from
\* its start: no block is asked for twice, none is passed over, and none
\* reaches past the end.
RequestsTile ==
  \A i \in Pieces : \A k \in DOMAIN asked[i] :
    LET r == asked[i][k] IN
    /\ r.conn = asked[i][1].conn
    /\ r.begin = EndOf(SubSeq(asked[i], 1, k - 1))
    /\ r.len > 0 /\ r.begin + r.len <= PieceLen(i)

\* Pieces not handed out have not been asked for.
Unclaimed == \A i \in Pieces : i >= next_req_index => asked[i] = <<>>

\* The piece a connection works on is its own, and its next block starts where
\* its last request ended.
Claimed ==
  \A c \in Conns :
    LET i == current_piece[c] IN
    i # NoPiece =>
      /\ i < next_req_index
      /\ \A k \in DOMAIN asked[i] : asked[i][k].conn = c
      /\ block_offset[c] = EndOf(asked[i]) /\ block_offset[c] < PieceLen(i)
      /\ \A d \in Conns : current_piece[d] = i => d = c

\* Why the requests tile: the counter, the connections' cursors and what was
\* asked agree after every step.
RequestInv == RequestTypes /\ Unclaimed /\ Claimed /\ RequestsTile

\* The counter that decides when a piece is complete counts each byte of the
\* buffer once, across all the resets of the shared buffer.
CountsDistinctBytes == piece_bytes_received = Cardinality(fill)

\* The network thread never waits for one peer while the others go on: when it
\* comes to read a socket there is something to receive, or the end of the
\* stream, however old the batch is and whatever its handlers did before.
ReadableWhenRead ==
  \A c \in Conns : <<c, "in">> \in events /\ sock[c] =>
                    wire[c] # <<>> \/ link[c] # "up"

\* Every unchoke is worth one request in flight: a request is only sent on an
\* unchoke or on a block, so the requests a peer has, the blocks it has sent and
\* the unchokes that are not read yet are never more than its unchokes.
PipelineDepth ==
  \A c \in Conns :
    Len(reqs[c])
    + Cardinality({k \in DOMAIN wire[c] : wire[c][k].type \in {"piece", "unchoke"}})
    <= unchokes[c]

Queued(i) == \E k \in DOMAIN jobs : jobs[k].offset = i * PieceLength

\* A piece whose bytes have all arrived as they are in the torrent has been
\* given to the writer.
IntactPieceQueued ==
  \A i \in Pieces : intact[i] = 1 .. PieceLen(i) => Queued(i)

\* When every piece has been given to the writer, Run is told to stop.
AllQueuedIsComplete == (\A i \in Pieces : Queued(i)) => IsComplete

-----------------------------------------------------------------------------
(* Liveness. *)

\* What a peer in the farm has sent is read, or its connection dropped, however
\* busy the other peers are.
PeersAreHeard ==
  \A c \in Conns :
    wire[c] # <<>> /\ c \in connections ~> wire[c] = <<>> \/ killed

\* The end of a peer in the farm is noticed and its socket closed.
DeadPeersAreDropped ==
  \A c \in Conns :
    link[c] # "up" /\ c \in connections ~> ~sock[c] \/ killed

\* Every piece reaches the writer.
EveryPieceQueued == <>(\A i \in Pieces : Queued(i))

=============================================================================

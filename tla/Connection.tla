----------------------------- MODULE Connection -----------------------------
(***************************************************************************)
(* class Connection (include/download/Connection.h,                        *)
(* source/download/Connection.cpp) with the TcpClient under it: the state  *)
(* machine of one peer connection and the block it asks for next.  Each    *)
(* handler is an action on the connection c and on the shared Downloader.  *)
(*                                                                         *)
(* The TCP stream is seen as the sequence of whole messages in it, which   *)
(* is what module Framing makes of its bytes: a readable socket whose      *)
(* bytes do not complete a message changes only the length of recv_buffer. *)
(***************************************************************************)
EXTENDS Downloader

CONSTANT Conns           \* the connections, numbered in peer-list order

ASSUME ConnsConstant == Conns \subseteq Nat \ {0}

VARIABLES
  sock,           \* sock[c]: the socket pointer is not null
  state,          \* CONNECTING, HANDSHAKING or DOWNLOADING
  choked,         \* bool choked
  peer_pieces,    \* the pieces whose bit is set in peer_pieces
  current_piece,  \* the piece being requested, -1 if none
  block_offset,   \* where its next block starts
  reading,        \* the connection in OnReadyRead, NoConn if none
  left,           \* whole messages left in the chunk it has received
  killed,         \* the process was terminated by a signal
  wire,           \* external: wire[c], messages the peer sent, not yet read
  reqs,           \* external: requests the peer has and has not answered
  link,           \* external: what TCP knows of the peer's end
  asked           \* history: asked[i], the requests sent for piece i

connVars == <<sock, state, choked, peer_pieces, current_piece, block_offset>>
readVars == <<reading, left>>
peerVars == <<wire, reqs, link>>

NoConn == 0
NoPiece == -1

\* Requests and blocks that lie within their piece.
Request == [conn : Conns, begin : Nat, len : Nat]
PeerRequest ==
  {r \in [index : Pieces, begin : Nat, len : Nat] :
     r.begin + r.len <= PieceLen(r.index)}
PieceMsg ==
  {m \in [type : {"piece"}, index : Pieces, begin : Nat, data : Seq(Byte)] :
     m.begin + Len(m.data) <= PieceLen(m.index)}
Message == [type : {"handshake", "unchoke", "choke", "have"}]
           \cup [type : {"bitfield"}, pieces : SUBSET Pieces]
           \cup PieceMsg

ConnectionInit ==
  /\ sock = [c \in Conns |-> FALSE]
  /\ state = [c \in Conns |-> "CONNECTING"]
  /\ choked = [c \in Conns |-> TRUE]
  /\ peer_pieces = [c \in Conns |-> {}]
  /\ current_piece = [c \in Conns |-> NoPiece]
  /\ block_offset = [c \in Conns |-> 0]
  /\ reading = NoConn /\ left = 0 /\ killed = FALSE
  /\ wire = [c \in Conns |-> <<>>]
  /\ reqs = [c \in Conns |-> <<>>]
  /\ link = [c \in Conns |-> "up"]
  /\ asked = [i \in Pieces |-> <<>>]

-----------------------------------------------------------------------------
(* TcpClient::Send: send() with no flags on a blocking socket.             *)
(*   "up"    the peer is there: the data goes out;                         *)
(*   "fin"   it has closed: the data goes out and is answered by a reset;  *)
(*   "rst"   it has reset the connection: send fails, Send throws;         *)
(*   "dead"  closed and then reset: send raises SIGPIPE, which nothing in  *)
(*           the program handles or masks.                                 *)

CanSend(c) == link[c] \in {"up", "fin"}
AfterSend(c) == IF link[c] = "fin" THEN {"fin", "dead"} ELSE {link[c]}

\* The exception leaves the handler; OnReadyRead and OnReadyWrite drop the
\* socket.  What was received and not yet parsed is never looked at again.
SendThrows(c) ==
  /\ link[c] = "rst"
  /\ sock' = [sock EXCEPT ![c] = FALSE]
  /\ reading' = NoConn /\ left' = 0
  /\ UNCHANGED <<reqs, link, killed, asked>>

SendKills(c) ==
  /\ link[c] = "dead"
  /\ killed' = TRUE
  /\ UNCHANGED <<sock, reading, left, reqs, link, asked>>

\* The message is done; ProcessBuffer goes on with the next one.
NextMessage(c) ==
  /\ left' = left - 1
  /\ reading' = IF left = 1 THEN NoConn ELSE c

-----------------------------------------------------------------------------
(* RequestNextBlock, called with the value of choked it sees. *)

\* The pieces GetNextPieceToRequest would still hand out and c could take.
Candidates(c) == {i \in peer_pieces[c] : i >= next_req_index}
FirstCandidate(c) == {i \in Candidates(c) : \A j \in Candidates(c) : i <= j}

\* Faulty variant of RequestLen: the last block of a piece is not cut.
FullBlock(i, off) == BlockLen

RequestLen(i, off) ==
  IF off + BlockLen > PieceLen(i) THEN PieceLen(i) - off ELSE BlockLen

\* The request for the block of piece i at off, and what the sender keeps.
SendRequest(c, i, off) ==
  LET len == RequestLen(i, off) IN
  \/ /\ CanSend(c)
     /\ link' \in {[link EXCEPT ![c] = l] : l \in AfterSend(c)}
     /\ reqs' = [reqs EXCEPT ![c] =
                   Append(@, [index |-> i, begin |-> off, len |-> len])]
     /\ asked' = [asked EXCEPT ![i] =
                   Append(@, [conn |-> c, begin |-> off, len |-> len])]
     /\ block_offset' = [block_offset EXCEPT ![c] = off + len]
     /\ current_piece' = [current_piece EXCEPT ![c] =
                            IF off + len >= PieceLen(i) THEN NoPiece ELSE i]
     /\ NextMessage(c)
     /\ UNCHANGED <<sock, killed>>
  \/ /\ SendThrows(c) \/ SendKills(c)
     /\ block_offset' = [block_offset EXCEPT ![c] = off]
     /\ current_piece' = [current_piece EXCEPT ![c] = i]

NothingRequested ==
  UNCHANGED <<sock, current_piece, block_offset, reqs, link, killed, asked>>

\* Faulty variant of RequestNextBlock: the counter is read, not incremented.
RequestWithoutClaim(c, ch) ==
  \/ ch /\ NothingRequested /\ NextMessage(c) /\ UNCHANGED next_req_index
  \/ /\ ~ch /\ current_piece[c] # NoPiece
     /\ SendRequest(c, current_piece[c], block_offset[c])
     /\ UNCHANGED next_req_index
  \/ /\ ~ch /\ current_piece[c] = NoPiece
     /\ \E i \in FirstCandidate(c) : /\ SendRequest(c, i, 0)
                                   /\ next_req_index' = i
  \/ /\ ~ch /\ current_piece[c] = NoPiece /\ Candidates(c) = {}
     /\ NothingRequested /\ NextMessage(c)
     /\ UNCHANGED next_req_index

\* The loop over GetNextPieceToRequest takes the first piece the peer has;
\* those it passes over are gone for everybody.  If there is none it runs
\* through the rest of the torrent until it is handed -1 (it cannot miss more
\* than NumPieces times first, so the attempts limit never ends it).
RequestNextBlock(c, ch) ==
  \/ ch /\ NothingRequested /\ NextMessage(c) /\ UNCHANGED next_req_index
  \/ /\ ~ch /\ current_piece[c] # NoPiece
     /\ SendRequest(c, current_piece[c], block_offset[c])
     /\ UNCHANGED next_req_index
  \/ /\ ~ch /\ current_piece[c] = NoPiece
     /\ \E i \in FirstCandidate(c) : /\ SendRequest(c, i, 0)
                                   /\ next_req_index' = i + 1
  \/ /\ ~ch /\ current_piece[c] = NoPiece /\ Candidates(c) = {}
     /\ next_req_index' =
          (IF next_req_index < NumPieces THEN NumPieces ELSE next_req_index)
          + 1
     /\ NothingRequested /\ NextMessage(c)

-----------------------------------------------------------------------------
(* ProcessBuffer, one message at a time. *)

\* Closing the socket discards what it has not delivered.
TakeMessage(c) ==
  wire' = [wire EXCEPT ![c] = IF sock'[c] THEN Tail(@) ELSE <<>>]

\* In state HANDSHAKING the first 68 bytes are dropped unread.
\* handshake_done is set with the state and is not kept apart from it.
ProcessHandshake(c) ==
  /\ state[c] = "HANDSHAKING"
  /\ state' = [state EXCEPT ![c] = "DOWNLOADING"]
  /\ \/ /\ CanSend(c)
        /\ link' \in {[link EXCEPT ![c] = l] : l \in AfterSend(c)}
        /\ NextMessage(c)
        /\ UNCHANGED <<sock, reqs, killed, asked>>
     \/ SendThrows(c)
     \/ SendKills(c)
  /\ UNCHANGED <<choked, peer_pieces, current_piece, block_offset,
                 next_req_index, dlVars>>

ProcessUnchoke(c) ==
  /\ choked' = [choked EXCEPT ![c] = FALSE]
  /\ RequestNextBlock(c, FALSE)
  /\ UNCHANGED <<state, peer_pieces, dlVars>>

ProcessChoke(c) ==
  /\ choked' = [choked EXCEPT ![c] = TRUE]
  /\ NothingRequested /\ NextMessage(c)
  /\ UNCHANGED <<state, peer_pieces, next_req_index, dlVars>>

\* resize() keeps the bits already set; bits past the last piece are ignored.
ProcessBitfield(c, m) ==
  /\ peer_pieces' = [peer_pieces EXCEPT ![c] = @ \cup (m.pieces \cap Pieces)]
  /\ NothingRequested /\ NextMessage(c)
  /\ UNCHANGED <<state, choked, next_req_index, dlVars>>

ProcessPiece(c, m) ==
  /\ OnBlockReceived(m.index, m.begin, m.data)
  /\ RequestNextBlock(c, choked[c])
  /\ UNCHANGED <<state, choked, peer_pieces>>

\* Faulty variant of ProcessOther: HAVE is answered like UNCHOKE.
RequestOnHave(c) ==
  /\ RequestNextBlock(c, choked[c])
  /\ UNCHANGED <<state, choked, peer_pieces, dlVars>>

\* No case of the switch: HAVE and every other id are dropped.
ProcessOther(c) ==
  /\ NothingRequested /\ NextMessage(c)
  /\ UNCHANGED <<state, choked, peer_pieces, next_req_index, dlVars>>

ProcessMessage(c) ==
  /\ reading = c /\ ~killed
  /\ LET m == Head(wire[c]) IN
       \/ ProcessHandshake(c)
       \/ /\ state[c] # "HANDSHAKING"
          /\ \/ m.type = "unchoke" /\ ProcessUnchoke(c)
             \/ m.type = "choke" /\ ProcessChoke(c)
             \/ m.type = "bitfield" /\ ProcessBitfield(c, m)
             \/ m.type = "piece" /\ ProcessPiece(c, m)
             \/ m.type \in {"handshake", "have"} /\ ProcessOther(c)
  /\ TakeMessage(c)

=============================================================================

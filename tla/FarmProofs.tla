----------------------------- MODULE FarmProofs -----------------------------
(***************************************************************************)
(* Proofs about the requests and the writes of the module Farm, for any    *)
(* torrent, any number of connections and any peers.                       *)
(***************************************************************************)
EXTENDS Farm, TLAPS

requestVars ==
  <<next_req_index, peer_pieces, current_piece, block_offset, asked>>

\* A piece has at least one byte and at most piece_length.
LEMMA PieceLenType ==
  \A i \in Pieces : PieceLen(i) \in 1 .. PieceLength
<1>1. PieceLength \in Nat \ {0} /\ Length \in Nat \ {0}
  BY TorrentConstants
<1>2. Length % PieceLength \in 0 .. PieceLength - 1
  BY <1>1
<1> QED BY <1>1, <1>2 DEF PieceLen

\* The initial state of the requests.
LEMMA RequestInit == Init => RequestInv
<1> SUFFICES ASSUME Init PROVE RequestInv
  OBVIOUS
<1> USE DEF Init, DownloaderInit, ConnectionInit
<1>1. <<>> \in Seq(Request)
  OBVIOUS
<1>2. 0 \in 0 .. PieceLength
  BY TorrentConstants
<1>3. RequestTypes
  BY <1>1, <1>2 DEF RequestTypes
<1>4. Unclaimed /\ Claimed
  BY DEF Unclaimed, Claimed, NoPiece
<1>5. RequestsTile
  BY DEF RequestsTile
<1> QED BY <1>3, <1>4, <1>5 DEF RequestInv

\* A step that touches none of these variables keeps the invariant.
LEMMA RequestFrame ==
  ASSUME RequestInv, UNCHANGED requestVars
  PROVE  RequestInv'
BY DEF requestVars, RequestInv, RequestTypes, Unclaimed, Claimed, RequestsTile,
       EndOf, Pieces, PieceLen

\* Appending a request that starts where the last one ended.
LEMMA TileAppend ==
  ASSUME NEW rs \in Seq(Request), NEW r \in Request, r.begin = EndOf(rs)
  PROVE  /\ Append(rs, r) \in Seq(Request)
         /\ EndOf(Append(rs, r)) = r.begin + r.len
         /\ DOMAIN Append(rs, r) = 1 .. Len(rs) + 1
         /\ \A k \in DOMAIN rs :
              /\ Append(rs, r)[k] = rs[k]
              /\ SubSeq(Append(rs, r), 1, k - 1) = SubSeq(rs, 1, k - 1)
         /\ Append(rs, r)[Len(rs) + 1] = r
         /\ SubSeq(Append(rs, r), 1, Len(rs)) = rs
<1> DEFINE s == Append(rs, r)
<1>1. s \in Seq(Request) /\ Len(s) = Len(rs) + 1
  OBVIOUS
<1>2. s[Len(rs) + 1] = r /\ \A k \in 1 .. Len(rs) : s[k] = rs[k]
  OBVIOUS
<1>3. DOMAIN s = 1 .. Len(rs) + 1 /\ DOMAIN rs = 1 .. Len(rs)
  BY <1>1
<1>5. EndOf(s) = r.begin + r.len
  BY <1>1, <1>2 DEF EndOf
<1>6. \A k \in 1 .. Len(rs) : SubSeq(s, 1, k - 1) = SubSeq(rs, 1, k - 1)
  BY <1>1, <1>2
<1>7. SubSeq(s, 1, Len(rs)) = rs
  BY <1>1, <1>2
<1> QED BY <1>1, <1>2, <1>3, <1>5, <1>6, <1>7

\* Sending the request for the next block of a piece that c owns keeps the
\* invariant, whether the send succeeds, throws or kills the process.
LEMMA SendKeeps ==
  ASSUME RequestInv, NEW c \in Conns, NEW i \in Pieces, NEW off \in Nat,
         off = EndOf(asked[i]), off < PieceLen(i),
         \A k \in DOMAIN asked[i] : asked[i][k].conn = c,
         \A d \in Conns : current_piece[d] = i => d = c,
         next_req_index' \in Nat, i < next_req_index',
         next_req_index <= next_req_index',
         UNCHANGED peer_pieces, SendRequest(c, i, off)
  PROVE  RequestInv'
<1> DEFINE len == RequestLen(i, off)
           r == [conn |-> c, begin |-> off, len |-> len]
<1>1. PieceLen(i) \in 1 .. PieceLength /\ PieceLength \in Nat
  BY PieceLenType, TorrentConstants
<1>2. len \in Nat \ {0} /\ off + len <= PieceLen(i)
  BY <1>1, TorrentConstants DEF RequestLen
<1>3. r \in Request
  BY <1>2 DEF Request
<1>4. /\ asked \in [Pieces -> Seq(Request)] /\ asked[i] \in Seq(Request)
      /\ current_piece \in [Conns -> Pieces \cup {NoPiece}]
      /\ block_offset \in [Conns -> 0 .. PieceLength]
      /\ next_req_index \in Nat
  BY DEF RequestInv, RequestTypes
<1>5. i # NoPiece /\ NoPiece \notin Pieces /\ Pieces \subseteq Nat
  BY DEF Pieces, NoPiece
<1>6. CASE /\ asked' = [asked EXCEPT ![i] = Append(@, r)]
           /\ block_offset' = [block_offset EXCEPT ![c] = off + len]
           /\ current_piece' = [current_piece EXCEPT ![c] =
                                  IF off + len >= PieceLen(i)
                                  THEN NoPiece ELSE i]
  <2>1. /\ asked'[i] = Append(asked[i], r)
        /\ \A j \in Pieces : j # i => asked'[j] = asked[j]
    BY <1>4, <1>6
  <2>2. /\ Append(asked[i], r) \in Seq(Request)
        /\ EndOf(asked'[i]) = off + len
        /\ DOMAIN asked'[i] = 1 .. Len(asked[i]) + 1
        /\ \A k \in DOMAIN asked[i] :
             /\ asked'[i][k] = asked[i][k]
             /\ SubSeq(asked'[i], 1, k - 1) = SubSeq(asked[i], 1, k - 1)
        /\ asked'[i][Len(asked[i]) + 1] = r
        /\ SubSeq(asked'[i], 1, Len(asked[i])) = asked[i]
        /\ Len(asked[i]) \in Nat /\ DOMAIN asked[i] = 1 .. Len(asked[i])
    BY <1>3, <1>4, <2>1, TileAppend
  <2>own. \A k \in DOMAIN asked'[i] : asked'[i][k].conn = c
    <3> SUFFICES ASSUME NEW k \in DOMAIN asked'[i]
                 PROVE  asked'[i][k].conn = c
      OBVIOUS
    <3>1. CASE k \in DOMAIN asked[i]
      <4>1. asked[i][k].conn = c
        BY <3>1
      <4>2. asked'[i][k] = asked[i][k]
        BY <2>2, <3>1
      <4> QED BY <4>1, <4>2
    <3>2. CASE k = Len(asked[i]) + 1
      <4>1. asked'[i][k] = r
        BY <2>2, <3>2
      <4> QED BY <4>1
    <3>3. k \in DOMAIN asked[i] \/ k = Len(asked[i]) + 1
      BY <2>2
    <3> QED BY <3>1, <3>2, <3>3
  <2>3. RequestTypes'
    <3>1. asked' \in [Pieces -> Seq(Request)]
      BY <1>4, <1>6, <2>2
    <3>2. block_offset' \in [Conns -> 0 .. PieceLength]
      BY <1>1, <1>2, <1>4, <1>6
    <3>3. current_piece' \in [Conns -> Pieces \cup {NoPiece}]
      BY <1>4, <1>6
    <3> QED BY <3>1, <3>2, <3>3 DEF RequestTypes, RequestInv
  <2>4. Unclaimed'
    <3> SUFFICES ASSUME NEW j \in Pieces, j >= next_req_index'
                 PROVE  asked'[j] = <<>>
      BY DEF Unclaimed, Pieces
    <3>1. j # i /\ j >= next_req_index
      BY <1>4, <1>5
    <3> QED BY <2>1, <3>1 DEF Unclaimed, RequestInv
  <2>5. Claimed'
    <3> SUFFICES ASSUME NEW d \in Conns, current_piece'[d] # NoPiece
                 PROVE  LET j == current_piece'[d] IN
                        /\ j < next_req_index'
                        /\ \A k \in DOMAIN asked'[j] : asked'[j][k].conn = d
                        /\ block_offset'[d] = EndOf(asked'[j])
                        /\ block_offset'[d] < PieceLen(j)
                        /\ \A e \in Conns : current_piece'[e] = j => e = d
      BY DEF Claimed, EndOf, PieceLen
    <3>1. CASE d = c
      <4>1. current_piece'[d] = i /\ off + len < PieceLen(i)
        BY <1>1, <1>2, <1>4, <1>6, <3>1
      <4>3. block_offset'[d] = off + len
        BY <1>4, <1>6, <3>1
      <4>4. \A e \in Conns : current_piece'[e] = i => e = c
        BY <1>4, <1>6
      <4> QED BY <2>2, <2>own, <3>1, <4>1, <4>3, <4>4
    <3>2. CASE d # c
      <4>1. current_piece'[d] = current_piece[d]
            /\ block_offset'[d] = block_offset[d]
        BY <1>4, <1>6, <3>2
      <4>2. current_piece[d] \in Pieces /\ current_piece[d] # i
        BY <1>4, <3>2, <4>1
      <4>3. asked'[current_piece[d]] = asked[current_piece[d]]
        BY <2>1, <4>2
      <4>4. \A e \in Conns : current_piece'[e] = current_piece[d] => e = d
        <5> SUFFICES ASSUME NEW e \in Conns,
                            current_piece'[e] = current_piece[d]
                     PROVE  e = d
          OBVIOUS
        <5>1. e # c
          BY <1>4, <1>5, <1>6, <4>2
        <5> QED BY <1>4, <1>5, <1>6, <4>2, <5>1 DEF RequestInv, Claimed
      <4>5. /\ current_piece[d] < next_req_index
            /\ \A k \in DOMAIN asked[current_piece[d]] :
                 asked[current_piece[d]][k].conn = d
            /\ block_offset[d] = EndOf(asked[current_piece[d]])
            /\ block_offset[d] < PieceLen(current_piece[d])
        BY <4>2, <1>5 DEF RequestInv, Claimed
      <4> QED BY <1>4, <1>5, <4>1, <4>2, <4>3, <4>4, <4>5
    <3> QED BY <3>1, <3>2
  <2>6. RequestsTile'
    <3> SUFFICES ASSUME NEW j \in Pieces, NEW k \in DOMAIN asked'[j]
                 PROVE  /\ asked'[j][k].conn = asked'[j][1].conn
                        /\ asked'[j][k].begin = EndOf(SubSeq(asked'[j], 1, k - 1))
                        /\ asked'[j][k].len > 0
                        /\ asked'[j][k].begin + asked'[j][k].len <= PieceLen(j)
      BY DEF RequestsTile, Pieces, EndOf, PieceLen
    <3>1. CASE j # i
      BY <2>1, <3>1 DEF RequestInv, RequestsTile
    <3>2. CASE j = i /\ k \in DOMAIN asked[i]
      <4>1. 1 \in DOMAIN asked[i]
        BY <2>2, <3>2
      <4> QED BY <2>2, <3>2, <4>1 DEF RequestInv, RequestsTile
    <3>3. CASE j = i /\ k = Len(asked[i]) + 1
      <4>1. SubSeq(asked'[i], 1, k - 1) = asked[i]
        BY <2>2, <3>3
      <4>2. 1 \in DOMAIN asked'[i] /\ asked'[i][k] = r
        BY <2>2, <3>3
      <4>3. asked'[i][1].conn = c
        BY <2>own, <4>2
      <4>4. r.conn = c /\ r.begin = off /\ r.len = len
        OBVIOUS
      <4>5. asked'[i][k].begin = EndOf(SubSeq(asked'[i], 1, k - 1))
        BY <4>1, <4>2, <4>4
      <4>6. /\ asked'[i][k].len > 0
            /\ asked'[i][k].begin + asked'[i][k].len <= PieceLen(i)
        BY <1>2, <4>2, <4>4
      <4>7. asked'[i][k].conn = asked'[i][1].conn
        BY <4>2, <4>3, <4>4
      <4> HIDE DEF len, r
      <4> QED BY <3>3, <4>5, <4>6, <4>7
    <3> QED BY <2>2, <3>1, <3>2, <3>3
  <2> QED BY <2>3, <2>4, <2>5, <2>6 DEF RequestInv
<1>7. CASE /\ UNCHANGED asked
           /\ block_offset' = [block_offset EXCEPT ![c] = off]
           /\ current_piece' = [current_piece EXCEPT ![c] = i]
  <2>1. RequestTypes'
    <3>1. off \in 0 .. PieceLength
      BY <1>1
    <3> QED BY <1>4, <1>7, <3>1 DEF RequestTypes, RequestInv
  <2>2. Unclaimed'
    BY <1>4, <1>5, <1>7 DEF Unclaimed, RequestInv, Pieces
  <2>3. Claimed'
    <3> SUFFICES ASSUME NEW d \in Conns, current_piece'[d] # NoPiece
                 PROVE  LET j == current_piece'[d] IN
                        /\ j < next_req_index'
                        /\ \A k \in DOMAIN asked[j] : asked[j][k].conn = d
                        /\ block_offset'[d] = EndOf(asked[j])
                        /\ block_offset'[d] < PieceLen(j)
                        /\ \A e \in Conns : current_piece'[e] = j => e = d
      BY <1>7 DEF Claimed, EndOf, PieceLen
    <3>1. CASE d = c
      BY <1>4, <1>7, <3>1
    <3>2. CASE d # c
      <4>1. current_piece'[d] = current_piece[d]
            /\ block_offset'[d] = block_offset[d]
        BY <1>4, <1>7, <3>2
      <4>2. current_piece[d] \in Pieces /\ current_piece[d] # i
        BY <1>4, <3>2, <4>1
      <4>3. /\ current_piece[d] < next_req_index
            /\ \A k \in DOMAIN asked[current_piece[d]] :
                 asked[current_piece[d]][k].conn = d
            /\ block_offset[d] = EndOf(asked[current_piece[d]])
            /\ block_offset[d] < PieceLen(current_piece[d])
            /\ \A e \in Conns : current_piece[e] = current_piece[d] => e = d
        BY <4>2, <1>5 DEF RequestInv, Claimed
      <4>4. \A e \in Conns : current_piece'[e] = current_piece[d] => e = d
        BY <1>4, <1>7, <4>2, <4>3
      <4> QED BY <1>4, <1>5, <4>1, <4>2, <4>3, <4>4
    <3> QED BY <3>1, <3>2
  <2>4. RequestsTile'
    BY <1>7 DEF RequestInv, RequestsTile, Pieces, EndOf, PieceLen
  <2> QED BY <2>1, <2>2, <2>3, <2>4 DEF RequestInv
<1> QED BY <1>6, <1>7 DEF SendRequest, SendThrows, SendKills

\* RequestNextBlock keeps the invariant: it goes on with its own piece, takes
\* one that nobody has, or only moves the counter.
LEMMA RequestNextKeeps ==
  ASSUME RequestInv, NEW c \in Conns, NEW ch, UNCHANGED peer_pieces,
         RequestNextBlock(c, ch)
  PROVE  RequestInv'
<1>1. /\ next_req_index \in Nat /\ current_piece[c] \in Pieces \cup {NoPiece}
      /\ peer_pieces[c] \subseteq Pieces
      /\ block_offset[c] \in 0 .. PieceLength
      /\ NumPieces \in Nat /\ PieceLength \in Nat
  BY TorrentConstants DEF RequestInv, RequestTypes
<1>2. NoPiece \notin Pieces /\ Pieces \subseteq Nat
  BY DEF Pieces, NoPiece
<1>3. CASE UNCHANGED next_req_index /\ NothingRequested
  BY <1>3, RequestFrame DEF NothingRequested, requestVars
<1>4. CASE /\ current_piece[c] # NoPiece
           /\ SendRequest(c, current_piece[c], block_offset[c])
           /\ UNCHANGED next_req_index
  <2> DEFINE i == current_piece[c]
  <2>1. i \in Pieces /\ block_offset[c] \in Nat
    BY <1>1, <1>4
  <2>2. /\ i < next_req_index /\ block_offset[c] = EndOf(asked[i])
        /\ block_offset[c] < PieceLen(i)
        /\ \A k \in DOMAIN asked[i] : asked[i][k].conn = c
        /\ \A d \in Conns : current_piece[d] = i => d = c
    BY <1>4 DEF RequestInv, Claimed
  <2>3. /\ next_req_index' \in Nat /\ i < next_req_index'
        /\ next_req_index <= next_req_index'
    BY <1>1, <1>4, <2>2
  <2> QED BY <1>4, <2>1, <2>2, <2>3, SendKeeps
<1>5. ASSUME NEW i \in FirstCandidate(c), SendRequest(c, i, 0),
             next_req_index' = i + 1
      PROVE  RequestInv'
  <2>1. i \in Pieces /\ i >= next_req_index
    BY <1>1 DEF FirstCandidate, Candidates
  <2>2. asked[i] = <<>>
    BY <2>1 DEF RequestInv, Unclaimed
  <2>3. EndOf(asked[i]) = 0 /\ \A k \in DOMAIN asked[i] : asked[i][k].conn = c
    BY <2>2 DEF EndOf
  <2>4. 0 < PieceLen(i)
    BY <1>1, <2>1, PieceLenType
  <2>5. \A d \in Conns : current_piece[d] # i
    BY <1>1, <1>2, <2>1 DEF RequestInv, Claimed
  <2>6. /\ next_req_index' \in Nat /\ i < next_req_index'
        /\ next_req_index <= next_req_index'
    BY <1>1, <1>2, <1>5, <2>1
  <2> QED BY <1>5, <2>1, <2>3, <2>4, <2>5, <2>6, SendKeeps
<1>6. CASE /\ NothingRequested
           /\ next_req_index' =
                (IF next_req_index < NumPieces THEN NumPieces
                 ELSE next_req_index) + 1
  <2>1. next_req_index' \in Nat /\ next_req_index' >= next_req_index
    BY <1>1, <1>6
  <2>2. UNCHANGED <<peer_pieces, current_piece, block_offset, asked>>
    BY <1>6 DEF NothingRequested
  <2>3. RequestTypes'
    BY <2>1, <2>2 DEF RequestInv, RequestTypes
  <2>4. Unclaimed'
    BY <1>1, <1>2, <2>1, <2>2 DEF RequestInv, Unclaimed, Pieces
  <2>5. Claimed'
    <3>1. \A d \in Conns : current_piece[d] \in Pieces \cup {NoPiece}
      BY DEF RequestInv, RequestTypes
    <3>2. Claimed
      BY DEF RequestInv
    <3> SUFFICES ASSUME NEW d \in Conns, current_piece[d] # NoPiece
                 PROVE  LET j == current_piece[d] IN
                        /\ j < next_req_index'
                        /\ \A k \in DOMAIN asked[j] : asked[j][k].conn = d
                        /\ block_offset[d] = EndOf(asked[j])
                        /\ block_offset[d] < PieceLen(j)
                        /\ \A e \in Conns : current_piece[e] = j => e = d
      BY <2>2 DEF Claimed, EndOf, PieceLen
    <3>3. current_piece[d] < next_req_index'
      <4>1. current_piece[d] < next_req_index
        BY <3>2 DEF Claimed
      <4>2. current_piece[d] \in Nat
        BY <1>2, <3>1
      <4> QED BY <1>1, <2>1, <4>1, <4>2
    <3> QED BY <3>2, <3>3 DEF Claimed
  <2>6. RequestsTile'
    BY <2>2 DEF RequestInv, RequestsTile, Pieces, EndOf, PieceLen
  <2> QED BY <2>3, <2>4, <2>5, <2>6 DEF RequestInv
<1> QED BY <1>3, <1>4, <1>5, <1>6 DEF RequestNextBlock

\* Every message a connection processes keeps the invariant.
LEMMA ProcessKeepsRequests ==
  ASSUME RequestInv, NEW c \in Conns, ProcessMessage(c)
  PROVE  RequestInv'
<1> DEFINE m == Head(wire[c])
<1>1. CASE ProcessHandshake(c)
  BY <1>1, RequestFrame
  DEF ProcessHandshake, SendThrows, SendKills, requestVars
<1>2. CASE ProcessUnchoke(c)
  BY <1>2, RequestNextKeeps DEF ProcessUnchoke
<1>3. CASE ProcessChoke(c)
  BY <1>3, RequestFrame DEF ProcessChoke, NothingRequested, requestVars
<1>4. CASE ProcessBitfield(c, m)
  <2>1. /\ peer_pieces' = [peer_pieces EXCEPT ![c] = @ \cup (m.pieces \cap Pieces)]
        /\ UNCHANGED <<next_req_index, current_piece, block_offset, asked>>
    BY <1>4 DEF ProcessBitfield, NothingRequested
  <2>2. peer_pieces' \in [Conns -> SUBSET Pieces]
    BY <2>1 DEF RequestInv, RequestTypes
  <2>3. RequestTypes'
    BY <2>1, <2>2 DEF RequestInv, RequestTypes, Pieces
  <2>4. (Unclaimed /\ Claimed /\ RequestsTile)'
    BY <2>1 DEF RequestInv, Unclaimed, Claimed, RequestsTile, EndOf, Pieces,
                PieceLen
  <2> QED BY <2>3, <2>4 DEF RequestInv
<1>5. CASE ProcessPiece(c, m)
  BY <1>5, RequestNextKeeps DEF ProcessPiece
<1>6. CASE ProcessOther(c)
  BY <1>6, RequestFrame DEF ProcessOther, NothingRequested, requestVars
<1> QED BY <1>1, <1>2, <1>3, <1>4, <1>5, <1>6 DEF ProcessMessage

\* So does every other step.
LEMMA RequestStep == RequestInv /\ [Next]_vars => RequestInv'
<1> SUFFICES ASSUME RequestInv, [Next]_vars PROVE RequestInv'
  OBVIOUS
<1>1. CASE UNCHANGED vars
  BY <1>1, RequestFrame DEF vars, connVars, requestVars
<1>2. CASE EnterRun \/ Poll \/ RunReturns
  BY <1>2, RequestFrame
  DEF EnterRun, Poll, WaitReturns, RunReturns, connVars, requestVars
<1>3. ASSUME NEW c \in Conns, AddConnection(c) \/ HandleOut(c) \/ HandleIn(c)
      PROVE  RequestInv'
  BY <1>3, RequestFrame
  DEF AddConnection, HandleOut, HandleIn, requestVars
<1>4. ASSUME NEW c \in Conns, ProcessMessage(c)
      PROVE  RequestInv'
  BY <1>4, ProcessKeepsRequests
<1>5. ASSUME NEW c \in Conns, Peer(c)
      PROVE  RequestInv'
  <2>1. OnlyPeer
    BY <1>5 DEF Peer, PeerGreet, PeerUnchoke, PeerChoke, PeerForgets, PeerHave,
                PeerServe, PeerCloses
  <2> QED BY <2>1, RequestFrame DEF OnlyPeer, connVars, requestVars
<1> QED BY <1>1, <1>2, <1>3, <1>4, <1>5 DEF Next, Network

\* The counter, the cursors and the requests always agree.
THEOREM RequestsInvariant == Spec => []RequestInv
BY RequestInit, RequestStep, PTL DEF Spec

\* In every torrent, with any number of connections and whatever the peers do,
\* no block is requested twice: each piece is requested by one connection, from
\* its start, block after block, and never past its end.
THEOREM BlocksRequestedOnce == Spec => []RequestsTile
<1>1. RequestInv => RequestsTile
  BY DEF RequestInv
<1> QED BY <1>1, RequestsInvariant, PTL

=============================================================================

--------------------------- MODULE FarmTypeProofs ---------------------------
(***************************************************************************)
(* Proofs that the module Farm is type correct, that only verified pieces  *)
(* are given to the writer, whichever blocks are corrupted, and that a     *)
(* socket is only read when something can be received from it.             *)
(***************************************************************************)
EXTENDS FarmProofs, SequenceTheorems

-----------------------------------------------------------------------------
(* The torrent: a block within its piece is within the file. *)

\* Every piece ends within the file.
LEMMA PieceFits ==
  \A i \in Pieces : i * PieceLength + PieceLen(i) <= Length
<1> SUFFICES ASSUME NEW i \in Pieces
             PROVE  i * PieceLength + PieceLen(i) <= Length
  OBVIOUS
<1> DEFINE P == PieceLength
           n == NumPieces - 1
<1>1. /\ P \in Nat \ {0} /\ Length \in Nat \ {0} /\ i \in Nat /\ n \in Nat
      /\ i <= n /\ NumPieces \in Nat
      /\ n * P < Length /\ Length <= NumPieces * P
  BY TorrentConstants DEF Pieces
<1>2. NumPieces * P = n * P + P
  BY <1>1
<1>3. CASE i # n
  <2>1. n - i \in Nat /\ n - i >= 1
    BY <1>1, <1>3
  <2>2. n * P = i * P + (n - i) * P
    BY <1>1
  <2>3. (n - i) * P >= P
    BY <1>1, <2>1
  <2>4. PieceLen(i) = P
    BY <1>3 DEF PieceLen
  <2>5. i * P \in Nat /\ n * P \in Nat /\ (n - i) * P \in Nat
    BY <1>1, <2>1
  <2> HIDE DEF P, n
  <2> QED BY <1>1, <2>2, <2>3, <2>4, <2>5 DEF P
<1>4. CASE i = n
  <2> DEFINE q == Length \div P
             rem == Length % P
  <2>1. Length = P * q + rem /\ q \in Nat /\ rem \in 0 .. P - 1
    BY <1>1
  <2>2. n * P \in Nat /\ P * q \in Nat
    BY <1>1, <2>1
  <2>3. q <= n \/ q >= n + 1
    BY <1>1, <2>1
  <2>4. q >= n + 1 => P * q >= P * n + P
    <3> SUFFICES ASSUME q >= n + 1 PROVE P * q >= P * n + P
      OBVIOUS
    <3>1. q - (n + 1) \in Nat
      BY <1>1, <2>1
    <3>2. P * q = P * (n + 1) + P * (q - (n + 1))
      BY <1>1, <2>1
    <3>3. P * (q - (n + 1)) \in Nat
      BY <1>1, <3>1
    <3> QED BY <1>1, <2>1, <3>2, <3>3
  <2>5. CASE rem = 0
    <3>1. PieceLen(i) = P
      BY <1>4, <2>5 DEF PieceLen
    <3>2. q >= n + 1
      <4>1. SUFFICES ASSUME q <= n PROVE FALSE
        BY <2>3
      <4>2. P * n = P * q + P * (n - q) /\ P * (n - q) \in Nat
        BY <1>1, <2>1, <4>1
      <4> HIDE DEF q, rem, n, P
      <4> QED BY <1>1, <2>1, <2>2, <2>5, <4>2
    <3> QED BY <1>1, <1>4, <2>1, <2>2, <2>4, <2>5, <3>1, <3>2
  <2>6. CASE rem # 0
    <3>1. PieceLen(i) = rem
      BY <1>4, <2>6 DEF PieceLen
    <3>2. q >= n
      <4>1. SUFFICES ASSUME q + 1 <= n PROVE FALSE
        BY <1>1, <2>1
      <4>2. P * n = P * (q + 1) + P * (n - (q + 1)) /\ P * (n - (q + 1)) \in Nat
        BY <1>1, <2>1, <4>1
      <4>3. P * (q + 1) = P * q + P
        BY <1>1, <2>1
      <4> HIDE DEF q, rem, n, P
      <4> QED BY <1>1, <2>1, <2>2, <4>2, <4>3
    <3>3. P * q = P * n + P * (q - n) /\ P * (q - n) \in Nat
      BY <1>1, <2>1, <3>2
    <3>4. P * q >= n * P
      BY <1>1, <2>1, <3>3
    <3> QED BY <1>1, <1>4, <2>1, <2>2, <3>1, <3>4
  <2> QED BY <2>5, <2>6
<1> QED BY <1>3, <1>4

\* The bytes of a block that lies within its piece are bytes of the file.
LEMMA SliceType ==
  ASSUME NEW i \in Pieces, NEW b \in Nat, NEW l \in Nat, b + l <= PieceLen(i)
  PROVE  /\ Slice(i * PieceLength + b, l) \in Seq(Byte)
         /\ Len(Slice(i * PieceLength + b, l)) = l
<1> DEFINE off == i * PieceLength + b
<1>1. /\ Content \in Seq(Byte) /\ Len(Content) = Length /\ Length \in Nat
      /\ i * PieceLength \in Nat /\ PieceLen(i) \in Nat
  BY TorrentConstants, PieceLenType DEF Pieces
<1>2. off \in Nat /\ off + l <= Length
  BY <1>1, PieceFits
<1>3. \A k \in off + 1 .. off + l : Content[k] \in Byte
  BY <1>1, <1>2
<1> HIDE DEF off
<1>4. /\ SubSeq(Content, off + 1, off + l) \in Seq(Byte)
      /\ Len(SubSeq(Content, off + 1, off + l)) =
           IF off + 1 <= off + l THEN (off + l) - (off + 1) + 1 ELSE 0
  <2>1. off + 1 \in Int /\ off + l \in Int
    BY <1>2
  <2> QED BY <1>3, <2>1, SubSeqProperties
<1>5. Len(SubSeq(Content, off + 1, off + l)) = l
  BY <1>2, <1>4
<1> QED BY <1>4, <1>5 DEF Slice, off

-----------------------------------------------------------------------------
(* OnBlockReceived: the buffer, the counters and what is written. *)

\* What may be written: a piece of the torrent at its place.
VerifiedJob == {[b |-> PieceContent(i), offset |-> i * PieceLength] : i \in Pieces}

\* A sequence over a set is one over any larger set.
LEMMA SeqMono ==
  ASSUME NEW S, NEW T, S \subseteq T, NEW s \in Seq(S)
  PROVE  s \in Seq(T)
<1>1. Len(s) \in Nat /\ s \in [1 .. Len(s) -> S]
  OBVIOUS
<1>2. s \in [1 .. Len(s) -> T]
  BY <1>1
<1> QED BY <1>1, <1>2

DownloaderInv == DownloaderTypes /\ jobs \in Seq(VerifiedJob)

\* A write of a piece of the torrent is a job.
LEMMA VerifiedJobType == VerifiedJob \subseteq [b : Seq(Byte), offset : Nat]
<1> SUFFICES ASSUME NEW i \in Pieces
             PROVE  /\ PieceContent(i) \in Seq(Byte)
                    /\ i * PieceLength \in Nat
  BY DEF VerifiedJob
<1>1. PieceLen(i) \in Nat /\ i \in Nat /\ PieceLength \in Nat
  BY PieceLenType, TorrentConstants DEF Pieces
<1>2. i * PieceLength \in Nat /\ i * PieceLength + 0 = i * PieceLength
  BY <1>1
<1>3. Slice(i * PieceLength + 0, PieceLen(i)) \in Seq(Byte)
  BY <1>1, SliceType
<1> QED BY <1>2, <1>3 DEF PieceContent

\* Copying a block into the buffer keeps its length.
LEMMA OverwriteType ==
  ASSUME NEW buf \in Seq(Byte), NEW off \in Nat, NEW data \in Seq(Byte)
  PROVE  /\ Overwrite(buf, off, data) \in Seq(Byte)
         /\ Len(Overwrite(buf, off, data)) = Len(buf)
<1> DEFINE n == Len(buf)
           g == Overwrite(buf, off, data)
<1>1. n \in Nat /\ Len(data) \in Nat
  OBVIOUS
<1>2. ASSUME NEW k \in 1 .. n
      PROVE  (IF k > off /\ k <= off + Len(data) THEN data[k - off] ELSE buf[k])
               \in Byte
  <2>1. CASE k > off /\ k <= off + Len(data)
    <3>1. k - off \in 1 .. Len(data)
      BY <1>1, <2>1
    <3> QED BY <2>1, <3>1
  <2> QED BY <1>1, <2>1
<1>3. g \in [1 .. n -> Byte]
  BY <1>2 DEF Overwrite
<1> HIDE DEF g
<1> HIDE DEF n
<1> QED BY <1>1, <1>3 DEF g, n

\* A block within its piece keeps the types, and what it completes and
\* verifies is the piece of the torrent.
LEMMA BlockKeeps ==
  ASSUME DownloaderInv, NEW i \in Pieces, NEW off \in Nat,
         NEW data \in Seq(Byte), off + Len(data) <= PieceLen(i),
         OnBlockReceived(i, off, data)
  PROVE  DownloaderInv'
<1> DEFINE fresh == i # current_piece_index
           zeros == [k \in 1 .. PieceLen(i) |-> 0]
           buf0 == IF fresh THEN zeros ELSE piece_buffer
           rec0 == IF fresh THEN 0 ELSE piece_bytes_received
           fits == off + Len(data) <= Len(buf0)
           buf1 == IF fits THEN Overwrite(buf0, off, data) ELSE buf0
           rec1 == rec0 + IF fits THEN Len(data) ELSE 0
           job == [b |-> buf1, offset |-> i * PieceLength]
<1>1. /\ PieceLen(i) \in 1 .. PieceLength /\ PieceLength \in Nat
      /\ Len(data) \in Nat /\ 0 \in Byte
  BY PieceLenType, TorrentConstants
<1>2. /\ piece_buffer \in Seq(Byte) /\ Len(piece_buffer) <= PieceLength
      /\ piece_bytes_received \in Nat /\ downloaded_bytes \in Nat
      /\ jobs \in Seq(VerifiedJob) /\ fill \subseteq 1 .. PieceLength
      /\ intact \in [Pieces -> SUBSET (1 .. PieceLength)]
  BY DEF DownloaderInv, DownloaderTypes
<1>3. zeros \in Seq(Byte) /\ Len(zeros) = PieceLen(i)
  <2>1. zeros \in [1 .. PieceLen(i) -> Byte]
    BY <1>1
  <2>2. PieceLen(i) \in Nat
    BY <1>1
  <2> HIDE DEF zeros
  <2> QED BY <2>1, <2>2
<1>4. buf0 \in Seq(Byte) /\ Len(buf0) <= PieceLength /\ rec0 \in Nat
  <2> HIDE DEF zeros
  <2> QED BY <1>1, <1>2, <1>3
<1>5. buf1 \in Seq(Byte) /\ Len(buf1) <= PieceLength
  <2> HIDE DEF buf0
  <2> QED BY <1>4, OverwriteType
<1>6. rec1 \in Nat
  <2> HIDE DEF buf0, rec0
  <2> QED BY <1>1, <1>4
<1>7. Positions(off, data) \subseteq 1 .. PieceLength
  BY <1>1 DEF Positions
<1>8. /\ current_piece_index' = i /\ piece_bytes_received' = rec1
      /\ fill' = (IF fresh THEN {} ELSE fill)
                 \cup IF fits THEN Positions(off, data) ELSE {}
      /\ intact' = IF data = Slice(i * PieceLength + off, Len(data))
                   THEN [intact EXCEPT ![i] = @ \cup Positions(off, data)]
                   ELSE intact
      /\ \/ /\ Sha1Calculate(buf1) = PieceHash(i)
            /\ jobs' = Append(jobs, job) /\ piece_buffer' = MovedFrom
            /\ downloaded_bytes' = downloaded_bytes + Len(MovedFrom)
         \/ piece_buffer' = buf1 /\ UNCHANGED <<jobs, downloaded_bytes>>
  BY DEF OnBlockReceived
<1> HIDE DEF fresh, buf0, rec0, fits, buf1, rec1, job
<1>9. fill' \subseteq 1 .. PieceLength
  BY <1>2, <1>7, <1>8
<1>10. intact' \in [Pieces -> SUBSET (1 .. PieceLength)]
  BY <1>2, <1>7, <1>8
<1>11. /\ jobs' \in Seq(VerifiedJob) /\ downloaded_bytes' \in Nat
       /\ piece_buffer' \in Seq(Byte) /\ Len(piece_buffer') <= PieceLength
  <2>1. CASE /\ Sha1Calculate(buf1) = PieceHash(i)
             /\ jobs' = Append(jobs, job) /\ piece_buffer' = MovedFrom
             /\ downloaded_bytes' = downloaded_bytes + Len(MovedFrom)
    <3>1. buf1 = PieceContent(i)
      BY <2>1 DEF Sha1Calculate, PieceHash
    <3>2. job \in VerifiedJob
      BY <3>1 DEF VerifiedJob, job
    <3>3. jobs' \in Seq(VerifiedJob)
      BY <1>2, <2>1, <3>2
    <3>4. MovedFrom \in Seq(Byte) /\ Len(MovedFrom) = 0
      BY DEF MovedFrom
    <3> QED BY <1>1, <1>2, <2>1, <3>3, <3>4
  <2>2. CASE piece_buffer' = buf1 /\ UNCHANGED <<jobs, downloaded_bytes>>
    BY <1>2, <1>5, <2>2
  <2> QED BY <1>8, <2>1, <2>2
<1>12. jobs' \in Seq([b : Seq(Byte), offset : Nat])
  <2> DEFINE J == [b : Seq(Byte), offset : Nat]
  <2>1. VerifiedJob \subseteq J
    BY VerifiedJobType
  <2>2. jobs' \in Seq(VerifiedJob)
    BY <1>11
  <2> HIDE DEF J
  <2>3. jobs' \in Seq(J)
    BY <2>1, <2>2, SeqMono
  <2> QED BY <2>3 DEF J
<1> QED BY <1>6, <1>8, <1>9, <1>10, <1>11, <1>12
        DEF DownloaderInv, DownloaderTypes, Pieces, VerifiedJob, PieceContent

-----------------------------------------------------------------------------
(* What is read and what is sent. *)

\* While a connection is being read it is open, and the messages left in the
\* chunk are on its wire.
ReadInv ==
  reading # NoConn /\ ~killed =>
    sock[reading] /\ left \in 1 .. Len(wire[reading])

WireInv == ReadTypes /\ PeerTypes /\ ReadInv

\* The ways a message ends: the next one, an exception, a signal.
Outcome(c) ==
  \/ NextMessage(c) /\ UNCHANGED <<sock, killed>>
  \/ /\ sock' = [sock EXCEPT ![c] = FALSE]
     /\ reading' = NoConn /\ left' = 0 /\ UNCHANGED killed
  \/ killed' = TRUE /\ UNCHANGED <<sock, readVars>>

LEMMA SendOutcome ==
  ASSUME NEW c \in Conns, NEW i, NEW off, SendRequest(c, i, off)
  PROVE  Outcome(c)
BY DEF SendRequest, SendThrows, SendKills, Outcome, readVars

LEMMA RequestNextOutcome ==
  ASSUME NEW c \in Conns, NEW ch, RequestNextBlock(c, ch)
  PROVE  Outcome(c)
BY SendOutcome DEF RequestNextBlock, NothingRequested, Outcome

LEMMA ProcessOutcome ==
  ASSUME NEW c \in Conns, ProcessMessage(c)
  PROVE  Outcome(c)
<1> DEFINE m == Head(wire[c])
<1>1. CASE ProcessHandshake(c)
  BY <1>1 DEF ProcessHandshake, SendThrows, SendKills, Outcome, readVars
<1>2. CASE ProcessUnchoke(c)
  BY <1>2, RequestNextOutcome DEF ProcessUnchoke
<1>3. CASE ProcessPiece(c, m)
  BY <1>3, RequestNextOutcome DEF ProcessPiece
<1>4. CASE ProcessChoke(c) \/ ProcessBitfield(c, m) \/ ProcessOther(c)
  BY <1>4 DEF ProcessChoke, ProcessBitfield, ProcessOther, NothingRequested,
              Outcome
<1> QED BY <1>1, <1>2, <1>3, <1>4 DEF ProcessMessage

ReqsTyped == reqs \in [Conns -> Seq(PeerRequest)]

\* A request that is sent lies within its piece.
LEMMA SendTypesReqs ==
  ASSUME ReqsTyped, NEW c \in Conns, NEW i \in Pieces, NEW off \in Nat,
         off < PieceLen(i), SendRequest(c, i, off)
  PROVE  ReqsTyped'
<1> DEFINE r == [index |-> i, begin |-> off, len |-> RequestLen(i, off)]
<1>1. PieceLen(i) \in Nat /\ BlockLen \in Nat
  BY PieceLenType, TorrentConstants
<1>2. RequestLen(i, off) \in Nat /\ off + RequestLen(i, off) <= PieceLen(i)
  BY <1>1 DEF RequestLen
<1>3. r \in PeerRequest
  BY <1>2 DEF PeerRequest
<1>4. CASE reqs' = [reqs EXCEPT ![c] = Append(@, r)]
  <2>1. Append(reqs[c], r) \in Seq(PeerRequest)
    BY <1>3 DEF ReqsTyped
  <2>2. reqs' \in [Conns -> Seq(PeerRequest)]
    BY <1>4, <2>1 DEF ReqsTyped
  <2> QED BY <2>2 DEF ReqsTyped, PeerRequest, Pieces, PieceLen
<1>5. CASE UNCHANGED reqs
  BY <1>5 DEF ReqsTyped, PeerRequest, Pieces, PieceLen
<1> QED BY <1>4, <1>5 DEF SendRequest, SendThrows, SendKills

LEMMA RequestNextTypesReqs ==
  ASSUME RequestInv, ReqsTyped, NEW c \in Conns, NEW ch,
         RequestNextBlock(c, ch)
  PROVE  ReqsTyped'
<1>1. CASE NothingRequested
  BY <1>1 DEF NothingRequested, ReqsTyped, PeerRequest, Pieces, PieceLen
<1>2. CASE /\ current_piece[c] # NoPiece
           /\ SendRequest(c, current_piece[c], block_offset[c])
  <2>1. current_piece[c] \in Pieces /\ block_offset[c] \in Nat
    BY <1>2, TorrentConstants DEF RequestInv, RequestTypes
  <2>2. block_offset[c] < PieceLen(current_piece[c])
    BY <1>2 DEF RequestInv, Claimed
  <2> QED BY <1>2, <2>1, <2>2, SendTypesReqs
<1>3. ASSUME NEW i \in FirstCandidate(c), SendRequest(c, i, 0)
      PROVE  ReqsTyped'
  <2>1. i \in Pieces
    BY DEF FirstCandidate, Candidates, RequestInv, RequestTypes
  <2>2. 0 < PieceLen(i)
    BY <2>1, PieceLenType, TorrentConstants
  <2> QED BY <1>3, <2>1, <2>2, SendTypesReqs
<1> QED BY <1>1, <1>2, <1>3 DEF RequestNextBlock

LEMMA ProcessTypesReqs ==
  ASSUME RequestInv, ReqsTyped, NEW c \in Conns, ProcessMessage(c)
  PROVE  ReqsTyped'
<1> DEFINE m == Head(wire[c])
<1>1. CASE UNCHANGED reqs
  BY <1>1 DEF ReqsTyped, PeerRequest, Pieces, PieceLen
<1>2. CASE ProcessHandshake(c) \/ ProcessChoke(c) \/ ProcessBitfield(c, m)
           \/ ProcessOther(c)
  BY <1>1, <1>2 DEF ProcessHandshake, SendThrows, SendKills, ProcessChoke,
                    ProcessBitfield, ProcessOther, NothingRequested
<1>3. CASE ProcessUnchoke(c) \/ ProcessPiece(c, m)
  BY <1>3, RequestNextTypesReqs DEF ProcessUnchoke, ProcessPiece
<1> QED BY <1>2, <1>3 DEF ProcessMessage

\* Processing a message keeps what is said of the wire.
LEMMA ProcessKeepsWire ==
  ASSUME RequestInv, WireInv, NEW c \in Conns, ProcessMessage(c),
         UNCHANGED envVars, sock \in [Conns -> BOOLEAN]
  PROVE  WireInv'
<1>1. /\ reading = c /\ ~killed /\ sock[c] /\ left \in 1 .. Len(wire[c])
      /\ wire \in [Conns -> Seq(Message)] /\ wire[c] \in Seq(Message)
      /\ c # NoConn /\ Len(wire[c]) \in Nat
  BY ConnsConstant DEF WireInv, ReadInv, PeerTypes, ProcessMessage, NoConn
<1>2. wire' = [wire EXCEPT ![c] = IF sock'[c] THEN Tail(@) ELSE <<>>]
  BY DEF ProcessMessage, TakeMessage
<1>3. Tail(wire[c]) \in Seq(Message) /\ Len(Tail(wire[c])) = Len(wire[c]) - 1
  BY <1>1
<1>4. wire' \in [Conns -> Seq(Message)]
  <2>1. <<>> \in Seq(Message)
    OBVIOUS
  <2> QED BY <1>1, <1>2, <1>3, <2>1
<1>5. PeerTypes'
  <2>1. ReqsTyped'
    BY ProcessTypesReqs DEF WireInv, PeerTypes, ReqsTyped
  <2> QED BY <1>4, <2>1 DEF WireInv, PeerTypes, ReqsTyped, envVars, Message,
                            PieceMsg, PeerRequest, Pieces, PieceLen
<1>6. Outcome(c)
  BY ProcessOutcome
<1>7. ReadTypes'
  BY <1>1, <1>6 DEF Outcome, NextMessage, ReadTypes, readVars, WireInv, NoConn
<1>8. ReadInv'
  <2>1. CASE NextMessage(c) /\ UNCHANGED <<sock, killed>>
    <3> SUFFICES ASSUME reading' # NoConn
                 PROVE  sock'[reading'] /\ left' \in 1 .. Len(wire'[reading'])
      BY DEF ReadInv
    <3>1. reading' = c /\ left' = left - 1 /\ left # 1
      BY <2>1 DEF NextMessage
    <3>2. wire'[c] = Tail(wire[c])
      BY <1>1, <1>2, <2>1
    <3> QED BY <1>1, <1>3, <2>1, <3>1, <3>2
  <2>2. CASE reading' = NoConn \/ killed' = TRUE
    BY <2>2 DEF ReadInv
  <2> QED BY <1>6, <2>1, <2>2 DEF Outcome
<1> QED BY <1>5, <1>7, <1>8 DEF WireInv

-----------------------------------------------------------------------------
(* The peers. *)

\* What a peer sends is appended to its wire.
LEMMA PeerSendsKeeps ==
  ASSUME WireInv, NEW c \in Conns, NEW ms \in Seq(Message), PeerSends(c, ms),
         UNCHANGED <<reading, left, killed, sock>>
  PROVE  wire' \in [Conns -> Seq(Message)] /\ ReadInv'
<1>1. wire \in [Conns -> Seq(Message)] /\ wire[c] \in Seq(Message)
  BY DEF WireInv, PeerTypes
<1>2. /\ wire[c] \o ms \in Seq(Message)
      /\ Len(wire[c] \o ms) = Len(wire[c]) + Len(ms)
      /\ Len(ms) \in Nat /\ \A d \in Conns : Len(wire[d]) \in Nat
  BY <1>1
<1>3. wire' \in [Conns -> Seq(Message)]
  BY <1>1, <1>2 DEF PeerSends
<1>4. ReadInv'
  <2> SUFFICES ASSUME reading # NoConn, ~killed
               PROVE  sock[reading] /\ left \in 1 .. Len(wire'[reading])
    BY DEF ReadInv
  <2>1. /\ reading \in Conns /\ sock[reading]
        /\ left \in 1 .. Len(wire[reading])
    BY DEF WireInv, ReadInv, ReadTypes
  <2>2. wire'[reading] = IF reading = c THEN wire[c] \o ms ELSE wire[reading]
    BY <1>1, <2>1 DEF PeerSends
  <2>3. CASE reading = c
    BY <1>2, <2>1, <2>2, <2>3
  <2>4. CASE reading # c
    BY <2>1, <2>2, <2>4
  <2> QED BY <2>3, <2>4
<1> QED BY <1>3, <1>4

\* Every step of a peer keeps what is said of the wire.
LEMMA PeerKeepsWire ==
  ASSUME WireInv, NEW c \in Conns, Peer(c)
  PROVE  WireInv'
<1> USE DEF OnlyPeer, readVars, connVars, farmVars, envVars
<1>1. /\ wire \in [Conns -> Seq(Message)] /\ reqs \in [Conns -> Seq(PeerRequest)]
      /\ haves \in [Conns -> SUBSET Pieces] /\ unchokes \in [Conns -> Nat]
      /\ ReadTypes /\ ReadInv
  BY DEF WireInv, PeerTypes
<1>2. /\ [type |-> "handshake"] \in Message /\ [type |-> "unchoke"] \in Message
      /\ [type |-> "choke"] \in Message /\ [type |-> "have"] \in Message
      /\ [type |-> "bitfield", pieces |-> PeerHas[c]] \in Message
  BY PeerConstants DEF Message
<1>3. CASE PeerGreet(c)
  <2> DEFINE ms == <<[type |-> "handshake"]>> \o
                   IF PeerHas[c] = {} THEN <<>>
                   ELSE <<[type |-> "bitfield", pieces |-> PeerHas[c]]>>
  <2>1. ms \in Seq(Message)
    <3>1. /\ <<[type |-> "handshake"]>> \in Seq(Message)
          /\ <<[type |-> "bitfield", pieces |-> PeerHas[c]]>> \in Seq(Message)
          /\ <<>> \in Seq(Message)
      BY <1>2
    <3> QED BY <3>1
  <2>2. wire' \in [Conns -> Seq(Message)] /\ ReadInv'
    <3>1. PeerSends(c, ms) /\ UNCHANGED <<reading, left, killed, sock>>
      BY <1>3 DEF PeerGreet
    <3> HIDE DEF ms
    <3> QED BY <2>1, <3>1, PeerSendsKeeps
  <2> QED BY <1>1, <1>3, <2>2
          DEF PeerGreet, WireInv, PeerTypes, ReadTypes, Message, PieceMsg,
              PeerRequest, Pieces, PieceLen
<1>4. CASE PeerUnchoke(c)
  <2>1. <<[type |-> "unchoke"]>> \in Seq(Message)
    BY <1>2
  <2>2. wire' \in [Conns -> Seq(Message)] /\ ReadInv'
    BY <1>4, <2>1, PeerSendsKeeps DEF PeerUnchoke
  <2>3. unchokes' \in [Conns -> Nat]
    BY <1>1, <1>4 DEF PeerUnchoke
  <2> QED BY <1>1, <1>4, <2>2, <2>3
          DEF PeerUnchoke, WireInv, PeerTypes, ReadTypes, Message, PieceMsg,
              PeerRequest, Pieces, PieceLen
<1>5. CASE PeerChoke(c)
  <2>1. <<[type |-> "choke"]>> \in Seq(Message)
    BY <1>2
  <2>2. wire' \in [Conns -> Seq(Message)] /\ ReadInv'
    BY <1>5, <2>1, PeerSendsKeeps DEF PeerChoke
  <2> QED BY <1>1, <1>5, <2>2
          DEF PeerChoke, WireInv, PeerTypes, ReadTypes, Message, PieceMsg,
              PeerRequest, Pieces, PieceLen
<1>6. CASE PeerForgets(c)
  <2>1. <<>> \in Seq(PeerRequest)
    OBVIOUS
  <2>2. reqs' \in [Conns -> Seq(PeerRequest)]
    BY <1>1, <1>6, <2>1 DEF PeerForgets
  <2> QED BY <1>1, <1>6, <2>2
          DEF PeerForgets, WireInv, PeerTypes, ReadTypes, ReadInv, Message,
              PieceMsg, PeerRequest, Pieces, PieceLen
<1>7. CASE PeerHave(c)
  <2>1. <<[type |-> "have"]>> \in Seq(Message)
    BY <1>2
  <2>2. wire' \in [Conns -> Seq(Message)] /\ ReadInv'
    BY <1>7, <2>1, PeerSendsKeeps DEF PeerHave
  <2>3. haves' \in [Conns -> SUBSET Pieces]
    <3>1. PICK i \in PeerGains[c] \ Owned(c) :
            haves' = [haves EXCEPT ![c] = @ \cup {i}]
      BY <1>7 DEF PeerHave
    <3>2. i \in Pieces
      BY PeerConstants
    <3> QED BY <1>1, <3>1, <3>2
  <2> QED BY <1>1, <1>7, <2>2, <2>3
          DEF PeerHave, WireInv, PeerTypes, ReadTypes, Message, PieceMsg,
              PeerRequest, Pieces, PieceLen
<1>8. CASE PeerServe(c)
  <2>1. PICK k \in 1 .. Len(reqs[c]) :
          LET r == reqs[c][k]
              good == Slice(r.index * PieceLength + r.begin, r.len)
          IN
          /\ reqs' = [reqs EXCEPT ![c] =
                        SubSeq(@, 1, k - 1) \o SubSeq(@, k + 1, Len(@))]
          /\ \E data \in {good} \cup
                         IF c \in Corrupters THEN [1 .. r.len -> Byte] ELSE {} :
               PeerSends(c, <<[type |-> "piece", index |-> r.index,
                               begin |-> r.begin, data |-> data]>>)
    BY <1>8 DEF PeerServe
  <2> DEFINE r == reqs[c][k]
             good == Slice(r.index * PieceLength + r.begin, r.len)
             rest == SubSeq(reqs[c], 1, k - 1) \o
                     SubSeq(reqs[c], k + 1, Len(reqs[c]))
  <2>2. PICK data \in {good} \cup
                      IF c \in Corrupters THEN [1 .. r.len -> Byte] ELSE {} :
          PeerSends(c, <<[type |-> "piece", index |-> r.index,
                          begin |-> r.begin, data |-> data]>>)
    BY <2>1
  <2>3. reqs[c] \in Seq(PeerRequest) /\ r \in PeerRequest
    BY <1>1
  <2>4. /\ r.index \in Pieces /\ r.begin \in Nat /\ r.len \in Nat
        /\ r.begin + r.len <= PieceLen(r.index)
    BY <2>3 DEF PeerRequest
  <2> HIDE DEF r
  <2>5. data \in Seq(Byte) /\ Len(data) = r.len
    <3>1. CASE data = good
      BY <2>4, <3>1, SliceType
    <3>2. CASE data \in [1 .. r.len -> Byte]
      BY <2>4, <3>2
    <3> QED BY <2>2, <3>1, <3>2
  <2> DEFINE msg == [type |-> "piece", index |-> r.index, begin |-> r.begin,
                     data |-> data]
  <2>6. msg \in Message
    <3>1. msg \in [type : {"piece"}, index : Pieces, begin : Nat,
                   data : Seq(Byte)]
      BY <2>4, <2>5
    <3>2. msg.begin + Len(msg.data) <= PieceLen(msg.index)
      BY <2>4, <2>5
    <3> QED BY <3>1, <3>2 DEF Message, PieceMsg
  <2>7. PeerSends(c, <<msg>>)
    BY <2>2
  <2> HIDE DEF msg
  <2>8. wire' \in [Conns -> Seq(Message)] /\ ReadInv'
    <3>1. <<msg>> \in Seq(Message)
      BY <2>6
    <3>2. UNCHANGED <<reading, left, killed, sock>>
      BY <1>8 DEF PeerServe
    <3> QED BY <2>7, <3>1, <3>2, PeerSendsKeeps
  <2>9. reqs' \in [Conns -> Seq(PeerRequest)]
    <3>1. rest \in Seq(PeerRequest)
      <4>1. k \in 1 .. Len(reqs[c]) /\ Len(reqs[c]) \in Nat
        BY <2>3
      <4>2. \A j \in 1 .. Len(reqs[c]) : reqs[c][j] \in PeerRequest
        BY <2>3
      <4>3. SubSeq(reqs[c], 1, k - 1) \in Seq(PeerRequest)
        BY <4>1, <4>2, SubSeqProperties
      <4>4. SubSeq(reqs[c], k + 1, Len(reqs[c])) \in Seq(PeerRequest)
        BY <4>1, <4>2, SubSeqProperties
      <4> QED BY <4>3, <4>4
    <3>2. reqs' = [reqs EXCEPT ![c] = rest]
      BY <1>1, <2>1
    <3> HIDE DEF rest
    <3> QED BY <1>1, <3>1, <3>2
  <2> QED BY <1>1, <1>8, <2>8, <2>9
          DEF PeerServe, WireInv, PeerTypes, ReadTypes, Message, PieceMsg,
              PeerRequest, Pieces, PieceLen
<1>9. CASE PeerCloses(c)
  BY <1>1, <1>9
  DEF PeerCloses, WireInv, PeerTypes, ReadTypes, ReadInv, Message, PieceMsg,
      PeerRequest, Pieces, PieceLen
<1> QED BY <1>3, <1>4, <1>5, <1>6, <1>7, <1>8, <1>9 DEF Peer

-----------------------------------------------------------------------------
(* The network thread. *)

\* The steps of the network thread other than the processing of a message.
LEMMA NetworkKeepsWire ==
  ASSUME WireInv, sock \in [Conns -> BOOLEAN],
         \/ EnterRun \/ Poll \/ RunReturns
         \/ \E c \in Conns : AddConnection(c) \/ HandleOut(c) \/ HandleIn(c)
  PROVE  WireInv'
<1> USE DEF readVars, peerVars, envVars, connVars
<1>1. /\ wire \in [Conns -> Seq(Message)] /\ reqs \in [Conns -> Seq(PeerRequest)]
      /\ haves \in [Conns -> SUBSET Pieces] /\ unchokes \in [Conns -> Nat]
      /\ ReadTypes /\ ReadInv /\ <<>> \in Seq(Message)
      /\ \A c \in Conns : Len(wire[c]) \in Nat
  <2>1. wire \in [Conns -> Seq(Message)] /\ <<>> \in Seq(Message)
    BY DEF WireInv, PeerTypes
  <2>2. \A c \in Conns : Len(wire[c]) \in Nat
    BY <2>1
  <2> QED BY <2>1, <2>2 DEF WireInv, PeerTypes
<1>2. CASE UNCHANGED <<wire, reqs, haves, unchokes, readVars, killed, sock>>
  BY <1>1, <1>2 DEF WireInv, PeerTypes, ReadTypes, ReadInv, Message, PieceMsg,
                    PeerRequest, Pieces, PieceLen
<1>3. CASE EnterRun \/ Poll
  BY <1>2, <1>3 DEF EnterRun, Poll, WaitReturns
<1>4. ASSUME wire' \in [Conns -> Seq(Message)], ReadTypes', ReadInv',
             UNCHANGED <<reqs, haves, unchokes>>
      PROVE  WireInv'
  BY <1>1, <1>4 DEF WireInv, PeerTypes, Message, PieceMsg, PeerRequest, Pieces,
                    PieceLen
<1>5. CASE RunReturns
  <2>1. wire' \in [Conns -> Seq(Message)]
    BY <1>1, <1>5 DEF RunReturns
  <2>2. ReadTypes' /\ ReadInv'
    BY <1>1, <1>5 DEF RunReturns, Idle, ReadTypes, ReadInv
  <2>3. UNCHANGED <<reqs, haves, unchokes>>
    BY <1>5 DEF RunReturns
  <2> QED BY <1>4, <2>1, <2>2, <2>3
<1>6. ASSUME NEW c \in Conns, AddConnection(c)
      PROVE  WireInv'
  <2>1. UNCHANGED <<wire, reqs, haves, unchokes, reading, left, killed>>
    BY <1>6 DEF AddConnection
  <2>2. ReadInv'
    <3> SUFFICES ASSUME reading # NoConn, ~killed
                 PROVE  sock'[reading] /\ left \in 1 .. Len(wire[reading])
      BY <2>1 DEF ReadInv
    <3>1. reading \in Conns /\ sock[reading] /\ left \in 1 .. Len(wire[reading])
      BY <1>1 DEF ReadTypes, ReadInv
    <3>2. sock' \in {sock, [sock EXCEPT ![c] = TRUE]}
      BY <1>6 DEF AddConnection, Connect
    <3> QED BY <3>1, <3>2
  <2>3. wire' \in [Conns -> Seq(Message)] /\ ReadTypes'
    BY <1>1, <2>1 DEF ReadTypes
  <2> QED BY <1>4, <2>1, <2>2, <2>3
<1>7. ASSUME NEW c \in Conns, HandleOut(c)
      PROVE  WireInv'
  <2>1. /\ wire' = [wire EXCEPT ![c] = IF sock'[c] THEN @ ELSE <<>>]
        /\ reading = NoConn
        /\ UNCHANGED <<reqs, haves, unchokes, reading, left>>
    BY <1>7 DEF HandleOut
  <2>2. wire' \in [Conns -> Seq(Message)]
    BY <1>1, <2>1
  <2>3. ReadTypes' /\ ReadInv'
    BY <1>1, <2>1 DEF ReadTypes, ReadInv
  <2> QED BY <1>4, <2>1, <2>2, <2>3
<1>8. ASSUME NEW c \in Conns, HandleIn(c)
      PROVE  WireInv'
  <2>1. UNCHANGED <<wire, reqs, haves, unchokes, killed>> /\ reading = NoConn
    BY <1>8 DEF HandleIn
  <2>2. \/ UNCHANGED readVars
        \/ /\ sock[c] /\ reading' = c /\ left' \in 1 .. Len(wire[c])
           /\ UNCHANGED sock
    BY <1>8 DEF HandleIn
  <2>3. ReadTypes' /\ ReadInv'
    BY <1>1, <2>1, <2>2 DEF ReadTypes, ReadInv
  <2>4. wire' \in [Conns -> Seq(Message)]
    BY <1>1, <2>1
  <2> QED BY <1>4, <2>1, <2>3, <2>4
<1> QED BY <1>3, <1>5, <1>6, <1>7, <1>8

\* The flags, the events and the state of the links.
LEMMA ControlStep ==
  ASSUME ControlTypes, ReadTypes, [Next]_vars
  PROVE  ControlTypes'
<1> USE DEF ControlTypes
<1>1. CASE UNCHANGED vars
  BY <1>1 DEF vars, connVars, peerVars, farmVars, envVars
<1>2. ASSUME NEW c \in Conns, Peer(c)
      PROVE  ControlTypes'
  <2> USE DEF OnlyPeer, connVars, farmVars, envVars
  <2>1. CASE PeerGreet(c) \/ PeerUnchoke(c) \/ PeerChoke(c)
    BY <2>1 DEF PeerGreet, PeerUnchoke, PeerChoke
  <2>2. CASE PeerForgets(c) \/ PeerHave(c) \/ PeerServe(c)
    BY <2>2 DEF PeerForgets, PeerHave, PeerServe
  <2>3. CASE PeerCloses(c)
    BY <2>3 DEF PeerCloses
  <2> QED BY <1>2, <2>1, <2>2, <2>3 DEF Peer
<1>3. CASE EnterRun \/ RunReturns
  BY <1>3 DEF EnterRun, RunReturns, connVars, peerVars, envVars
<1>4. CASE Poll
  <2>1. events' \subseteq Conns \X {"in", "out"}
    BY <1>4 DEF Poll, WaitReturns, Ready, Registered
  <2> QED BY <1>4, <2>1 DEF Poll, WaitReturns, connVars, peerVars, envVars
<1>5. ASSUME NEW c \in Conns, AddConnection(c)
      PROVE  ControlTypes'
  BY <1>5 DEF AddConnection, Connect, peerVars, envVars
<1>6. ASSUME NEW c \in Conns, HandleOut(c)
      PROVE  ControlTypes'
  <2>1. link' \in [Conns -> {"up", "fin", "rst", "dead"}]
    BY <1>6 DEF HandleOut, AfterSend
  <2>2. /\ sock' \in [Conns -> BOOLEAN] /\ killed' \in BOOLEAN
        /\ state' \in [Conns -> {"CONNECTING", "HANDSHAKING", "DOWNLOADING"}]
    <3>1. /\ sock' = sock \/ sock' = [sock EXCEPT ![c] = FALSE]
          /\ state' = state \/ state' = [state EXCEPT ![c] = "HANDSHAKING"]
          /\ UNCHANGED killed
      BY <1>6 DEF HandleOut
    <3> QED BY <3>1
  <2> QED BY <1>6, <2>1, <2>2 DEF HandleOut, envVars
<1>7. ASSUME NEW c \in Conns, HandleIn(c)
      PROVE  ControlTypes'
  BY <1>7 DEF HandleIn, ReceiveFails, peerVars, envVars
<1>8. ASSUME NEW c \in Conns, ProcessMessage(c), UNCHANGED <<farmVars, envVars>>
      PROVE  ControlTypes'
  <2> DEFINE m == Head(wire[c])
             Sent == /\ link' \in [Conns -> {"up", "fin", "rst", "dead"}]
                     /\ sock' \in [Conns -> BOOLEAN] /\ killed' \in BOOLEAN
             Kept == /\ choked' \in [Conns -> BOOLEAN]
                     /\ state' \in [Conns -> {"CONNECTING", "HANDSHAKING",
                                              "DOWNLOADING"}]
  <2>1. ASSUME NEW i, NEW off, SendRequest(c, i, off)
        PROVE  Sent
    BY <2>1 DEF SendRequest, SendThrows, SendKills, AfterSend
  <2>2. ASSUME NothingRequested
        PROVE  Sent
    BY <2>2 DEF NothingRequested
  <2>3. ASSUME NEW ch, RequestNextBlock(c, ch)
        PROVE  Sent
    <3> HIDE DEF Sent
    <3> QED BY <2>1, <2>2, <2>3 DEF RequestNextBlock
  <2>4. Sent
    <3>1. CASE ProcessHandshake(c)
      BY <3>1 DEF ProcessHandshake, SendThrows, SendKills, AfterSend
    <3>2. CASE ProcessUnchoke(c) \/ ProcessPiece(c, m)
      <4> HIDE DEF Sent
      <4> QED BY <2>3, <3>2 DEF ProcessUnchoke, ProcessPiece
    <3>3. CASE ProcessChoke(c) \/ ProcessBitfield(c, m) \/ ProcessOther(c)
      <4> HIDE DEF Sent
      <4> QED BY <2>2, <3>3 DEF ProcessChoke, ProcessBitfield, ProcessOther
    <3> QED BY <1>8, <3>1, <3>2, <3>3 DEF ProcessMessage
  <2>5. Kept
    BY <1>8 DEF ProcessMessage, ProcessHandshake, ProcessUnchoke, ProcessPiece,
                ProcessChoke, ProcessBitfield, ProcessOther
  <2> QED BY <1>8, <2>4, <2>5 DEF farmVars, envVars
<1> QED BY <1>1, <1>2, <1>3, <1>4, <1>5, <1>6, <1>7, <1>8 DEF Next, Network

\* The downloader only changes when a block is processed.
LEMMA DownloaderStep ==
  ASSUME DownloaderInv, RequestInv, WireInv, [Next]_vars
  PROVE  DownloaderInv'
<1>1. CASE UNCHANGED dlVars
  BY <1>1 DEF dlVars, DownloaderInv, DownloaderTypes, Pieces, VerifiedJob,
              PieceContent, Slice, PieceLen
<1>2. ASSUME NEW c \in Conns, ProcessMessage(c)
      PROVE  DownloaderInv'
  <2> DEFINE m == Head(wire[c])
  <2>1. CASE UNCHANGED dlVars
    BY <1>1, <2>1
  <2>2. CASE m.type = "piece" /\ ProcessPiece(c, m)
    <3>1. wire[c] \in Seq(Message) /\ left \in 1 .. Len(wire[c])
      BY <1>2, ConnsConstant
      DEF WireInv, PeerTypes, ReadInv, ProcessMessage, NoConn
    <3>2. m \in Message
      BY <3>1
    <3>3. m \in PieceMsg
      BY <2>2, <3>2 DEF Message
    <3>4. /\ m.index \in Pieces /\ m.begin \in Nat /\ m.data \in Seq(Byte)
          /\ m.begin + Len(m.data) <= PieceLen(m.index)
      BY <3>3 DEF PieceMsg
    <3>5. OnBlockReceived(m.index, m.begin, m.data)
      BY <2>2 DEF ProcessPiece
    <3> HIDE DEF m
    <3> QED BY <3>4, <3>5, BlockKeeps
  <2>3. CASE ProcessHandshake(c) \/ ProcessUnchoke(c) \/ ProcessChoke(c)
             \/ ProcessBitfield(c, m) \/ ProcessOther(c)
    BY <2>1, <2>3 DEF ProcessHandshake, ProcessUnchoke, ProcessChoke,
                      ProcessBitfield, ProcessOther
  <2> QED BY <1>2, <2>2, <2>3 DEF ProcessMessage
<1>3. CASE \/ UNCHANGED vars \/ EnterRun \/ Poll \/ RunReturns
           \/ \E c \in Conns : \/ AddConnection(c) \/ HandleOut(c)
                               \/ HandleIn(c) \/ Peer(c)
  BY <1>1, <1>3
  DEF vars, EnterRun, Poll, WaitReturns, RunReturns, AddConnection, HandleOut,
      HandleIn, Peer, PeerGreet, PeerUnchoke, PeerChoke, PeerForgets, PeerHave,
      PeerServe, PeerCloses, OnlyPeer
<1> QED BY <1>2, <1>3 DEF Next, Network

-----------------------------------------------------------------------------
(* What the events of a batch promise stays true until they are handled. *)

\* While connections are made nothing is read.
PcInv == pc = "connect" => events = {} /\ reading = NoConn

LEMMA PcStep ==
  ASSUME PcInv, [Next]_vars
  PROVE  PcInv'
<1>1. CASE UNCHANGED vars
  BY <1>1 DEF PcInv, farmVars, readVars, vars
<1>2. CASE EnterRun \/ Poll \/ RunReturns
  BY <1>2 DEF EnterRun, Poll, WaitReturns, RunReturns, Idle, PcInv
<1>3. ASSUME NEW c \in Conns, AddConnection(c) \/ HandleOut(c) \/ HandleIn(c)
      PROVE  PcInv'
  BY <1>3 DEF AddConnection, HandleOut, HandleIn, PcInv, readVars
<1>4. ASSUME NEW c \in Conns, ProcessMessage(c), UNCHANGED farmVars
      PROVE  PcInv'
  BY <1>4, ConnsConstant DEF ProcessMessage, PcInv, farmVars, NoConn
<1>5. ASSUME NEW c \in Conns, Peer(c)
      PROVE  PcInv'
  BY <1>5 DEF Peer, PeerGreet, PeerUnchoke, PeerChoke, PeerForgets, PeerHave,
              PeerServe, PeerCloses, OnlyPeer, PcInv, farmVars, readVars
<1> QED BY <1>1, <1>2, <1>3, <1>4, <1>5 DEF Next, Network

\* The event of the connection being read has been taken out of the batch, so
\* the handler of one connection never uses up what another's event is for.
ReadableInv ==
  /\ ReadableWhenRead /\ PcInv
  /\ reading # NoConn => <<reading, "in">> \notin events

\* What happens to a connection whose event is still to be handled: it is left
\* alone, only sent to, or closed.
StaysReadable(c) ==
  \/ ~sock'[c]
  \/ /\ sock'[c] = sock[c]
     /\ wire[c] # <<>> => wire'[c] # <<>>
     /\ link[c] # "up" => link'[c] # "up"

LEMMA BatchShrinks ==
  ASSUME ReadableWhenRead, events' \subseteq events,
         \A c \in Conns : <<c, "in">> \in events' => StaysReadable(c)
  PROVE  ReadableWhenRead'
BY DEF ReadableWhenRead, StaysReadable

\* A message processed for c leaves the links of the others alone.
LEMMA ProcessElsewhere ==
  ASSUME WireInv, ControlTypes, NEW c \in Conns, ProcessMessage(c),
         NEW d \in Conns, d # c
  PROVE  sock'[d] = sock[d] /\ wire'[d] = wire[d] /\ link'[d] = link[d]
<1> DEFINE m == Head(wire[c])
           Moved == link' = link \/ \E l \in AfterSend(c) :
                                      link' = [link EXCEPT ![c] = l]
<1>1. ASSUME NEW i, NEW off, SendRequest(c, i, off)
      PROVE  Moved
  BY <1>1 DEF SendRequest, SendThrows, SendKills
<1>2. ASSUME NEW ch, RequestNextBlock(c, ch)
      PROVE  Moved
  <2> HIDE DEF Moved
  <2>1. NothingRequested => Moved
    BY DEF NothingRequested, Moved
  <2> QED BY <1>1, <1>2, <2>1 DEF RequestNextBlock
<1>3. Moved
  <2>1. CASE ProcessHandshake(c)
    BY <2>1 DEF ProcessHandshake, SendThrows, SendKills
  <2>2. CASE ProcessUnchoke(c) \/ ProcessPiece(c, m)
    <3> HIDE DEF Moved
    <3> QED BY <1>2, <2>2 DEF ProcessUnchoke, ProcessPiece
  <2>3. CASE ProcessChoke(c) \/ ProcessBitfield(c, m) \/ ProcessOther(c)
    BY <2>3 DEF ProcessChoke, ProcessBitfield, ProcessOther, NothingRequested
  <2> QED BY <2>1, <2>2, <2>3 DEF ProcessMessage
<1>4. link'[d] = link[d]
  BY <1>3 DEF ControlTypes
<1>5. sock'[d] = sock[d]
  BY ProcessOutcome DEF Outcome, ControlTypes
<1>6. wire'[d] = wire[d]
  BY DEF ProcessMessage, TakeMessage, WireInv, PeerTypes
<1> QED BY <1>4, <1>5, <1>6

-----------------------------------------------------------------------------
(* The invariant and the theorems. *)

FarmInv == RequestInv /\ DownloaderInv /\ WireInv /\ ControlTypes

\* The initial state satisfies the invariant.
LEMMA FarmInit == Init => FarmInv
<1> SUFFICES ASSUME Init PROVE FarmInv
  OBVIOUS
<1> USE DEF Init, DownloaderInit, ConnectionInit
<1>1. RequestInv
  BY RequestInit
<1>2. DownloaderInv
  <2>1. <<>> \in Seq(Byte) /\ Len(<<>>) = 0 /\ <<>> \in Seq(VerifiedJob)
        /\ <<>> \in Seq([b : Seq(Byte), offset : Nat])
    OBVIOUS
  <2>2. PieceLength \in Nat
    BY TorrentConstants
  <2> QED BY <2>1, <2>2 DEF DownloaderInv, DownloaderTypes, NoPiece
<1>3. WireInv
  <2>1. <<>> \in Seq(Message) /\ <<>> \in Seq(PeerRequest)
    OBVIOUS
  <2> QED BY <2>1 DEF WireInv, ReadTypes, PeerTypes, ReadInv
<1>4. ControlTypes
  BY DEF ControlTypes
<1> QED BY <1>1, <1>2, <1>3, <1>4 DEF FarmInv

\* Every step keeps it.
LEMMA FarmStep == FarmInv /\ [Next]_vars => FarmInv'
<1> SUFFICES ASSUME FarmInv, [Next]_vars PROVE FarmInv'
  OBVIOUS
<1>1. /\ RequestInv /\ DownloaderInv /\ WireInv /\ ControlTypes
      /\ sock \in [Conns -> BOOLEAN]
  BY DEF FarmInv, ControlTypes
<1>2. RequestInv'
  BY <1>1, RequestStep
<1>3. DownloaderInv'
  BY <1>1, DownloaderStep
<1>4. ControlTypes'
  BY <1>1, ControlStep DEF WireInv
<1>5. WireInv'
  <2>1. CASE UNCHANGED vars
    BY <1>1, <2>1
    DEF vars, connVars, readVars, peerVars, envVars, WireInv, ReadTypes,
        PeerTypes, ReadInv, Message, PieceMsg, PeerRequest, Pieces, PieceLen
  <2>2. CASE \/ EnterRun \/ Poll \/ RunReturns
             \/ \E c \in Conns : \/ AddConnection(c) \/ HandleOut(c)
                                 \/ HandleIn(c)
    BY <1>1, <2>2, NetworkKeepsWire
  <2>3. ASSUME NEW c \in Conns, ProcessMessage(c), UNCHANGED envVars
        PROVE  WireInv'
    BY <1>1, <2>3, ProcessKeepsWire
  <2>4. ASSUME NEW c \in Conns, Peer(c)
        PROVE  WireInv'
    BY <1>1, <2>4, PeerKeepsWire
  <2> QED BY <2>1, <2>2, <2>3, <2>4 DEF Next, Network
<1> QED BY <1>2, <1>3, <1>4, <1>5 DEF FarmInv

\* What a peer has sent stays until it is read, and more is sent behind it.
LEMMA SentIsThere ==
  ASSUME wire \in [Conns -> Seq(Message)], NEW c \in Conns,
         NEW T, NEW ms \in Seq(T), PeerSends(c, ms)
  PROVE  \A d \in Conns : wire[d] # <<>> => wire'[d] # <<>>
<1> DEFINE U == Message \cup T
<1>1. wire[c] \in Seq(Message) /\ Message \subseteq U /\ T \subseteq U
  OBVIOUS
<1> HIDE DEF U
<1>2. wire[c] \in Seq(U) /\ ms \in Seq(U)
  BY <1>1, SeqMono
<1>3. wire[c] # <<>> => wire[c] \o ms # <<>>
  BY <1>2
<1> QED BY <1>3 DEF PeerSends

LEMMA SendsSequence ==
  ASSUME NEW c \in Conns,
         \/ PeerGreet(c) \/ PeerUnchoke(c) \/ PeerChoke(c) \/ PeerHave(c)
         \/ PeerServe(c)
  PROVE  \E T : \E ms \in Seq(T) : PeerSends(c, ms)
<1>1. ASSUME NEW m, PeerSends(c, <<m>>)
      PROVE  \E T : \E ms \in Seq(T) : PeerSends(c, ms)
  <2>1. <<m>> \in Seq({m})
    OBVIOUS
  <2> QED BY <1>1, <2>1
<1>2. CASE PeerGreet(c)
  <2> DEFINE h == [type |-> "handshake"]
             b == [type |-> "bitfield", pieces |-> PeerHas[c]]
             ms == <<h>> \o IF PeerHas[c] = {} THEN <<>> ELSE <<b>>
  <2>1. PeerSends(c, ms)
    BY <1>2 DEF PeerGreet
  <2> HIDE DEF h, b
  <2> DEFINE T == {h, b}
  <2>2. <<h>> \in Seq(T) /\ <<b>> \in Seq(T) /\ <<>> \in Seq(T)
    OBVIOUS
  <2> HIDE DEF T
  <2>3. <<h>> \o <<>> \in Seq(T) /\ <<h>> \o <<b>> \in Seq(T)
    BY <2>2
  <2>4. ms \in Seq(T)
    BY <2>3
  <2> HIDE DEF ms
  <2> QED BY <2>1, <2>4
<1>3. CASE PeerUnchoke(c) \/ PeerChoke(c) \/ PeerHave(c)
  BY <1>1, <1>3 DEF PeerUnchoke, PeerChoke, PeerHave
<1>4. CASE PeerServe(c)
  BY <1>1, <1>4 DEF PeerServe
<1> QED BY <1>2, <1>3, <1>4

\* The steps of the network thread, then those of the peers.
LEMMA ReadableStep == FarmInv /\ ReadableInv /\ [Next]_vars => ReadableInv'
<1> SUFFICES ASSUME FarmInv, ReadableInv, [Next]_vars PROVE ReadableInv'
  OBVIOUS
<1>1. /\ PcInv' /\ ControlTypes /\ ControlTypes' /\ WireInv /\ ReadableWhenRead
      /\ wire \in [Conns -> Seq(Message)]
  BY PcStep, FarmStep DEF FarmInv, ReadableInv, WireInv, PeerTypes
<1>2. CASE UNCHANGED vars \/ EnterRun
  <2>1. UNCHANGED <<sock, wire, link, reading, events>>
    BY <1>2 DEF vars, EnterRun, connVars, readVars, peerVars, farmVars
  <2> QED BY <1>1, <2>1 DEF ReadableInv, ReadableWhenRead
<1>3. CASE Poll
  <2>1. /\ events' = UNION {Ready(c) : c \in Registered} /\ reading = NoConn
        /\ UNCHANGED <<sock, wire, link, reading>>
    BY <1>3 DEF Poll, WaitReturns, Idle, connVars, peerVars, readVars
  <2>2. ReadableWhenRead'
    <3> SUFFICES ASSUME NEW c \in Conns, <<c, "in">> \in events'
                 PROVE  wire'[c] # <<>> \/ link'[c] # "up"
      BY DEF ReadableWhenRead
    <3>1. PICK d \in Registered : <<c, "in">> \in Ready(d)
      BY <2>1
    <3>2. <<c, "in">> # <<d, "out">>
      OBVIOUS
    <3> QED BY <2>1, <3>1, <3>2 DEF Ready
  <2> QED BY <1>1, <2>1, <2>2 DEF ReadableInv
<1>4. CASE RunReturns
  BY <1>1, <1>4 DEF RunReturns, Idle, readVars, ReadableInv, ReadableWhenRead
<1>5. ASSUME NEW c \in Conns, AddConnection(c)
      PROVE  ReadableInv'
  BY <1>1, <1>5 DEF AddConnection, readVars, PcInv, ReadableInv, ReadableWhenRead
<1>6. ASSUME NEW c \in Conns, HandleOut(c)
      PROVE  ReadableInv'
  <2>1. /\ events' \subseteq events /\ UNCHANGED reading /\ reading = NoConn
        /\ wire' = [wire EXCEPT ![c] = IF sock'[c] THEN @ ELSE <<>>]
        /\ sock' = sock \/ sock' = [sock EXCEPT ![c] = FALSE]
    BY <1>6 DEF HandleOut, readVars
  <2>2. \/ UNCHANGED link
        \/ CanSend(c) /\ link' \in {[link EXCEPT ![c] = l] : l \in AfterSend(c)}
    BY <1>6 DEF HandleOut
  <2>3. \A d \in Conns : link[d] # "up" => link'[d] # "up"
    BY <1>1, <2>2 DEF AfterSend, ControlTypes
  <2>4. \A d \in Conns : StaysReadable(d)
    BY <1>1, <2>1, <2>3 DEF StaysReadable, ControlTypes
  <2> QED BY <1>1, <2>1, <2>4, BatchShrinks DEF ReadableInv
<1>7. ASSUME NEW c \in Conns, HandleIn(c)
      PROVE  ReadableInv'
  <2>1. /\ events' = events \ {<<c, "in">>} /\ UNCHANGED <<wire, link>>
        /\ sock' = sock \/ sock' = [sock EXCEPT ![c] = FALSE]
        /\ reading' \in {NoConn, c}
    BY <1>7 DEF HandleIn, ReceiveFails, peerVars, readVars
  <2>2. \A d \in Conns : StaysReadable(d)
    BY <1>1, <2>1 DEF StaysReadable, ControlTypes
  <2> QED BY <1>1, <2>1, <2>2, BatchShrinks DEF ReadableInv
<1>8. ASSUME NEW c \in Conns, ProcessMessage(c), UNCHANGED farmVars
      PROVE  ReadableInv'
  <2>1. reading = c /\ <<c, "in">> \notin events /\ UNCHANGED events
    BY <1>8, ConnsConstant DEF ProcessMessage, NoConn, farmVars, ReadableInv
  <2>2. \A d \in Conns : <<d, "in">> \in events' => StaysReadable(d)
    BY <1>1, <1>8, <2>1, ProcessElsewhere DEF StaysReadable
  <2>3. reading' \in {NoConn, c}
    BY <1>8, <2>1, ProcessOutcome DEF Outcome, NextMessage, readVars
  <2> QED BY <1>1, <2>1, <2>2, <2>3, BatchShrinks DEF ReadableInv
<1>9. ASSUME NEW c \in Conns, Peer(c)
      PROVE  ReadableInv'
  <2>1. UNCHANGED <<sock, reading, events>>
    BY <1>9 DEF Peer, PeerGreet, PeerUnchoke, PeerChoke, PeerForgets, PeerHave,
                PeerServe, PeerCloses, OnlyPeer, connVars, readVars, farmVars
  <2>2. /\ \A d \in Conns : wire[d] # <<>> => wire'[d] # <<>>
        /\ \A d \in Conns : link[d] # "up" => link'[d] # "up"
    <3>1. CASE PeerCloses(c)
      BY <1>1, <3>1 DEF PeerCloses, ControlTypes
    <3>2. CASE PeerForgets(c)
      BY <3>2 DEF PeerForgets
    <3>3. CASE PeerGreet(c) \/ PeerUnchoke(c) \/ PeerChoke(c) \/ PeerHave(c)
               \/ PeerServe(c)
      <4>1. UNCHANGED link
        BY <3>3 DEF PeerGreet, PeerUnchoke, PeerChoke, PeerHave, PeerServe
      <4>2. \E T : \E ms \in Seq(T) : PeerSends(c, ms)
        BY <3>3, SendsSequence
      <4> QED BY <1>1, <4>1, <4>2, SentIsThere
    <3> QED BY <1>9, <3>1, <3>2, <3>3 DEF Peer
  <2>3. \A d \in Conns : StaysReadable(d)
    BY <2>1, <2>2 DEF StaysReadable
  <2> QED BY <1>1, <2>1, <2>3, BatchShrinks DEF ReadableInv
<1> QED BY <1>2, <1>3, <1>4, <1>5, <1>6, <1>7, <1>8, <1>9 DEF Next, Network

\* FarmInv holds in every reachable state.
THEOREM FarmInvariant == Spec => []FarmInv
BY FarmInit, FarmStep, PTL DEF Spec

\* Every variable keeps its type; in particular no request and no block
\* reaches outside its piece, and the buffer never outgrows a piece.
THEOREM FarmTypes == Spec => []TypeOK
<1>1. FarmInv => TypeOK
  BY DEF FarmInv, RequestInv, DownloaderInv, WireInv, TypeOK
<1> QED BY <1>1, FarmInvariant, PTL

\* In every torrent, with any peers that answer each request with one block at the
\* place and of the length asked for, whatever bytes are in it, and in whatever
\* order the blocks of different peers arrive: only a whole piece of the torrent
\* is given to the writer, at its place.
THEOREM OnlyVerifiedWrites == Spec => []VerifiedWrites
<1>1. FarmInv => VerifiedWrites
  <2> SUFFICES ASSUME FarmInv, NEW k \in DOMAIN jobs
               PROVE  \E i \in Pieces :
                        jobs[k] = [b |-> PieceContent(i),
                                   offset |-> i * PieceLength]
    BY DEF VerifiedWrites
  <2>1. jobs \in Seq(VerifiedJob)
    BY DEF FarmInv, DownloaderInv
  <2>2. jobs[k] \in VerifiedJob
    BY <2>1
  <2> QED BY <2>2 DEF VerifiedJob
<1> QED BY <1>1, FarmInvariant, PTL

\* The only network thread never blocks on one peer: whenever an event leads to
\* a receive there is something to receive, however old the batch is.
THEOREM ReadOnlyReadable == Spec => []ReadableWhenRead
<1>1. Init => FarmInv /\ ReadableInv
  BY FarmInit DEF Init, DownloaderInit, ConnectionInit, ReadableInv, PcInv,
                  ReadableWhenRead
<1>2. FarmInv /\ ReadableInv /\ [Next]_vars => (FarmInv /\ ReadableInv)'
  BY FarmStep, ReadableStep
<1>3. ReadableInv => ReadableWhenRead
  BY DEF ReadableInv
<1> QED BY <1>1, <1>2, <1>3, PTL DEF Spec

=============================================================================

------------------------------ MODULE Framing ------------------------------
(***************************************************************************)
(* The bytes of one peer connection: Connection::OnReadyWrite, OnReadyRead *)
(* and ProcessBuffer (source/download/Connection.cpp) with recv_buffer,    *)
(* the layouts of source/download/message.cpp and the integers of          *)
(* include/parsing/buffer.h.  TCP gives the bytes of the peer in pieces of *)
(* any length; here they become the whole messages of module Connection.   *)
(*                                                                         *)
(* What the handlers do besides is in Connection: RequestNextBlock is seen *)
(* as nothing, a request, or an exception from the send.                   *)
(***************************************************************************)
EXTENDS Integers, Sequences, FiniteSets

CONSTANTS
  Bits,          \* 8 in the code: the bits of a byte
  Proto,         \* the 19 bytes "BitTorrent protocol"
  Reserved,      \* 8 in the code: the zeros after them
  InfoHash,      \* torrent.info_hash, 20 bytes
  PeerId,        \* my_id, 20 bytes
  HandshakeLen,  \* 68 in the code, a literal of ProcessBuffer
  Chunk,         \* 8192 in the code: what one receive asks for
  NumPieces,     \* torrent.piece_hashes.size()
  Messages,      \* external: the messages a peer may send
  Requests,      \* the blocks RequestNextBlock may ask for
  MaxSent        \* bound on the messages of the peer

Base == 2 ^ Bits
Byte == 0 .. Base - 1
Base2 == Base * Base
Base3 == Base * Base2
Word == Base * Base3       \* uint32_t counts modulo this
Int32 == 0 .. Word - 1

VARIABLES
  sock,         \* the socket pointer is not null
  state,        \* CONNECTING, HANDSHAKING or DOWNLOADING
  recv_buffer,  \* received and not yet processed
  reading,      \* the network thread is in ProcessBuffer
  stream,       \* external: all bytes the peer has sent
  got,          \* how many of them have been received
  link,         \* external: "up"; "fin", the peer has closed; "rst", reset
  greeted,      \* external: the peer has sent its handshake
  sent,         \* history: the messages of the peer, in order
  ends,         \* history: where in the stream each of them ends
  taken,        \* history: how many have been taken out of recv_buffer
  handled,      \* history: those given to a case of the switch, in order
  out,          \* the bytes of the last successful send
  meant         \* history: what they were meant to say

inVars == <<state, recv_buffer, reading>>
outVars == <<out, meant>>
peerVars == <<stream, link, greeted, sent, ends>>
vars == <<sock, inVars, got, peerVars, taken, handled, outVars>>

\* The ids of class Message; HAVE is a word of TLA+.
CHOKE == 0
UNCHOKE == 1
INTERESTED == 2
HAVE_ID == 4
BITFIELD == 5
REQUEST == 6
PIECE == 7

-----------------------------------------------------------------------------
(* Integers and layouts.  Offsets count from 0, as in the code. *)

\* Faulty variant of PushInt32: the least significant byte first.
PushLittleEndian(b, val) ==
  b \o <<val % Base, (val \div Base) % Base,
         (val \div Base2) % Base, (val \div Base3) % Base>>

PushInt32(b, val) ==
  b \o <<(val \div Base3) % Base, (val \div Base2) % Base,
         (val \div Base) % Base, val % Base>>

\* Otherwise ReadBE32 throws.
CanRead32(b, index) == index + 4 <= Len(b)

ReadBE32(b, index) ==
  b[index + 1] * Base3 + b[index + 2] * Base2
  + b[index + 3] * Base + b[index + 4]

ReadMessageLength(b) == IF Len(b) < 4 THEN 0 ELSE ReadBE32(b, 0)

Zeros(n) == [i \in 1 .. n |-> 0]

BuildHandshake ==
  <<Len(Proto)>> \o Proto \o Zeros(Reserved) \o InfoHash \o PeerId

BuildInterested == Append(PushInt32(<<>>, 1), INTERESTED)

BuildRequest(r) ==
  PushInt32(PushInt32(PushInt32(
    Append(PushInt32(<<>>, 13), REQUEST), r.index), r.begin), r.len)

\* The bit of weight 2^k.
Bit(byte, k) == (byte \div 2 ^ k) % 2

\* Faulty variant of PiecesOf: the lowest bit stands for the first piece.
PiecesLowestFirst(payload) ==
  {p \in 0 .. NumPieces - 1 :
     \E i \in 0 .. Len(payload) - 1, bit \in 0 .. Bits - 1 :
       p = i * Bits + bit /\ Bit(payload[i + 1], bit) = 1}

\* The two loops over a BITFIELD; bits beyond the last piece are spare.
PiecesOf(payload) ==
  {p \in 0 .. NumPieces - 1 :
     \E i \in 0 .. Len(payload) - 1, bit \in 0 .. Bits - 1 :
       p = i * Bits + bit /\ Bit(payload[i + 1], Bits - 1 - bit) = 1}

-----------------------------------------------------------------------------
(* External: how a peer lays out its messages and reads ours, from the     *)
(* protocol: it uses none of the builders above.                           *)

BigEndian(n) ==
  <<(n \div Base3) % Base, (n \div Base2) % Base, (n \div Base) % Base, n % Base>>

Frame(id, payload) == BigEndian(1 + Len(payload)) \o <<id>> \o payload

BitfieldBytes(S) ==
  [i \in 1 .. (NumPieces + Bits - 1) \div Bits |->
     CHOOSE byte \in Byte : \A bit \in 0 .. Bits - 1 :
       Bit(byte, Bits - 1 - bit) = 1 <=> (i - 1) * Bits + bit \in S]

\* After the name of the protocol come flags and ids of its own, which the
\* program does not look at: here, bytes of ones.
Greeting ==
  [i \in 1 .. HandshakeLen |->
     IF i = 1 THEN Len(Proto)
     ELSE IF i - 1 \in DOMAIN Proto THEN Proto[i - 1] ELSE Base - 1]

PeerBytes(m) ==
  CASE m.type = "keepalive" -> BigEndian(0)
    [] m.type = "choke" -> Frame(CHOKE, <<>>)
    [] m.type = "unchoke" -> Frame(UNCHOKE, <<>>)
    [] m.type = "have" -> Frame(HAVE_ID, BigEndian(m.index))
    [] m.type = "bitfield" -> Frame(BITFIELD, BitfieldBytes(m.pieces))
    [] m.type = "piece" ->
         Frame(PIECE, BigEndian(m.index) \o BigEndian(m.begin) \o m.data)
    [] m.type = "stub" -> Frame(PIECE, BigEndian(m.index))

\* What a peer takes bytes of ours for.
NumberAt(b, off) == CHOOSE n \in 0 .. Word - 1 :
                      BigEndian(n) = SubSeq(b, off + 1, off + 4)

PeerReads(b) ==
  IF b[1] = Len(Proto) /\ SubSeq(b, 2, Len(Proto) + 1) = Proto
  THEN LET at == Len(Proto) + Reserved + 1 IN
       [type |-> "handshake",
        info_hash |-> SubSeq(b, at + 1, at + Len(InfoHash)),
        peer_id |-> SubSeq(b, at + Len(InfoHash) + 1, Len(b))]
  ELSE IF SubSeq(b, 1, 4) # BigEndian(Len(b) - 4) THEN [type |-> "garbled"]
  ELSE IF b[5] = INTERESTED THEN [type |-> "interested"]
  ELSE [type |-> "request", index |-> NumberAt(b, 5),
        begin |-> NumberAt(b, 9), len |-> NumberAt(b, 13)]

\* What a peer may say.  Its lengths do not wrap.
Message ==
  [type : {"keepalive", "choke", "unchoke"}]
  \cup [type : {"have", "stub"}, index : Int32]
  \cup [type : {"bitfield"}, pieces : SUBSET (0 .. NumPieces - 1)]
  \cup [type : {"piece"}, index : Int32, begin : Int32, data : Seq(Byte)]

ASSUME FramingConstants ==
  /\ Bits \in Nat \ {0} /\ Chunk \in Nat \ {0} /\ MaxSent \in Nat
  /\ NumPieces \in Nat \ {0} /\ Reserved \in Nat
  /\ Proto \in Seq(Byte) /\ InfoHash \in Seq(Byte) /\ PeerId \in Seq(Byte)
  /\ Len(Proto) \in Byte \ {0}
  /\ HandshakeLen = 1 + Len(Proto) + Reserved + Len(InfoHash) + Len(PeerId)
  /\ Requests \subseteq [index : Int32, begin : Int32, len : Int32]
  /\ Messages \subseteq Message
  /\ \A m \in Messages : Len(PeerBytes(m)) < Word

\* Of the binary digits: a byte has room for a message id, and there is a byte
\* for any choice of its bits.
ASSUME ByteAssumption ==
  /\ Base \in Nat /\ PIECE \in Byte
  /\ \A on \in SUBSET (0 .. Bits - 1) : \E byte \in Byte :
       \A k \in 0 .. Bits - 1 : Bit(byte, k) = 1 <=> k \in on

-----------------------------------------------------------------------------
(* The network thread. *)

Init ==
  /\ sock = TRUE /\ state = "CONNECTING"
  /\ recv_buffer = <<>> /\ reading = FALSE
  /\ stream = <<>> /\ got = 0 /\ link = "up" /\ greeted = FALSE
  /\ sent = <<>> /\ ends = <<>> /\ taken = 0 /\ handled = <<>>
  /\ out = <<>> /\ meant = <<>>

\* TcpClient::Send on a blocking socket sends everything or throws; SIGPIPE is
\* in Connection.
Sends(bytes, message) ==
  /\ out' = bytes /\ meant' = message
  /\ UNCHANGED sock

\* The handler that called drops the socket.
Throws == sock' = FALSE

SendThrows == link = "rst" /\ Throws /\ UNCHANGED outVars

OnReadyWrite ==
  /\ sock /\ state = "CONNECTING"
  /\ \/ /\ link # "rst"
        /\ Sends(BuildHandshake, [type |-> "handshake", info_hash |-> InfoHash,
                                  peer_id |-> PeerId])
        /\ state' = "HANDSHAKING"
     \/ SendThrows /\ UNCHANGED state
  /\ UNCHANGED <<recv_buffer, reading, got, peerVars, taken, handled>>

\* OnReadyRead up to ProcessBuffer: a receive returns what has arrived, up to
\* the size asked for.  epoll reports writing before reading, so the handshake
\* has been sent.
Receive ==
  /\ sock /\ state # "CONNECTING" /\ ~reading
  /\ \E n \in 1 .. Len(stream) - got :
       /\ n <= Chunk
       /\ recv_buffer' = recv_buffer \o SubSeq(stream, got + 1, got + n)
       /\ got' = got + n
  /\ reading' = TRUE
  /\ UNCHANGED <<sock, state, peerVars, taken, handled, outVars>>

\* It returns nothing, or throws.
ReceiveFails ==
  /\ sock /\ state # "CONNECTING" /\ ~reading
  /\ got = Len(stream) /\ link # "up"
  /\ Throws
  /\ UNCHANGED <<inVars, got, peerVars, taken, handled, outVars>>

Consume(n) == recv_buffer' = SubSeq(recv_buffer, n + 1, Len(recv_buffer))

ProcessHandshake ==
  /\ sock /\ reading /\ state = "HANDSHAKING"
  /\ Len(recv_buffer) >= HandshakeLen
  /\ Consume(HandshakeLen)
  /\ state' = "DOWNLOADING"
  /\ Sends(BuildInterested, [type |-> "interested"]) \/ SendThrows
  /\ UNCHANGED <<reading, got, peerVars, taken, handled>>

MessageLen == ReadMessageLength(recv_buffer)

ProcessKeepAlive ==
  /\ sock /\ reading /\ state = "DOWNLOADING"
  /\ Len(recv_buffer) >= 4 /\ MessageLen = 0
  /\ Consume(4) /\ taken' = taken + 1
  /\ UNCHANGED <<sock, state, reading, got, peerVars, handled, outVars>>

FrameLen(len) == (4 + len) % Word

\* Faulty variant of Complete: waits for a byte beyond the message.
CompleteAndMore ==
  /\ Len(recv_buffer) >= 4
  /\ MessageLen # 0 => Len(recv_buffer) > FrameLen(MessageLen)

\* Faulty variant of Complete: any bytes after the length are the message.
CompleteEarly == Len(recv_buffer) > 4

Complete ==
  /\ Len(recv_buffer) >= 4
  /\ MessageLen # 0 => Len(recv_buffer) >= FrameLen(MessageLen)

RequestNextBlock ==
  \/ UNCHANGED <<sock, outVars>>
  \/ \E r \in Requests :
       Sends(BuildRequest(r), [type |-> "request", index |-> r.index,
                               begin |-> r.begin, len |-> r.len])
  \/ SendThrows

Handled(m) == handled' = Append(handled, m)

\* The switch over the id.  HAVE and all ids without a case are dropped.
Dispatch(id, payload) ==
  \/ /\ id = UNCHOKE /\ Handled([type |-> "unchoke"])
     /\ RequestNextBlock
  \/ /\ id = BITFIELD
     /\ Handled([type |-> "bitfield", pieces |-> PiecesOf(payload)])
     /\ UNCHANGED <<sock, outVars>>
  \/ /\ id = CHOKE /\ Handled([type |-> "choke"])
     /\ UNCHANGED <<sock, outVars>>
  \/ /\ id = PIECE /\ CanRead32(payload, 0) /\ CanRead32(payload, 4)
     /\ Handled([type |-> "piece", index |-> ReadBE32(payload, 0),
                 begin |-> ReadBE32(payload, 4),
                 data |-> SubSeq(payload, 9, Len(payload))])
     /\ RequestNextBlock
  \/ /\ id = PIECE /\ ~(CanRead32(payload, 0) /\ CanRead32(payload, 4))
     /\ Throws
     /\ UNCHANGED <<handled, outVars>>
  \/ /\ id \notin {UNCHOKE, BITFIELD, CHOKE, PIECE}
     /\ UNCHANGED <<sock, handled, outVars>>

ProcessMessage ==
  /\ sock /\ reading /\ state = "DOWNLOADING"
  /\ Complete /\ MessageLen # 0
  /\ Consume(FrameLen(MessageLen)) /\ taken' = taken + 1
  /\ Dispatch(recv_buffer[5], SubSeq(recv_buffer, 6, FrameLen(MessageLen)))
  /\ UNCHANGED <<state, reading, got, peerVars>>

\* The breaks of the loop: the rest comes with a later receive.
WaitForMore ==
  /\ sock /\ reading
  /\ \/ state = "HANDSHAKING" /\ Len(recv_buffer) < HandshakeLen
     \/ state = "DOWNLOADING" /\ ~Complete
  /\ reading' = FALSE
  /\ UNCHANGED <<sock, state, recv_buffer, got, peerVars, taken, handled, outVars>>

Network == OnReadyWrite \/ Receive \/ ReceiveFails \/ ProcessHandshake
           \/ ProcessKeepAlive \/ ProcessMessage \/ WaitForMore

-----------------------------------------------------------------------------
(* External: the peer. *)

OnlyPeer == UNCHANGED <<sock, inVars, got, taken, handled, outVars>>

PeerGreets ==
  /\ link = "up" /\ ~greeted
  /\ greeted' = TRUE
  /\ stream' = stream \o Greeting
  /\ OnlyPeer /\ UNCHANGED <<link, sent, ends>>

PeerSends(m) ==
  /\ link = "up" /\ greeted /\ Len(sent) < MaxSent
  /\ sent' = Append(sent, m)
  /\ stream' = stream \o PeerBytes(m)
  /\ ends' = Append(ends, Len(stream'))
  /\ OnlyPeer /\ UNCHANGED <<link, greeted>>

PeerCloses ==
  /\ link = "up" /\ link' \in {"fin", "rst"}
  /\ OnlyPeer /\ UNCHANGED <<stream, greeted, sent, ends>>

Next == Network \/ PeerGreets \/ PeerCloses \/ \E m \in Messages : PeerSends(m)

Spec == Init /\ [][Next]_vars

\* The network thread comes to a readable socket, whatever the peer does
\* (PeersAreHeard of module Farm), and a handler does not stop half way.
FairSpec == Spec /\ WF_vars(Network)

-----------------------------------------------------------------------------
(* Properties. *)

\* The type of every variable.
TypeOK ==
  /\ sock \in BOOLEAN /\ reading \in BOOLEAN /\ greeted \in BOOLEAN
  /\ state \in {"CONNECTING", "HANDSHAKING", "DOWNLOADING"}
  /\ link \in {"up", "fin", "rst"}
  /\ recv_buffer \in Seq(Byte) /\ stream \in Seq(Byte) /\ out \in Seq(Byte)
  /\ got \in 0 .. Len(stream)
  /\ sent \in Seq(Messages) /\ handled \in Seq(Messages)
  /\ ends \in Seq(Nat) /\ Len(ends) = Len(sent) /\ taken \in 0 .. Len(sent)

\* The messages ProcessBuffer has a case for and can read.
Heeded == {m \in Messages : m.type \in {"unchoke", "choke", "bitfield", "piece"}}

\* However the stream is cut into receives, the handlers see the messages of
\* the peer: whole, once each, in order, field by field what the peer meant;
\* keep-alives, unknown messages and a PIECE too short to read are not seen.
Stream == INSTANCE MessageStream WITH open <- sock, passed <- taken
ImplementsStream == Stream!StreamSpec

\* Where the k-th message of the peer ends, or the handshake before the first.
EndOf(k) == IF k = 0 THEN HandshakeLen ELSE ends[k]

\* Processing never loses its place: what is in the buffer begins where the last
\* message taken out of it ends, and between two receives it is less than the
\* next message.
Aligned ==
  state = "DOWNLOADING" =>
    /\ recv_buffer = SubSeq(stream, EndOf(taken) + 1, got)
    /\ ~reading => IF taken = Len(sent) THEN got = EndOf(taken)
                                       ELSE got < EndOf(taken + 1)

\* The type invariant and the place in the stream together.
FramingInv == TypeOK /\ Aligned

\* A peer reads in our bytes what we meant: the handshake of this torrent,
\* INTERESTED, and the block RequestNextBlock chose.
PeerUnderstands == out # <<>> => PeerReads(out) = meant

\* Nothing stays behind in the buffer: what the peer has sent in whole is
\* handled without its sending more, unless the connection is dropped.
AllHandled ==
  \A n \in 1 .. MaxSent :
    Len(sent) = n ~>
      \/ ~sock
      \/ Len(handled) >=
           Cardinality({i \in DOMAIN sent : i <= n /\ sent[i] \in Heeded})

=============================================================================

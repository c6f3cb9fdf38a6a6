----------------------------- MODULE Downloader -----------------------------
(***************************************************************************)
(* class Downloader (include/download/downloader.h,                        *)
(* source/download/downloader.cpp): the torrent being downloaded, the one  *)
(* buffer in which a piece is assembled, and the counter from which pieces *)
(* are handed out to connections.  Everything here runs on the network     *)
(* thread, one call at a time; the Writer it hands verified pieces to is   *)
(* seen here only as the sequence of jobs given to add().                  *)
(***************************************************************************)
EXTENDS Integers, Sequences, FiniteSets

CONSTANTS
  Byte,          \* the values of a byte; 0 is what assign(n, 0) fills with
  NumPieces,     \* torrent.piece_hashes.size()
  PieceLength,   \* torrent.piece_length
  Length,        \* torrent.length
  Content,       \* the file the torrent describes, Content[1] at offset 0
  BlockLen,      \* 16384 in the code: the largest block asked for
  HashForm       \* how the digests in torrent.piece_hashes are written

\* A torrent of one file, cut into pieces the usual way.
ASSUME TorrentConstants ==
  /\ 0 \in Byte
  /\ NumPieces \in Nat \ {0}
  /\ PieceLength \in Nat \ {0}
  /\ Length \in Nat \ {0}
  /\ (NumPieces - 1) * PieceLength < Length
  /\ Length <= NumPieces * PieceLength
  /\ Content \in Seq(Byte) /\ Len(Content) = Length
  /\ BlockLen \in Nat \ {0}
  /\ HashForm \in {"hex", "raw"}

VARIABLES
  next_req_index,        \* the next piece to hand out
  downloaded_bytes,      \* bytes counted as verified
  piece_buffer,          \* the piece being assembled
  piece_bytes_received,  \* bytes copied into it
  current_piece_index,   \* which piece it is, -1 before the first
  jobs,                  \* the jobs passed to file_writer.add, in order
  fill,                  \* history: the positions of piece_buffer copied to
  intact                 \* history: positions of each piece received correct

dlVars == <<downloaded_bytes, piece_buffer, piece_bytes_received,
            current_piece_index, jobs, fill, intact>>

-----------------------------------------------------------------------------
(* The torrent. *)

Pieces == 0 .. NumPieces - 1

\* The last piece may be shorter.
PieceLen(i) ==
  IF i = NumPieces - 1 /\ Length % PieceLength # 0
  THEN Length % PieceLength ELSE PieceLength

\* The bytes of the file from offset off on.
Slice(off, len) == SubSeq(Content, off + 1, off + len)

PieceContent(i) == Slice(i * PieceLength, PieceLen(i))

\* Sha1::Calculate writes the digest as hexadecimal digits.  A digest is told
\* apart by its form and by what it is a digest of: no two buffers collide.
Sha1Calculate(buf) == <<"hex", buf>>

\* torrent.piece_hashes[i].  TorrentFile::Load keeps the 20 bytes of the
\* digest as they are in the file ("raw"): that is the program as it is, in which
\* no comparison of OnBlockReceived succeeds.  "hex" is the same program with
\* digests that can be compared: what is behind the comparison is reached only
\* there.
PieceHash(i) == <<HashForm, PieceContent(i)>>

-----------------------------------------------------------------------------
(* The state. *)

DownloaderInit ==
  /\ next_req_index = 0 /\ downloaded_bytes = 0
  /\ piece_buffer = <<>> /\ piece_bytes_received = 0
  /\ current_piece_index = -1
  /\ jobs = <<>> /\ fill = {} /\ intact = [i \in Pieces |-> {}]

IsComplete == downloaded_bytes >= Length

\* std::memcpy(buf + off, data).
Overwrite(buf, off, data) ==
  [k \in 1 .. Len(buf) |->
     IF k > off /\ k <= off + Len(data) THEN data[k - off] ELSE buf[k]]

Positions(off, data) == off + 1 .. off + Len(data)

\* What std::move leaves of a std::vector.
MovedFrom == <<>>

-----------------------------------------------------------------------------
(* OnBlockReceived(piece_index, offset, data). *)

\* Faulty variant of OnBlockReceived: a new piece does not reset the count.
OnBlockNoReset(i, off, data) ==
  LET fresh == i # current_piece_index
      buf0 == IF fresh THEN [k \in 1 .. PieceLen(i) |-> 0] ELSE piece_buffer
      fits == off + Len(data) <= Len(buf0)
      buf1 == IF fits THEN Overwrite(buf0, off, data) ELSE buf0
      rec1 == piece_bytes_received + IF fits THEN Len(data) ELSE 0
      verified == rec1 = Len(buf1) /\ Sha1Calculate(buf1) = PieceHash(i)
  IN
  /\ current_piece_index' = i
  /\ piece_bytes_received' = rec1
  /\ fill' = (IF fresh THEN {} ELSE fill)
             \cup IF fits THEN Positions(off, data) ELSE {}
  /\ IF verified
     THEN /\ jobs' = Append(jobs, [b |-> buf1, offset |-> i * PieceLength])
          /\ piece_buffer' = MovedFrom
     ELSE piece_buffer' = buf1 /\ UNCHANGED jobs
  /\ intact' = IF data = Slice(i * PieceLength + off, Len(data))
               THEN [intact EXCEPT ![i] = @ \cup Positions(off, data)]
               ELSE intact
  /\ UNCHANGED downloaded_bytes

\* Faulty variant of OnBlockReceived: a full piece is written unverified.
OnBlockUnverified(i, off, data) ==
  LET fresh == i # current_piece_index
      buf0 == IF fresh THEN [k \in 1 .. PieceLen(i) |-> 0] ELSE piece_buffer
      rec0 == IF fresh THEN 0 ELSE piece_bytes_received
      fits == off + Len(data) <= Len(buf0)
      buf1 == IF fits THEN Overwrite(buf0, off, data) ELSE buf0
      rec1 == rec0 + IF fits THEN Len(data) ELSE 0
  IN
  /\ current_piece_index' = i
  /\ piece_bytes_received' = rec1
  /\ IF rec1 = Len(buf1)
     THEN /\ jobs' = Append(jobs, [b |-> buf1, offset |-> i * PieceLength])
          /\ piece_buffer' = MovedFrom
     ELSE piece_buffer' = buf1 /\ UNCHANGED jobs
  /\ UNCHANGED <<downloaded_bytes, fill, intact>>

OnBlockReceived(i, off, data) ==
  LET fresh == i # current_piece_index
      buf0 == IF fresh THEN [k \in 1 .. PieceLen(i) |-> 0] ELSE piece_buffer
      rec0 == IF fresh THEN 0 ELSE piece_bytes_received
      fits == off + Len(data) <= Len(buf0)
      buf1 == IF fits THEN Overwrite(buf0, off, data) ELSE buf0
      rec1 == rec0 + IF fits THEN Len(data) ELSE 0
      verified == rec1 = Len(buf1) /\ Sha1Calculate(buf1) = PieceHash(i)
  IN
  /\ current_piece_index' = i
  /\ piece_bytes_received' = rec1
  /\ \/ /\ verified
        /\ jobs' = Append(jobs, [b |-> buf1, offset |-> i * PieceLength])
        /\ piece_buffer' = MovedFrom
        /\ downloaded_bytes' = downloaded_bytes + Len(MovedFrom)
     \/ /\ ~verified
        /\ piece_buffer' = buf1
        /\ UNCHANGED <<jobs, downloaded_bytes>>
  /\ fill' = (IF fresh THEN {} ELSE fill)
             \cup IF fits THEN Positions(off, data) ELSE {}
  /\ intact' = IF data = Slice(i * PieceLength + off, Len(data))
               THEN [intact EXCEPT ![i] = @ \cup Positions(off, data)]
               ELSE intact

=============================================================================

---------------------------- MODULE TorrentFile ----------------------------
(***************************************************************************)
(* TorrentFile::Load (source/parsing/TorrentFile.cpp) and what main does   *)
(* with its result before the tracker is contacted.  The file is made by   *)
(* someone else's program, may be cut short on its way, and is then        *)
(* loaded.                                                                 *)
(*                                                                         *)
(* The keys of the dictionaries stand for the longer ones of the format,   *)
(* with the same order among themselves.                                   *)
(***************************************************************************)
EXTENDS Url

CONSTANTS
  HashLen,       \* 20 in the code: the bytes of a digest
  Made,          \* external: the torrents that may have been made
  Digests        \* external: what SHA1 may return

ANNOUNCE == <<97>>              \* "announce"
INFO == <<105>>                 \* "info"
LENGTH == <<108, 101>>          \* "length"
NAME == <<110>>                 \* "name"
PIECE_LENGTH == <<112>>         \* "piece length"
PIECES == <<112, 115>>          \* "pieces"

\* A torrent as its maker has it: the parts of the announce address (the port
\* and the path may be left out), the fields of info, other entries of the root,
\* and the form it is written in.
ASSUME MadeTorrents ==
  /\ HashLen \in Nat \ {0}
  /\ \A t \in Made :
       /\ DOMAIN t = {"protocol", "host", "port", "path", "info", "extra", "form"}
       /\ t.form \in {"canonical", "unsorted", "padded"}
  /\ \A d \in Digests : Len(d) = HashLen

VARIABLES
  made,      \* external: the torrent
  file,      \* the bytes of the file
  cut,       \* external: whether its end is missing
  torrent,   \* what Load returned, Throw, or NotYet
  url,       \* what Parse made of torrent.announce
  info_hash, \* torrent.info_hash, what SHA1 returned
  query      \* the digest in the request to an http tracker

vars == <<made, file, cut, torrent, url, info_hash, query>>

NoPort == -1

NotYet == [ok |-> FALSE, not_yet |-> TRUE]

-----------------------------------------------------------------------------
(* External: the maker, by the description of the format: a number has its *)
(* decimal digits, a string its length, a dictionary its keys in the order *)
(* of their bytes.  The canonical form is the one the format asks for.     *)

\* Digit k of the numeral of w digits counts the tens to the power w - k.
Numeral(n, form) ==
  LET w == CHOOSE w \in 1 .. 9 : n < 10 ^ w /\ (w > 1 => n >= 10 ^ (w - 1))
      digits == [k \in 1 .. w |-> 48 + ((n \div 10 ^ (w - k)) % 10)]
  IN IF form = "padded" THEN <<48>> \o digits ELSE digits

\* At the first place where they differ a has ended, or has the lesser byte.
Precedes(a, b) ==
  \E k \in DOMAIN b :
    /\ k <= Len(a) + 1
    /\ SubSeq(a, 1, k - 1) = SubSeq(b, 1, k - 1)
    /\ k <= Len(a) => a[k] < b[k]

KeysWritten(f, form) ==
  LET inOrder == SetToSortSeq(DOMAIN f, Precedes) IN
  IF form = "unsorted" THEN Reverse(inOrder) ELSE inOrder

RECURSIVE Written(_, _)
Written(node, form) ==
  CASE IsInt(node) -> <<ci>> \o (IF node.int < 0 THEN <<minus>> ELSE <<>>)
                      \o Numeral(IF node.int < 0 THEN -node.int ELSE node.int, form)
                      \o <<ce>>
    [] IsString(node) -> Numeral(Len(node.str), form) \o <<colon>> \o node.str
    [] IsList(node) ->
         FoldLeft(LAMBDA bytes, item : bytes \o Written(item, form),
                  <<cl>>, node.list) \o <<ce>>
    [] IsDict(node) ->
         FoldLeft(LAMBDA bytes, key : bytes \o Written(StringNode(key), form)
                                            \o Written(node.dict[key], form),
                  <<cd>>, KeysWritten(node.dict, form)) \o <<ce>>

Address(t) ==
  t.protocol \o Separator \o t.host
  \o (IF t.port = NoPort THEN <<>> ELSE <<colon>> \o Numeral(t.port, "canonical"))
  \o t.path

InfoBytes(t) == Written(DictNode(t.info), t.form)

FileBytes(t) ==
  LET root == [k \in {ANNOUNCE, INFO} \cup DOMAIN t.extra |->
                 CASE k = ANNOUNCE -> StringNode(Address(t))
                   [] k = INFO -> DictNode(t.info)
                   [] OTHER -> t.extra[k]]
  IN Written(DictNode(root), t.form)

Init ==
  /\ made \in Made
  /\ file = FileBytes(made) /\ cut = FALSE
  /\ torrent = NotYet /\ url = NotYet /\ info_hash = <<>> /\ query = <<>>

Truncate ==
  /\ torrent = NotYet /\ ~cut
  /\ cut' = TRUE
  /\ \E n \in 0 .. Len(file) - 1 : file' = SubSeq(file, 1, n)
  /\ UNCHANGED <<made, torrent, url, info_hash, query>>

-----------------------------------------------------------------------------
(* Load. *)

\* dict.at(key), then the getter of the alternative: both throw.
HasString(dict, key) == key \in DOMAIN dict /\ IsString(dict[key])
HasInt(dict, key) == key \in DOMAIN dict /\ IsInt(dict[key])

\* Faulty variant of Chunks: the last digest is passed over.
ChunksShort(blob) ==
  [k \in 1 .. (Len(blob) - 1) \div HashLen |->
     SubSeq(blob, (k - 1) * HashLen + 1, k * HashLen)]

Chunks(blob) ==
  [k \in 1 .. Len(blob) \div HashLen |->
     SubSeq(blob, (k - 1) * HashLen + 1, k * HashLen)]

LoadFrom(data) ==
  LET root == Decode(data) IN
  IF ~root.ok THEN Throw ELSE
  IF ~IsDict(root.node) THEN Throw ELSE
  LET rootDict == root.node.dict IN
  IF ~HasString(rootDict, ANNOUNCE) \/ INFO \notin DOMAIN rootDict THEN Throw ELSE
  IF ~IsDict(rootDict[INFO]) THEN Throw ELSE
  LET infoDict == rootDict[INFO].dict IN
  IF \/ ~HasString(infoDict, NAME) \/ ~HasInt(infoDict, PIECE_LENGTH)
     \/ ~HasInt(infoDict, LENGTH) \/ ~HasString(infoDict, PIECES)
  THEN Throw ELSE
  LET piecesBlob == infoDict[PIECES].str IN
  IF Len(piecesBlob) % HashLen # 0 THEN Throw ELSE
  [ok |-> TRUE,
   announce |-> rootDict[ANNOUNCE].str, name |-> infoDict[NAME].str,
   piece_length |-> infoDict[PIECE_LENGTH].int,
   length |-> infoDict[LENGTH].int,
   piece_hashes |-> Chunks(piecesBlob),
   hashed |-> Encode(rootDict[INFO])]          \* info_hash is its SHA1

Load ==
  /\ torrent = NotYet
  /\ torrent' = LoadFrom(file)
  /\ IF torrent'.ok THEN info_hash' \in Digests ELSE UNCHANGED info_hash
  /\ UNCHANGED <<made, file, cut, url, query>>

\* GetPeers: the address is parsed; GetPeersHTTP writes the digest into its
\* request, GetPeersUDP has it in a packet as it is.
GetPeers ==
  /\ torrent.ok /\ url = NotYet
  /\ url' = Parse(torrent.announce)
  /\ IF url'.ok THEN query' = IF url'.protocol = Http THEN UrlEncode(info_hash) ELSE <<>>
     ELSE UNCHANGED query
  /\ UNCHANGED <<made, file, cut, torrent, info_hash>>

Next == Truncate \/ Load \/ GetPeers

Spec == Init /\ [][Next]_vars

-----------------------------------------------------------------------------
(* Properties. *)

\* Single-file torrents whose digests are whole.
Complete(t) ==
  /\ LENGTH \in DOMAIN t.info
  /\ Len(t.info[PIECES].str) % HashLen = 0

\* The whole of a complete single-file torrent loads, whatever else is in its
\* dictionaries, in any order and with numbers in any form, and its fields are
\* what the maker meant.
\* The digests are the pieces' string again, cut evenly.
LoadsWhatWasMade ==
  torrent # NotYet /\ ~cut =>
    /\ torrent.ok <=> Complete(made)
    /\ torrent.ok =>
         /\ torrent.announce = Address(made)
         /\ torrent.name = made.info[NAME].str
         /\ torrent.piece_length = made.info[PIECE_LENGTH].int
         /\ torrent.length = made.info[LENGTH].int
         /\ FlattenSeq(torrent.piece_hashes) = made.info[PIECES].str
         /\ \A k \in DOMAIN torrent.piece_hashes :
              Len(torrent.piece_hashes[k]) = HashLen

\* A file of which the end is missing is refused, wherever it is cut.
TruncatedIsRefused == torrent # NotYet /\ cut => ~torrent.ok

\* What is hashed is byte for byte the info dictionary of the file, if that was
\* written in the canonical form, and only then: the bytes are not kept but
\* encoded again, with the keys in order and the numbers as short as they can be.
HashesTheFile ==
  torrent.ok =>
    (torrent.hashed = InfoBytes(made) <=> made.form = "canonical")

\* The address is taken apart into what it was composed of.
UrlTakenApart ==
  url # NotYet =>
    url = [ok |-> TRUE, protocol |-> made.protocol, host |-> made.host,
           port |-> IF made.port = NoPort THEN DefaultPort(made.protocol)
                    ELSE made.port,
           path |-> IF made.path = <<>> THEN <<slash>> ELSE made.path]

\* What a tracker reads a query value as: the inverse of percent-encoding.
HexValue(c) == IF IsDigit(c) THEN c - 48 ELSE c - 97 + 10

RECURSIVE PercentDecode(_)
PercentDecode(s) ==
  CASE s = <<>> -> <<>>
    [] s # <<>> /\ s[1] # percent -> <<s[1]>> \o PercentDecode(Tail(s))
    [] s # <<>> /\ s[1] = percent ->
         IF Len(s) < 3 THEN <<>>
         ELSE <<16 * HexValue(s[2]) + HexValue(s[3])>>
              \o PercentDecode(Onward(s, 4))

\* The tracker reads in the request the digest that was computed.
TrackerReadsDigest ==
  url.ok /\ made.protocol = Http => PercentDecode(query) = info_hash

=============================================================================

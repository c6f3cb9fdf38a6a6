-------------------------------- MODULE Url --------------------------------
(***************************************************************************)
(* Url::Parse (source/tracker/Url.cpp) and Tracker::UrlEncode              *)
(* (source/tracker/tracker.cpp): what the announce address is taken apart  *)
(* into, and how bytes are written in a request.                           *)
(***************************************************************************)
EXTENDS Bencode

CONSTANTS Http, Udp      \* the protocol names, as bytes

slash == 47
percent == 37
Separator == <<colon, slash, slash>>       \* "://"

\* Where s.find(d) finds d, 0 for npos.
Find(s, d) ==
  LET at == {k \in 1 .. Len(s) - Len(d) + 1 : SubSeq(s, k, k + Len(d) - 1) = d}
  IN IF at = {} THEN 0 ELSE CHOOSE k \in at : \A j \in at : k <= j

Upto(s, k) == SubSeq(s, 1, k - 1)

DefaultPort(protocol) == IF protocol \in {Http, Udp} THEN 80 ELSE 6969

\* Faulty variant of SplitPort: the colon is looked for in the path as well.
SplitPortAnywhere(rest) == Find(rest, <<colon>>)

SplitPort(rest) ==
  LET p == Find(rest, <<slash>>) IN
  Find(IF p = 0 THEN rest ELSE Upto(rest, p), <<colon>>)

Parse(url) ==
  LET p == Find(url, Separator)
      protocol == Upto(url, p)
      rest == Onward(url, p + 3)
      q == Find(rest, <<slash>>)
      authority == IF q = 0 THEN rest ELSE Upto(rest, q)
      c == SplitPort(rest)
      port == StringToInt(Onward(authority, c + 1), Int32)
  IN
  IF p = 0 \/ (c # 0 /\ ~port.ok) THEN Throw
  ELSE [ok |-> TRUE, protocol |-> protocol,
        host |-> IF c = 0 THEN authority ELSE Upto(authority, c),
        port |-> IF c = 0 THEN DefaultPort(protocol) ELSE port.val,
        path |-> IF q = 0 THEN <<slash>> ELSE Onward(rest, q)]

-----------------------------------------------------------------------------

\* isalnum in the "C" locale, and - _ . ~
Unreserved(c) ==
  IsDigit(c) \/ c \in 65 .. 90 \/ c \in 97 .. 122 \/ c \in {45, 95, 46, 126}

HexDigit(d) == IF d < 10 THEN 48 + d ELSE 97 + d - 10

\* Faulty variant of Hex: no leading zero, as without setw(2).
HexUnpadded(c) ==
  IF c < 16 THEN <<HexDigit(c)>> ELSE <<HexDigit(c \div 16), HexDigit(c % 16)>>

\* std::hex with setw(2) and fill '0'
Hex(c) == <<HexDigit(c \div 16), HexDigit(c % 16)>>

UrlEncode(buffer) ==
  FlattenSeq([k \in DOMAIN buffer |->
    IF Unreserved(buffer[k]) THEN <<buffer[k]>>
    ELSE <<percent>> \o Hex(buffer[k])])

=============================================================================

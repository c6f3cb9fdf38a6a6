----------------------------- MODULE HttpAnswer -----------------------------
(***************************************************************************)
(* What GetPeersHTTP (source/tracker/tracker.cpp) reads in what its one    *)
(* receive returned: any beginning of the answer of the tracker.           *)
(***************************************************************************)
EXTENDS Url

HeaderEnd == <<13, 10, 13, 10>>                      \* "\r\n\r\n"
PEERS == <<112, 101, 101, 114, 115>>                 \* "peers"

\* Six bytes each; what is left over at the end is not looked at.  An address is
\* its four numbers.
PeersInBlob(bin) ==
  [k \in 1 .. Len(bin) \div 6 |->
     LET i == 6 * (k - 1) IN
     [ip |-> SubSeq(bin, i + 1, i + 4), port |-> 256 * bin[i + 5] + bin[i + 6]]]

\* An exception of the decoder is caught.
PeersInBody(body) ==
  LET root == Decode(body) IN
  IF ~root.ok THEN <<>> ELSE
  IF ~IsDict(root.node) THEN <<>> ELSE
  LET dict == root.node.dict IN
  IF PEERS \notin DOMAIN dict THEN <<>> ELSE
  IF ~IsString(dict[PEERS]) THEN <<>> ELSE PeersInBlob(dict[PEERS].str)

PeersInResponse(response) ==
  LET header_end == Find(response, HeaderEnd) IN
  IF header_end = 0 THEN <<>> ELSE PeersInBody(Onward(response, header_end + 4))

=============================================================================

--------------------------- MODULE MCTorrentFile ---------------------------
(***************************************************************************)
(* Torrents with 0 to 2 digests of 2 bytes, one of which is cut; names and *)
(* digests that hold characters of the format itself; other entries before *)
(* and after the known ones: a list, a nested dictionary, a negative       *)
(* number; in the canonical form, with the keys in the reverse order, and  *)
(* with a zero before every number.                                        *)
(***************************************************************************)
EXTENDS TorrentFile

MCHttp == <<104>>
MCUdp == <<117>>

MCDigests == { <<0, 255>>, <<10, 97>>, <<37, 126>> }

Nested == ListNode(<<DictNode(Put(EmptyDict, <<98>>, IntNode(-10))),
                     StringNode(<<>>), ListNode(<<>>)>>)

MCInfos ==
  LET base == Put(Put(EmptyDict, NAME, StringNode(<<101, 58>>)),
                  PIECE_LENGTH, IntNode(16))
      whole == {Put(base, PIECES, StringNode(p)) :
                  p \in { <<>>, <<101, 105, 0, 255>>, <<1, 2, 3>> }}
      single == {Put(i, LENGTH, IntNode(20)) : i \in whole}
  IN whole \cup single \cup {Put(i, <<112, 97>>, Nested) : i \in single}

MCMade ==
  [ protocol : {MCHttp, MCUdp, <<104, 115>>},
    host : {<<116>>},
    port : {NoPort, 0, 6969},
    path : {<<>>, <<47>>, <<47, 97, 58, 49>>},
    info : MCInfos,
    extra : {EmptyDict, Put(EmptyDict, <<99>>, Nested)},
    form : {"canonical", "unsorted", "padded"} ]
=============================================================================

------------------------------- MODULE MCFarm -------------------------------
(***************************************************************************)
(* A torrent of 5 bytes in two pieces, of blocks 2 + 1 and 2 bytes: the    *)
(* last block of a piece and the last piece are both short.  Peer 1 has    *)
(* the whole file; peer 2 all of it or one piece, and may get the rest     *)
(* later.                                                                  *)
(***************************************************************************)
EXTENDS Farm

MCContent == <<1, 0, 1, 1, 0>>
TwoPeers == 1 .. 2
OnePeer == {1}

BothHaveAll == [c \in Conns |-> Pieces]
SecondHasFirst == [c \in Conns |-> IF c = 1 THEN Pieces ELSE {0}]
SecondHasLast == [c \in Conns |-> IF c = 1 THEN Pieces ELSE {NumPieces - 1}]
NoGains == [c \in Conns |-> {}]
SecondGainsRest == [c \in Conns |-> IF c = 1 THEN {} ELSE Pieces]
=============================================================================

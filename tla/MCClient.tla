------------------------------ MODULE MCClient ------------------------------
(***************************************************************************)
(* The torrent of MCFarm, one peer.  A piece of 3 bytes goes through the   *)
(* buffer of the stream, the last piece, of 2 bytes, stays in it.          *)
(***************************************************************************)
EXTENDS Client

MCContent == <<1, 0, 1, 1, 0>>
OnePeer == {1}
HasAll == [c \in Conns |-> Pieces]
NoGains == [c \in Conns |-> {}]
=============================================================================

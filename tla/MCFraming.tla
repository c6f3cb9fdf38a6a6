----------------------------- MODULE MCFraming -----------------------------
(***************************************************************************)
(* Bytes of 3 bits, so that the numbers below take one, two and three of   *)
(* them, and a bitfield of 5 pieces takes two with a spare bit.            *)
(***************************************************************************)
EXTENDS Framing

MCProto == <<5, 3>>
MCInfoHash == <<1, 6>>
MCPeerId == <<7>>

MCMessages ==
  { [type |-> "keepalive"], [type |-> "unchoke"], [type |-> "choke"],
    [type |-> "have", index |-> 2],
    [type |-> "bitfield", pieces |-> {0, 1, 3}],
    [type |-> "piece", index |-> 1, begin |-> 70, data |-> <<0, 4>>],
    [type |-> "piece", index |-> 3, begin |-> 0, data |-> <<7>>],
    [type |-> "stub", index |-> 1] }

MCRequests == { [index |-> 4, begin |-> 70, len |-> 8] }
=============================================================================

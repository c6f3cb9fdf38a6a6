----------------------------- MODULE MCTracker -----------------------------
(***************************************************************************)
(* A tracker of four peers.  A datagram holds three and a half of them;    *)
(* errors are too short for a connect answer, as long as an announce       *)
(* answer, and longer.  The numbers of the peers contain the characters of *)
(* the format, and the end of a header.  Of the HTTP answers three are in  *)
(* the form asked for: alone, after another entry, and between two, which  *)
(* is longer than what the one receive asks for.                           *)
(***************************************************************************)
EXTENDS Tracker

H == INSTANCE HttpAnswer
       WITH Int32 <- 10000, Int64 <- 1000000, Http <- <<104>>, Udp <- <<117>>

MCHttpPeers(response) == H!PeersInResponse(response)

MCBlob == << 10,0,0,1, 26,225,  13,10,13,10, 0,80,
             100,49,58,101, 101,101,  108,105,57,101, 58,0 >>

MCList == << [ip |-> <<10, 0, 0, 1>>, port |-> 6881],
             [ip |-> <<13, 10, 13, 10>>, port |-> 80],
             [ip |-> <<100, 49, 58, 101>>, port |-> 25957],
             [ip |-> <<108, 105, 57, 101>>, port |-> 14848] >>

Header == <<79, 75, 13, 10, 13, 10>>                          \* "OK"
PeersKey == <<53, 58, 112, 101, 101, 114, 115>>               \* "5:peers"
PeersEntry == PeersKey \o <<50, 52, 58>> \o MCBlob            \* "24:"
Interval == <<51,58,105,110,116, 105,57,101>>                 \* "3:int" "i9e"
TrackerId == <<51,58,116,105,100, 49,58,120>>                 \* "3:tid" "1:x"

MCResponses ==
  [ compact |-> Header \o <<100>> \o PeersEntry \o <<101>>,
    entries |-> Header \o <<100>> \o Interval \o PeersEntry \o <<101>>,
    long |-> Header \o <<100>> \o Interval \o PeersEntry \o TrackerId \o <<101>>,
    dictionaries |-> Header \o <<100>> \o PeersKey \o
      <<108, 100, 50,58,105,112, 49,58,49, 52,58,112,111,114,116, 105,56,101,
        101, 101, 101>>,                            \* "ld2:ip1:14:porti8eee"
    failure |-> Header \o <<100, 54,58,114,101,97,115,111,110, 50,58,110,111,
                            101>>,                           \* "6:reason2:no"
    html |-> Header \o <<60, 104, 62>>,                             \* "<h>"
    chunked |-> Header \o <<50,52, 13,10, 100>> \o PeersEntry \o <<101>> ]
=============================================================================

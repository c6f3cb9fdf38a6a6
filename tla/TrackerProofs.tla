--------------------------- MODULE TrackerProofs ---------------------------
(***************************************************************************)
(* Proofs about the announce of the module Tracker, for any list of peers, *)
(* any ids, any sizes of datagrams and answers.                            *)
(***************************************************************************)
EXTENDS Tracker, TLAPS

\* The stale answer is no answer to a request of this exchange.
LEMMA StaleIsOld ==
  /\ Stale.action = "connect" /\ Stale.tid \notin Tids /\ Stale.cid \notin Cids
  /\ NoId \notin Tids /\ NoId \notin Cids
BY TrackerConstants DEF Stale, NoId

\* A datagram holds as many peers as fit into it, at six bytes each.
LEMMA PeersThatFit ==
  (LeastOf(AnnounceLen, MaxUdp) - 20) \div 6
    = LeastOf(Len(List), (MaxUdp - 20) \div 6)
<1>1. Len(List) \in Nat /\ MaxUdp \in Nat
  BY TrackerConstants
<1>2. ASSUME NEW l \in Nat, NEW m \in Nat
      PROVE  (LeastOf(20 + 6 * l, m) - 20) \div 6 = LeastOf(l, (m - 20) \div 6)
  <2>1. CASE 20 + 6 * l <= m
    BY <2>1 DEF LeastOf
  <2>2. CASE ~(20 + 6 * l <= m)
    BY <2>2 DEF LeastOf
  <2> QED BY <2>1, <2>2
<1> QED BY <1>1, <1>2 DEF AnnounceLen

\* What the calls and the network leave in the types.
LEMMA MoreIssued ==
  ASSUME TypeOK, issued \subseteq issued'
  PROVE  /\ Datagram \subseteq Datagram' /\ UdpRequest \subseteq UdpRequest'
BY DEF Datagram, UdpRequest, AnnounceLen, Stale

LEMMA TrackerInit == Init => TrackerInv
BY TrackerConstants
DEF Init, TrackerInv, TypeOK, CallInv, CleanGivesPeers,
    Datagram, UdpRequest, HttpCalls, UdpCalls, Ends, NoId

-----------------------------------------------------------------------------
(* One lemma per group of calls. *)

LEMMA HttpKeeps ==
  ASSUME TrackerInv, Dispatch \/ TcpClient \/ HttpSend \/ HttpReceive
  PROVE  TrackerInv'
<1> USE DEF TrackerInv, localVars, trackerVars, Goto, Fault
<1> USE DEF HttpCalls, UdpCalls, Ends
<1>1. CASE Dispatch
  <2>1. TypeOK'
    BY <1>1 DEF Dispatch, Throw, TypeOK, Datagram, UdpRequest
  <2>2. (CallInv /\ CleanGivesPeers)'
    BY <1>1 DEF Dispatch, Throw, TypeOK, CallInv, CleanGivesPeers
  <2> QED BY <2>1, <2>2
<1>2. CASE TcpClient
  <2>1. TypeOK'
    BY <1>2 DEF TcpClient, Throw, TypeOK, Datagram, UdpRequest
  <2>2. (CallInv /\ CleanGivesPeers)'
    BY <1>2 DEF TcpClient, Throw, TypeOK, CallInv, CleanGivesPeers
  <2> QED BY <2>1, <2>2
<1>3. CASE HttpSend
  <2>1. TypeOK'
    BY <1>3 DEF HttpSend, Throw, TypeOK, Datagram, UdpRequest
  <2>2. (CallInv /\ CleanGivesPeers)'
    BY <1>3 DEF HttpSend, Throw, TypeOK, CallInv, CleanGivesPeers
  <2> QED BY <2>1, <2>2
<1>4. CASE HttpReceive
  <2>1. TypeOK'
    BY <1>4 DEF HttpReceive, Throw, TypeOK, Datagram, UdpRequest
  <2>2. CallInv'
    BY <1>4 DEF HttpReceive, Throw, TypeOK, CallInv
  <2>3. CleanGivesPeers'
    <3>1. protocol' = "http" /\ answer # "none"
      BY <1>4 DEF HttpReceive, CallInv
    <3> DEFINE response == Responses[answer]
    <3>2. ASSUME NEW n \in 1 .. LeastOf(Len(response), MaxHttp),
                 answer # "closed",
                 result' = HttpPeers(SubSeq(response, 1, n)),
                 faulty' = (faulty \/ n < Len(response)),
                 ~faulty'
          PROVE  result' = List
      <4>1. ~faulty /\ ~(n < Len(response))
        <5>1. faulty \in BOOLEAN
          BY DEF TypeOK
        <5> QED BY <3>2, <5>1, Zenon
      <4>2. answer \in GoodAnswers
        BY <3>1, <4>1 DEF CallInv
      <4>3. response \in Seq(0 .. 255) /\ HttpPeers(response) = List
        BY <4>2, TrackerConstants
      <4>4. n = Len(response)
        <5> HIDE DEF response
        <5> QED BY <4>1, <4>3, TrackerConstants DEF LeastOf
      <4>5. SubSeq(response, 1, n) = response
        <5> HIDE DEF response
        <5> QED BY <4>3, <4>4
      <4> QED BY <3>2, <4>3, <4>5
    <3>3. \/ faulty'
          \/ \E n \in 1 .. LeastOf(Len(response), MaxHttp) :
               /\ answer # "closed"
               /\ result' = HttpPeers(SubSeq(response, 1, n))
               /\ faulty' = (faulty \/ n < Len(response))
      BY <1>4 DEF HttpReceive, Throw
    <3>4. ~faulty' => result' = List
      BY <3>2, <3>3
    <3> QED BY <3>1, <3>4 DEF CleanGivesPeers
  <2> QED BY <2>1, <2>2, <2>3
<1> QED BY <1>1, <1>2, <1>3, <1>4

LEMMA UdpSendKeeps ==
  ASSUME TrackerInv, UdpSocket \/ SendConnect \/ SendAnnounce \/ Timeout
  PROVE  TrackerInv'
<1> USE DEF TrackerInv, localVars, trackerVars, Goto, Fault, Catch
<1> USE DEF HttpCalls, UdpCalls, Ends
<1>1. CASE UdpSocket \/ Timeout
  <2>1. TypeOK'
    BY <1>1 DEF UdpSocket, Timeout, TypeOK, Datagram, UdpRequest
  <2>2. (CallInv /\ CleanGivesPeers)'
    BY <1>1 DEF UdpSocket, Timeout, TypeOK, CallInv, CleanGivesPeers
  <2> QED BY <2>1, <2>2
<1>2. CASE SendConnect
  <2>1. TypeOK'
    <3>1. transaction_id' \in Tids /\ Datagram' = Datagram
      BY <1>2 DEF SendConnect, Datagram
    <3>2. requests' \subseteq {[action |-> "GET"]} \cup UdpRequest'
      BY <1>2 DEF SendConnect, TypeOK, UdpRequest
    <3> QED BY <1>2, <3>1, <3>2 DEF SendConnect, TypeOK
  <2>2. (CallInv /\ CleanGivesPeers)'
    BY <1>2 DEF SendConnect, TypeOK, CallInv, CleanGivesPeers
  <2> QED BY <2>1, <2>2
<1>3. CASE SendAnnounce
  <2>1. TypeOK'
    <3>1. transaction_id \in Tids /\ connection_id \in issued
      BY <1>3 DEF SendAnnounce, CallInv
    <3>2. Datagram' = Datagram
      BY <1>3 DEF SendAnnounce, Datagram
    <3>3. requests' \subseteq {[action |-> "GET"]} \cup UdpRequest'
      BY <1>3, <3>1 DEF SendAnnounce, TypeOK, UdpRequest
    <3> QED BY <1>3, <3>2, <3>3 DEF SendAnnounce, TypeOK
  <2>2. (CallInv /\ CleanGivesPeers)'
    BY <1>3 DEF SendAnnounce, TypeOK, CallInv, CleanGivesPeers
  <2> QED BY <2>1, <2>2
<1> QED BY <1>1, <1>2, <1>3

\* The connection id of an answer that is accepted was issued in this exchange,
\* and an announce answer holds the peers that fit.
LEMMA UdpReceiveKeeps ==
  ASSUME TrackerInv, RecvConnect \/ RecvAnnounce
  PROVE  TrackerInv'
<1> USE DEF TrackerInv, trackerVars, Goto, Fault, Catch, Arrives
<1>1. CASE RecvConnect
  <2> PICK d \in net :
         /\ Arrives(d)
         /\ \/ /\ ConnectAnswer(d)
               /\ connection_id' = CidIn(d)
               /\ Goto("sendAnnounce")
               /\ UNCHANGED <<fd, faulty>>
            \/ ~ConnectAnswer(d) /\ Catch /\ UNCHANGED connection_id
    BY <1>1 DEF RecvConnect
  <2>1. pc = "recvConnect"
        /\ UNCHANGED <<protocol, transaction_id, result, requests, trackerVars>>
    BY <1>1 DEF RecvConnect
  <2>2. ConnectAnswer(d) => CidIn(d) \in issued
    <3> SUFFICES ASSUME ConnectAnswer(d) PROVE CidIn(d) \in issued
      OBVIOUS
    <3>1. d.action = "connect" /\ d.tid \in Tids
      BY <2>1 DEF ConnectAnswer, CallInv
    <3>2. d \in [action : {"connect"}, tid : Tids, cid : issued, len : {16}]
      BY <3>1, StaleIsOld DEF TypeOK, Datagram
    <3> QED BY <3>1, <3>2 DEF CidIn
  <2>3. net' \subseteq net
    OBVIOUS
  <2>4. TypeOK'
    BY <2>1, <2>2, <2>3 DEF TypeOK, Datagram, UdpRequest, UdpCalls, Ends
  <2>5. (CallInv /\ CleanGivesPeers)'
    BY <2>1, <2>2
    DEF TypeOK, CallInv, CleanGivesPeers, HttpCalls,
        UdpCalls, Ends
  <2> QED BY <2>4, <2>5
<1>2. CASE RecvAnnounce
  <2> PICK d \in net :
         /\ Arrives(d)
         /\ \/ /\ d.len >= 20
               /\ result' = PeersIn(d)
               /\ Goto("returned") /\ fd' = "closed"
               /\ faulty' = (faulty \/ d.action # "announce")
            \/ d.len < 20 /\ Catch /\ UNCHANGED result
    BY <1>2 DEF RecvAnnounce
  <2>1. /\ pc = "recvAnnounce"
        /\ UNCHANGED <<protocol, transaction_id, connection_id, requests,
                       trackerVars>>
    BY <1>2 DEF RecvAnnounce
  <2>2. net' \subseteq net /\ protocol = "udp"
    BY <2>1 DEF CallInv, UdpCalls
  <2>3. TypeOK'
    BY <2>1, <2>2 DEF TypeOK, Datagram, UdpRequest, Ends
  <2>4. CallInv'
    BY <2>1 DEF TypeOK, CallInv, HttpCalls, UdpCalls, Ends
  <2>5. CleanGivesPeers'
    <3> SUFFICES ASSUME ~faulty'
                 PROVE  result' =
                          SubSeq(List, 1, LeastOf(Len(List), (MaxUdp - 20) \div 6))
      BY <2>1, <2>2 DEF CleanGivesPeers
    <3>1. d.action = "announce" /\ result' = PeersIn(d)
      OBVIOUS
    <3>2. d.len = AnnounceLen
      BY <3>1, StaleIsOld DEF TypeOK, Datagram
    <3> QED BY <3>1, <3>2, PeersThatFit DEF PeersIn
  <2> QED BY <2>3, <2>4, <2>5
<1> QED BY <1>1, <1>2

\* The tracker issues ids and answers; the network loses.
LEMMA TrackerKeeps ==
  ASSUME TrackerInv,
         \/ AnswerHttp
         \/ \E r \in requests : AnswerUdp(r)
         \/ \E d \in net : Lose(d)
  PROVE  TrackerInv'
<1> USE DEF TrackerInv, localVars, trackerVars, Fault, OnlyTracker
<1>0. OnlyTracker
  BY DEF AnswerHttp, AnswerUdp, Lose
<1>1. issued \subseteq issued' /\ issued' \subseteq Cids
  BY DEF AnswerHttp, AnswerUdp, Lose, TypeOK
<1>2. net' \subseteq Datagram'
  <2>1. net \subseteq Datagram'
    BY <1>1, MoreIssued DEF TypeOK
  <2>2. ASSUME NEW r \in requests, AnswerUdp(r) PROVE net' \subseteq Datagram'
    <3>1. r.action \in {"connect", "announce"} => r.tid \in Tids
      BY DEF TypeOK, UdpRequest
    <3>2. ASSUME r.action = "connect", NEW c \in Cids \ issued,
                 issued' = issued \cup {c},
                 net' = net \cup {[action |-> "connect", tid |-> r.tid,
                                   cid |-> c, len |-> 16]}
          PROVE  net' \subseteq Datagram'
      BY <2>1, <3>1, <3>2 DEF Datagram
    <3>3. CASE /\ r.action = "announce"
               /\ net' = net \cup {[action |-> "announce", tid |-> r.tid,
                                    len |-> AnnounceLen]}
      BY <2>1, <3>1, <3>3 DEF Datagram, AnnounceLen
    <3>4. ASSUME r.action \in {"connect", "announce"}, NEW text \in ErrorLens,
                 net' = net \cup {[action |-> "error", tid |-> r.tid,
                                   len |-> 8 + text]}
          PROVE  net' \subseteq Datagram'
      <4>1. 8 + text \in Nat
        BY TrackerConstants
      <4> QED BY <2>1, <3>1, <3>4, <4>1 DEF Datagram
    <3> QED BY <2>2, <3>2, <3>3, <3>4 DEF AnswerUdp
  <2> QED BY <2>1, <2>2 DEF AnswerHttp, Lose
<1>3. requests' \subseteq {[action |-> "GET"]} \cup UdpRequest'
  BY <1>0, <1>1, MoreIssued DEF TypeOK
<1>4. /\ faulty' \in BOOLEAN /\ (faulty => faulty')
      /\ answer' \in DOMAIN Responses \cup {"none", "closed"}
      /\ ~faulty /\ ~faulty' => answer' \in GoodAnswers \cup {"none"}
  BY DEF AnswerHttp, AnswerUdp, Lose, TypeOK, CallInv
<1>5. TypeOK'
  BY <1>0, <1>1, <1>2, <1>3, <1>4 DEF TypeOK
<1>6. CallInv'
  BY <1>0, <1>1, <1>4 DEF CallInv, TypeOK
<1>7. CleanGivesPeers'
  BY <1>0, <1>4 DEF CleanGivesPeers, TypeOK
<1> QED BY <1>5, <1>6, <1>7

LEMMA TrackerStep == TrackerInv /\ [Next]_vars => TrackerInv'
<1> SUFFICES ASSUME TrackerInv, [Next]_vars PROVE TrackerInv'
  OBVIOUS
<1>1. CASE UNCHANGED vars
  BY <1>1 DEF vars, localVars, trackerVars, TrackerInv, TypeOK, CallInv,
              CleanGivesPeers, Datagram, UdpRequest
<1> QED BY <1>1, HttpKeeps, UdpSendKeeps, UdpReceiveKeeps, TrackerKeeps
        DEF Next, Client

-----------------------------------------------------------------------------

\* The inductive invariant of GetPeers.
THEOREM TrackerInvariant == Spec => []TrackerInv
BY TrackerInit, TrackerStep, PTL DEF Spec

\* On every path out of GetPeers, exceptions included, the socket is closed.
THEOREM NoSocketLeaks == Spec => []NoSocketLeft
<1>1. TrackerInv => NoSocketLeft
  BY DEF TrackerInv, CallInv, NoSocketLeft, HttpCalls, UdpCalls
<1> QED BY <1>1, TrackerInvariant, PTL

\* Whatever arrives first at the UDP socket, an announce carries a connection
\* id that the tracker has issued in this exchange.
THEOREM AnnounceIsAnswerable == Spec => []AnnounceUsesIssuedId
<1>1. TrackerInv => AnnounceUsesIssuedId
  BY DEF TrackerInv, TypeOK, UdpRequest, AnnounceUsesIssuedId
<1> QED BY <1>1, TrackerInvariant, PTL

\* A call during which nothing failed returns the peers of the tracker: over UDP
\* as many as fit into the largest datagram taken; over HTTP all, given that the
\* decoder understands a whole answer (TrackerConstants).
THEOREM CleanCallGivesPeers == Spec => []CleanGivesPeers
<1>1. TrackerInv => CleanGivesPeers
  BY DEF TrackerInv
<1> QED BY <1>1, TrackerInvariant, PTL

=============================================================================

------------------------------ MODULE Tracker ------------------------------
(***************************************************************************)
(* Tracker::GetPeers (source/tracker/tracker.cpp) over its two transports: *)
(* the HTTP announce on class TcpClient (source/tracker/transport.cpp) and *)
(* the UDP announce on a socket of its own.  One call, made once by main   *)
(* before there is any other thread.                                       *)
(*                                                                         *)
(* External: the tracker, which may refuse, fail, answer with an error, or *)
(* not at all; the network, which loses, delays, reorders and duplicates   *)
(* datagrams and cuts the TCP stream where it likes.  What is read in an   *)
(* HTTP answer is the module HttpAnswer; here it is the operator HttpPeers. *)
(***************************************************************************)
EXTENDS Integers, Sequences, FiniteSets

CONSTANTS
  List,          \* external: the peers the tracker has, in its order
  Tids,          \* what RandomTransactionID may return
  StaleTid,      \* external: the transaction of an earlier exchange
  Cids,          \* external: the connection ids the tracker may issue
  StaleCid,      \* external: one issued in the earlier exchange
  ErrorLens,     \* external: the lengths of the tracker's error messages
  MaxUdp,        \* 1024 in the code: the largest datagram taken
  MaxHttp,       \* 8192 in the code: what the one receive asks for
  Text,          \* six bytes of the text of an error, read as a peer
  Responses,     \* external: the bytes of the HTTP answers, by name
  GoodAnswers,   \* external: those with the peers in the form asked for
  HttpPeers(_)   \* the peers read in a beginning of an answer

\* Ids are drawn at random from 32 bits: the one drawn is not the stale one.
\* A whole answer in the form asked for is understood.
ASSUME TrackerConstants ==
  /\ List \in Seq({List[k] : k \in DOMAIN List})
  /\ StaleTid \notin Tids /\ StaleCid \notin Cids
  /\ Cids \subseteq Nat \ {0} /\ Tids \subseteq Nat \ {0}
  /\ ErrorLens \subseteq Nat
  /\ MaxUdp \in Nat \ {0} /\ MaxHttp \in Nat \ {0}
  /\ \A a \in DOMAIN Responses : Responses[a] \in Seq(0 .. 255) \ {<<>>}
  /\ GoodAnswers \subseteq DOMAIN Responses
  /\ DOMAIN Responses \cap {"none", "closed"} = {}
  /\ \A a \in GoodAnswers : HttpPeers(Responses[a]) = List

VARIABLES
  protocol,       \* of the announce URL
  pc,             \* the call GetPeers is at; "returned" or "threw" at the end
  fd,             \* the socket: "none", "open", "closed"
  transaction_id,
  connection_id,
  result,         \* the peers returned
  net,            \* external: datagrams on their way to the client
  requests,       \* external: those that have been sent to the tracker
  issued,         \* external: connection ids the tracker has issued
  answer,         \* external: its HTTP answer, "none" before it
  faulty          \* history: something has failed, was lost or came late

localVars == <<transaction_id, connection_id, result>>
trackerVars == <<issued, answer>>
vars == <<protocol, pc, fd, localVars, net, requests, trackerVars, faulty>>

NoId == 0
NotAnId == -1       \* what the text of an error is as a number
Stale == [action |-> "connect", tid |-> StaleTid, cid |-> StaleCid, len |-> 16]

Init ==
  /\ protocol \in {"http", "udp", "https"}
  /\ pc = "GetPeers" /\ fd = "none"
  /\ transaction_id = NoId /\ connection_id = NoId /\ result = <<>>
  /\ net \in {{}, {Stale}}
  /\ requests = {} /\ issued = {} /\ answer = "none" /\ faulty = FALSE

-----------------------------------------------------------------------------
(* Where a call leads. *)

Goto(l) == pc' = l
Fault == faulty' = TRUE

\* Faulty variant of Catch: the handler only reports.
CatchOnly == Goto("returned") /\ Fault /\ UNCHANGED fd

\* The catch of GetPeersUDP.
Catch ==
  /\ Goto("returned") /\ Fault
  /\ fd' = IF fd = "open" THEN "closed" ELSE fd

\* GetPeersHTTP lets exceptions through; the client object is destroyed on the
\* way.  When connect fails the constructor has closed the socket itself and
\* ~Transport closes the same number again.
Throw ==
  /\ Goto("threw") /\ Fault
  /\ fd' = IF fd = "open" THEN "closed" ELSE fd

\* Dispatch on the protocol.
Dispatch ==
  /\ pc = "GetPeers"
  /\ \/ protocol = "http" /\ Goto("TcpClient") /\ UNCHANGED <<fd, faulty>>
     \/ protocol = "udp" /\ Goto("socket") /\ UNCHANGED <<fd, faulty>>
     \/ protocol \notin {"http", "udp"} /\ Throw
  /\ UNCHANGED <<protocol, localVars, net, requests, trackerVars>>

-----------------------------------------------------------------------------
(* GetPeersHTTP. *)

\* The constructor: getaddrinfo, socket, connect.
TcpClient ==
  /\ pc = "TcpClient"
  /\ \/ fd' = "open" /\ Goto("Send") /\ UNCHANGED faulty
     \/ Throw
     \/ fd' = "closed" /\ Goto("threw") /\ Fault
  /\ UNCHANGED <<protocol, localVars, net, requests, trackerVars>>

HttpSend ==
  /\ pc = "Send"
  /\ \/ Goto("Receive") /\ requests' = {[action |-> "GET"]}
        /\ UNCHANGED <<fd, faulty>>
     \/ Throw /\ UNCHANGED requests
  /\ UNCHANGED <<protocol, localVars, net, trackerVars>>

LeastOf(a, b) == IF a <= b THEN a ELSE b

\* One receive.  It takes what is there, and has no timeout.  Leaving the
\* function destroys client, which closes the socket.
HttpReceive ==
  /\ pc = "Receive" /\ answer # "none"
  /\ \/ /\ answer # "closed"
        /\ LET response == Responses[answer] IN
           \E n \in 1 .. LeastOf(Len(response), MaxHttp) :
             /\ result' = HttpPeers(SubSeq(response, 1, n))
             /\ faulty' = (faulty \/ n < Len(response))
        /\ Goto("returned") /\ fd' = "closed"
     \/ answer = "closed" /\ Goto("returned") /\ fd' = "closed" /\ Fault
        /\ UNCHANGED result
     \/ answer = "closed" /\ Throw /\ UNCHANGED result
  /\ UNCHANGED <<protocol, transaction_id, connection_id, net, requests,
                 trackerVars>>

-----------------------------------------------------------------------------
(* GetPeersUDP. *)

UdpSocket ==
  /\ pc = "socket"
  /\ \/ fd' = "open" /\ Goto("sendConnect") /\ UNCHANGED faulty
     \/ Catch
  /\ UNCHANGED <<protocol, localVars, net, requests, trackerVars>>

SendConnect ==
  /\ pc = "sendConnect"
  /\ \E t \in Tids :
       /\ transaction_id' = t
       /\ \/ /\ requests' = {[action |-> "connect", tid |-> t, cid |-> NoId]}
             /\ Goto("recvConnect")
             /\ UNCHANGED <<fd, faulty>>
          \/ Catch /\ UNCHANGED requests
  /\ UNCHANGED <<protocol, connection_id, result, net, trackerVars>>

\* A datagram arrives; the network may still hold a duplicate of it.
Arrives(d) == net' \in {net, net \ {d}}

\* Faulty variant of ConnectAnswer: only the length is looked at.
AnyAnswer(d) == d.len >= 16

ConnectAnswer(d) ==
  d.len >= 16 /\ d.action = "connect" /\ d.tid = transaction_id

\* The eight bytes at offset 8.
CidIn(d) == IF d.action = "connect" THEN d.cid ELSE NotAnId

RecvConnect ==
  /\ pc = "recvConnect"
  /\ \E d \in net :
       /\ Arrives(d)
       /\ \/ /\ ConnectAnswer(d)
             /\ connection_id' = CidIn(d)
             /\ Goto("sendAnnounce")
             /\ UNCHANGED <<fd, faulty>>
          \/ ~ConnectAnswer(d) /\ Catch /\ UNCHANGED connection_id
  /\ UNCHANGED <<protocol, transaction_id, result, requests, trackerVars>>

SendAnnounce ==
  /\ pc = "sendAnnounce"
  /\ \/ /\ requests' = requests \cup {[action |-> "announce",
                                       tid |-> transaction_id,
                                       cid |-> connection_id]}
        /\ Goto("recvAnnounce")
        /\ UNCHANGED <<fd, faulty>>
     \/ Catch /\ UNCHANGED requests
  /\ UNCHANGED <<protocol, localVars, net, trackerVars>>

\* Faulty variant of PeersIn: the bytes left over at the end are a peer as well.
PeersInPartial(d) ==
  LET bytes == LeastOf(d.len, MaxUdp) - 20 IN
  [i \in 1 .. (bytes + 5) \div 6 |->
     IF d.action = "announce" /\ 6 * i <= bytes THEN List[i] ELSE Text]

\* Six bytes each from offset 20 on, whatever the datagram is.  A longer one
\* has been cut by the receive.
PeersIn(d) ==
  LET n == (LeastOf(d.len, MaxUdp) - 20) \div 6 IN
  IF d.action = "announce" THEN SubSeq(List, 1, n) ELSE [i \in 1 .. n |-> Text]

\* Neither the action nor the transaction id of the answer is looked at.
RecvAnnounce ==
  /\ pc = "recvAnnounce"
  /\ \E d \in net :
       /\ Arrives(d)
       /\ \/ /\ d.len >= 20
             /\ result' = PeersIn(d)
             /\ Goto("returned") /\ fd' = "closed"
             /\ faulty' = (faulty \/ d.action # "announce")
          \/ d.len < 20 /\ Catch /\ UNCHANGED result
  /\ UNCHANGED <<protocol, transaction_id, connection_id, requests, trackerVars>>

\* Faulty variant of Timeout: SO_RCVTIMEO is not set.
TimeoutNever == pc \in {} /\ UNCHANGED vars

\* SO_RCVTIMEO: recvfrom returns -1 after two seconds without a datagram.
Timeout ==
  /\ pc \in {"recvConnect", "recvAnnounce"}
  /\ Catch
  /\ UNCHANGED <<protocol, localVars, net, requests, trackerVars>>

Client == Dispatch \/ TcpClient \/ HttpSend \/ HttpReceive \/ UdpSocket
          \/ SendConnect \/ RecvConnect \/ SendAnnounce \/ RecvAnnounce
          \/ Timeout

-----------------------------------------------------------------------------
(* External: the tracker and the network. *)

OnlyTracker == UNCHANGED <<protocol, pc, fd, localVars, requests>>

AnnounceLen == 20 + 6 * Len(List)

\* A request may reach it twice; it knows its connection ids.
AnswerUdp(r) ==
  /\ \/ /\ r.action = "connect"
        /\ \E c \in Cids \ issued :
             /\ issued' = issued \cup {c}
             /\ net' = net \cup {[action |-> "connect", tid |-> r.tid, cid |-> c,
                                  len |-> 16]}
        /\ UNCHANGED faulty
     \/ /\ r.action = "announce" /\ r.cid \in issued
        /\ net' = net \cup {[action |-> "announce", tid |-> r.tid,
                             len |-> AnnounceLen]}
        /\ UNCHANGED <<issued, faulty>>
     \/ /\ r.action \in {"connect", "announce"}
        /\ \E text \in ErrorLens :
             net' = net \cup {[action |-> "error", tid |-> r.tid,
                               len |-> 8 + text]}
        /\ Fault /\ UNCHANGED issued
  /\ OnlyTracker /\ UNCHANGED answer

Lose(d) ==
  /\ net' = net \ {d} /\ Fault
  /\ OnlyTracker /\ UNCHANGED trackerVars

\* One of the answers; "closed" without any.
AnswerHttp ==
  /\ [action |-> "GET"] \in requests /\ answer = "none"
  /\ answer' \in DOMAIN Responses \cup {"closed"}
  /\ faulty' = (faulty \/ answer' \notin GoodAnswers)
  /\ OnlyTracker /\ UNCHANGED <<net, issued>>

Next ==
  \/ Client
  \/ AnswerHttp
  \/ \E r \in requests : AnswerUdp(r)
  \/ \E d \in net : Lose(d)

Spec == Init /\ [][Next]_vars

\* The main thread runs, and time passes.  Of the trackers and the network
\* nothing is assumed.
FairSpec == Spec /\ WF_vars(Client)

-----------------------------------------------------------------------------
(* Properties. *)

\* Whichever way the call ends, no socket stays open.
NoSocketLeft == pc \in {"returned", "threw"} => fd # "open"

\* Only connection ids that the tracker has issued in this exchange are used,
\* whatever late or wrong datagram comes in first.
AnnounceUsesIssuedId ==
  \A r \in requests : r.action = "announce" => r.cid \in issued

\* The list of an HTTP tracker is taken whole or not at all, wherever the one
\* receive cuts the answer: in its header, in the middle of a peer or of an entry
\* before or after the peers.  It rests on what the decoder does with a string or
\* a dictionary of which a part is missing.
HttpAllOrNothing ==
  protocol = "http" /\ pc = "returned" => result \in {<<>>, List}

\* When nothing fails and nothing comes late the caller gets the peers of the
\* tracker, in its order: all, or as many as one datagram has room for.
CleanGivesPeers ==
  pc = "returned" /\ ~faulty =>
    result = IF protocol = "http" THEN List
             ELSE SubSeq(List, 1, LeastOf(Len(List), (MaxUdp - 20) \div 6))

\* What is under way and what was asked, with the ids they carry: every
\* connection id but the stale one has been issued.
Datagram ==
  {Stale} \cup [action : {"connect"}, tid : Tids, cid : issued, len : {16}]
  \cup [action : {"announce"}, tid : Tids, len : {AnnounceLen}]
  \cup [action : {"error"}, tid : Tids, len : Nat]
UdpRequest ==
  [action : {"connect"}, tid : Tids, cid : {NoId}]
  \cup [action : {"announce"}, tid : Tids, cid : issued]

HttpCalls == {"TcpClient", "Send", "Receive"}
UdpCalls == {"socket", "sendConnect", "recvConnect", "sendAnnounce", "recvAnnounce"}
Ends == {"returned", "threw"}

\* The type of every variable.
TypeOK ==
  /\ protocol \in {"http", "udp", "https"}
  /\ pc \in {"GetPeers"} \cup HttpCalls \cup UdpCalls \cup Ends
  /\ fd \in {"none", "open", "closed"} /\ faulty \in BOOLEAN
  /\ transaction_id \in Tids \cup {NoId}
  /\ issued \subseteq Cids /\ connection_id \in issued \cup {NoId}
  /\ net \subseteq Datagram
  /\ requests \subseteq {[action |-> "GET"]} \cup UdpRequest
  /\ answer \in DOMAIN Responses \cup {"none", "closed"}

\* The call follows the protocol, holds a socket exactly while it talks, and
\* knows the ids it needs; it has no result before it returns; a clean exchange
\* has had no answer but a list of peers.
CallInv ==
  /\ pc \in HttpCalls => protocol = "http"
  /\ pc \in UdpCalls => protocol = "udp"
  /\ pc = "returned" => protocol # "https"
  /\ fd = "open" <=> pc \in (HttpCalls \cup UdpCalls) \ {"TcpClient", "socket"}
  /\ pc \in {"recvConnect", "sendAnnounce", "recvAnnounce"} =>
       transaction_id \in Tids
  /\ pc \in {"sendAnnounce", "recvAnnounce"} => connection_id \in issued
  /\ pc # "returned" => result = <<>>
  /\ ~faulty => answer \in GoodAnswers \cup {"none"}

\* Inductive; it implies the safety properties above.
TrackerInv == TypeOK /\ CallInv /\ CleanGivesPeers

\* What is returned are peers of the tracker.
ResultsArePeers == \A k \in DOMAIN result : \E m \in DOMAIN List : result[k] = List[m]

\* GetPeers ends, whatever is lost, late or refused, but for one case: a tracker
\* that has accepted an HTTP connection and then neither answers nor closes it.
\* The client waits for it for ever, since the TCP socket has no timeout.
GetPeersReturns ==
  \/ <>(pc \in {"returned", "threw"})
  \/ <>[](pc = "Receive" /\ answer = "none")

=============================================================================

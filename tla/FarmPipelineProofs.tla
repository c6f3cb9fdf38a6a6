-------------------------- MODULE FarmPipelineProofs --------------------------
(***************************************************************************)
(* Proof that the requests in flight on a connection of the module Farm    *)
(* are never more than the unchokes its peer has sent.                     *)
(***************************************************************************)
EXTENDS FarmTypeProofs, FiniteSetTheorems

-----------------------------------------------------------------------------
(* The messages on a wire that may each lead to one request. *)

Unit(m) == m.type \in {"piece", "unchoke"}
Units(s) == {k \in DOMAIN s : Unit(s[k])}

\* They can be counted.
LEMMA UnitsFinite ==
  ASSUME NEW s \in Seq(Message)
  PROVE  IsFiniteSet(Units(s)) /\ Cardinality(Units(s)) \in Nat
<1>1. IsFiniteSet(1 .. Len(s))
  BY FS_Interval
<1>2. Units(s) \in SUBSET (1 .. Len(s))
  BY DEF Units
<1>3. IsFiniteSet(Units(s))
  BY <1>1, <1>2, FS_Subset
<1> QED BY <1>3, FS_CardinalityType

\* Sending one more message adds at most one, and none if it is neither.
LEMMA UnitsSent ==
  ASSUME NEW s \in Seq(Message), NEW m \in Message
  PROVE  Cardinality(Units(s \o <<m>>)) =
           Cardinality(Units(s)) + IF Unit(m) THEN 1 ELSE 0
<1> DEFINE t == s \o <<m>>
           n == Len(s) + 1
<1>1. /\ DOMAIN t = 1 .. n /\ DOMAIN s = 1 .. Len(s) /\ Len(s) \in Nat
      /\ t[n] = m /\ \A k \in 1 .. Len(s) : t[k] = s[k]
  OBVIOUS
<1> HIDE DEF t
<1>2. Units(t) = Units(s) \cup IF Unit(m) THEN {n} ELSE {}
  <2>1. \A k : k \in Units(t) <=> k \in 1 .. n /\ Unit(t[k])
    BY <1>1 DEF Units
  <2>2. \A k : k \in Units(s) <=> k \in 1 .. Len(s) /\ Unit(t[k])
    BY <1>1 DEF Units
  <2>3. \A k : k \in 1 .. n <=> k \in 1 .. Len(s) \/ k = n
    BY <1>1
  <2> QED BY <1>1, <2>1, <2>2, <2>3
<1>3. n \notin Units(s)
  BY <1>1 DEF Units
<1>4. IsFiniteSet(Units(s)) /\ Cardinality(Units(s)) \in Nat
  BY UnitsFinite
<1> HIDE DEF n
<1>5. Cardinality(Units(s) \cup {n}) = Cardinality(Units(s)) + 1
  BY <1>3, <1>4, FS_AddElement
<1>6. CASE Unit(m)
  BY <1>2, <1>5, <1>6 DEF t
<1>7. CASE ~Unit(m)
  <2>1. Units(t) = Units(s)
    BY <1>2, <1>7
  <2> QED BY <1>4, <1>7, <2>1 DEF t
<1> QED BY <1>6, <1>7

\* Reading the first message takes it away.
LEMMA UnitsTail ==
  ASSUME NEW s \in Seq(Message), s # <<>>
  PROVE  Cardinality(Units(s)) =
           Cardinality(Units(Tail(s))) + IF Unit(Head(s)) THEN 1 ELSE 0
<1> DEFINE t == Tail(s)
           S == Units(s) \ {1}
           f == [k \in Units(t) |-> k + 1]
<1>1. /\ Len(s) \in Nat \ {0} /\ DOMAIN s = 1 .. Len(s)
      /\ t \in Seq(Message) /\ DOMAIN t = 1 .. Len(s) - 1
      /\ Head(s) = s[1] /\ \A k \in 1 .. Len(s) - 1 : t[k] = s[k + 1]
  OBVIOUS
<1> HIDE DEF t
<1>2. /\ \A k : k \in Units(t) <=> k \in 1 .. Len(s) - 1 /\ Unit(s[k + 1])
      /\ \A k : k \in Units(s) <=> k \in 1 .. Len(s) /\ Unit(s[k])
  BY <1>1 DEF Units
<1>3. f \in Bijection(Units(t), S)
  <2>1. \A k \in Units(t) : f[k] \in S
    <3> SUFFICES ASSUME NEW k \in Units(t) PROVE k + 1 \in S
      OBVIOUS
    <3>1. k \in 1 .. Len(s) - 1 /\ Unit(s[k + 1])
      BY <1>2
    <3>2. k + 1 \in 1 .. Len(s) /\ k + 1 # 1
      BY <1>1, <3>1
    <3> QED BY <1>2, <3>1, <3>2
  <2>2. \A k, l \in Units(t) : f[k] = f[l] => k = l
    BY <1>2
  <2>3. \A l \in S : \E k \in Units(t) : f[k] = l
    <3> SUFFICES ASSUME NEW l \in S PROVE \E k \in Units(t) : f[k] = l
      OBVIOUS
    <3>1. l \in 1 .. Len(s) /\ Unit(s[l]) /\ l # 1
      BY <1>2
    <3>2. l - 1 \in 1 .. Len(s) - 1 /\ (l - 1) + 1 = l
      BY <1>1, <3>1
    <3>3. l - 1 \in Units(t)
      BY <1>2, <3>1, <3>2
    <3> QED BY <3>2, <3>3
  <2> HIDE DEF f
  <2>4. f \in [Units(t) -> S]
    BY <2>1 DEF f
  <2> QED BY <2>2, <2>3, <2>4 DEF Bijection, Injection, Surjection, IsInjective
<1>4. /\ IsFiniteSet(Units(t)) /\ Cardinality(Units(t)) \in Nat
      /\ IsFiniteSet(Units(s)) /\ Cardinality(Units(s)) \in Nat
  BY <1>1, UnitsFinite
<1>5. Cardinality(S) = Cardinality(Units(t))
  <2>1. ExistsBijection(Units(t), S)
    BY <1>3 DEF ExistsBijection
  <2> HIDE DEF S
  <2> QED BY <1>4, <2>1, FS_Bijection
<1>6. Cardinality(S) = IF 1 \in Units(s) THEN Cardinality(Units(s)) - 1
                       ELSE Cardinality(Units(s))
  BY <1>4, FS_RemoveElement
<1>7. 1 \in Units(s) <=> Unit(Head(s))
  BY <1>1, <1>2
<1> HIDE DEF S
<1> QED BY <1>4, <1>5, <1>6, <1>7 DEF t

-----------------------------------------------------------------------------
(* The invariant and its steps. *)

Flight(c) == Len(reqs[c]) + Cardinality(Units(wire[c]))

PipelineInv == \A c \in Conns : Flight(c) <= unchokes[c]

Typed ==
  /\ wire \in [Conns -> Seq(Message)] /\ reqs \in [Conns -> Seq(PeerRequest)]
  /\ unchokes \in [Conns -> Nat]

\* The terms of Flight are natural numbers.
LEMMA FlightType ==
  ASSUME Typed, NEW c \in Conns
  PROVE  /\ wire[c] \in Seq(Message) /\ reqs[c] \in Seq(PeerRequest)
         /\ Len(reqs[c]) \in Nat /\ Cardinality(Units(wire[c])) \in Nat
         /\ unchokes[c] \in Nat
<1>1. wire[c] \in Seq(Message) /\ reqs[c] \in Seq(PeerRequest) /\ unchokes[c] \in Nat
  BY DEF Typed
<1> QED BY <1>1, UnitsFinite

\* Sending no block and no unchoke, or dropping messages or requests.
LEMMA FewerInFlight ==
  ASSUME Typed, PipelineInv, UNCHANGED unchokes,
         \A c \in Conns : /\ wire'[c] \in {wire[c], <<>>}
                          /\ reqs'[c] \in {reqs[c], <<>>}
  PROVE  PipelineInv'
<1> SUFFICES ASSUME NEW c \in Conns
             PROVE  Len(reqs'[c]) + Cardinality(Units(wire'[c])) <= unchokes[c]
  BY DEF PipelineInv, Flight, Units, Unit
<1>1. /\ Len(reqs[c]) \in Nat /\ Cardinality(Units(wire[c])) \in Nat
      /\ unchokes[c] \in Nat
      /\ Len(reqs[c]) + Cardinality(Units(wire[c])) <= unchokes[c]
  BY FlightType DEF PipelineInv, Flight
<1>2. Cardinality(Units(<<>>)) = 0
  <2>1. Units(<<>>) = {}
    BY DEF Units
  <2> QED BY <2>1, FS_EmptySet
<1>3. Cardinality(Units(wire'[c])) \in {Cardinality(Units(wire[c])), 0}
  BY <1>2
<1>4. Len(reqs'[c]) \in {Len(reqs[c]), 0}
  OBVIOUS
<1> QED BY <1>1, <1>3, <1>4

\* A request is sent on a block or an unchoke only, and one at most.
LEMMA SendsOne ==
  ASSUME Typed, NEW c \in Conns, NEW i, NEW off, SendRequest(c, i, off)
  PROVE  /\ Len(reqs'[c]) <= Len(reqs[c]) + 1 /\ Len(reqs'[c]) \in Nat
         /\ \A d \in Conns : d # c => reqs'[d] = reqs[d]
<1>1. reqs[c] \in Seq(PeerRequest) /\ Len(reqs[c]) \in Nat
  BY FlightType
<1>2. \/ UNCHANGED reqs
      \/ reqs' = [reqs EXCEPT ![c] = Append(@, [index |-> i, begin |-> off,
                                                len |-> RequestLen(i, off)])]
  BY DEF SendRequest, SendThrows, SendKills
<1> DEFINE r == [index |-> i, begin |-> off, len |-> RequestLen(i, off)]
<1> HIDE DEF r
<1>3. Len(Append(reqs[c], r)) = Len(reqs[c]) + 1
  BY <1>1
<1>4. \/ UNCHANGED reqs
      \/ reqs'[c] = Append(reqs[c], r) /\ \A d \in Conns : d # c => reqs'[d] = reqs[d]
  BY <1>2 DEF Typed, r
<1> QED BY <1>1, <1>3, <1>4

LEMMA ProcessSendsOne ==
  ASSUME Typed, NEW c \in Conns, ProcessMessage(c)
  PROVE  /\ \/ UNCHANGED reqs
            \/ /\ Unit(Head(wire[c]))
               /\ Len(reqs'[c]) <= Len(reqs[c]) + 1 /\ Len(reqs'[c]) \in Nat
         /\ \A d \in Conns : d # c => reqs'[d] = reqs[d]
<1> DEFINE m == Head(wire[c])
           One == /\ Len(reqs'[c]) <= Len(reqs[c]) + 1 /\ Len(reqs'[c]) \in Nat
                  /\ \A d \in Conns : d # c => reqs'[d] = reqs[d]
<1>1. ASSUME NEW ch, RequestNextBlock(c, ch)
      PROVE  UNCHANGED reqs \/ One
  BY <1>1, SendsOne DEF RequestNextBlock, NothingRequested
<1>2. CASE ProcessHandshake(c) \/ ProcessChoke(c) \/ ProcessBitfield(c, m)
           \/ ProcessOther(c)
  BY <1>2 DEF ProcessHandshake, SendThrows, SendKills, ProcessChoke,
              ProcessBitfield, ProcessOther, NothingRequested
<1>3. CASE m.type \in {"piece", "unchoke"} /\ (ProcessUnchoke(c) \/ ProcessPiece(c, m))
  <2>1. UNCHANGED reqs \/ One
    BY <1>1, <1>3 DEF ProcessUnchoke, ProcessPiece
  <2> QED BY <1>3, <2>1 DEF Unit
<1> QED BY <1>2, <1>3 DEF ProcessMessage

\* Processing a message spends the unit it was, if it asks for a block.
LEMMA ProcessKeepsPipeline ==
  ASSUME FarmInv, FarmInv', PipelineInv, NEW c \in Conns, ProcessMessage(c),
         UNCHANGED unchokes
  PROVE  PipelineInv'
<1> SUFFICES ASSUME NEW d \in Conns
             PROVE  Len(reqs'[d]) + Cardinality(Units(wire'[d])) <= unchokes[d]
  BY DEF PipelineInv, Flight, Units, Unit
<1>1. Typed
  BY DEF FarmInv, WireInv, PeerTypes, Typed
<1>2. /\ wire[d] \in Seq(Message) /\ Len(reqs[d]) \in Nat
      /\ Cardinality(Units(wire[d])) \in Nat /\ unchokes[d] \in Nat
      /\ Len(reqs[d]) + Cardinality(Units(wire[d])) <= unchokes[d]
  BY <1>1, FlightType DEF PipelineInv, Flight
<1>3. /\ wire' = [wire EXCEPT ![c] = IF sock'[c] THEN Tail(@) ELSE <<>>]
      /\ \/ UNCHANGED reqs
         \/ /\ Unit(Head(wire[c]))
            /\ Len(reqs'[c]) <= Len(reqs[c]) + 1 /\ Len(reqs'[c]) \in Nat
      /\ \A e \in Conns : e # c => reqs'[e] = reqs[e]
  BY <1>1, ProcessSendsOne DEF ProcessMessage, TakeMessage
<1>4. CASE d # c
  <2>1. wire'[d] = wire[d] /\ reqs'[d] = reqs[d]
    BY <1>1, <1>3, <1>4 DEF Typed
  <2> QED BY <1>2, <2>1
<1>5. CASE d = c
  <2>1. wire[c] # <<>>
    <3>1. left \in 1 .. Len(wire[c])
      BY ConnsConstant DEF FarmInv, WireInv, ReadInv, ProcessMessage, NoConn
    <3> QED BY <3>1
  <2> DEFINE u == IF Unit(Head(wire[c])) THEN 1 ELSE 0
             t == Cardinality(Units(Tail(wire[c])))
  <2>2. Cardinality(Units(wire[c])) = t + u
    BY <1>2, <1>5, <2>1, UnitsTail
  <2>3. t \in Nat
    <3>1. Tail(wire[c]) \in Seq(Message)
      BY <1>2, <1>5, <2>1
    <3> QED BY <3>1, UnitsFinite
  <2>4. Cardinality(Units(wire'[c])) \in {t, 0}
    <3>1. wire'[c] = Tail(wire[c]) \/ wire'[c] = <<>>
      BY <1>1, <1>3 DEF Typed
    <3>2. Units(<<>>) = {}
      BY DEF Units
    <3> QED BY <3>1, <3>2, FS_EmptySet
  <2>5. u = 0 \/ (u = 1 /\ Unit(Head(wire[c])))
    OBVIOUS
  <2> HIDE DEF u, t
  <2>6. /\ Len(reqs[c]) \in Nat /\ unchokes[c] \in Nat
        /\ Len(reqs[c]) + (t + u) <= unchokes[c]
    BY <1>2, <1>5, <2>2
  <2>7. Len(reqs'[c]) + t <= unchokes[c] /\ Len(reqs'[c]) \in Nat
    <3>1. CASE UNCHANGED reqs
      BY <2>3, <2>5, <2>6, <3>1
    <3>2. CASE Unit(Head(wire[c])) /\ Len(reqs'[c]) <= Len(reqs[c]) + 1
               /\ Len(reqs'[c]) \in Nat
      <4>1. u = 1
        BY <3>2 DEF u
      <4> DEFINE x == Len(reqs'[c])
                 y == Len(reqs[c])
                 z == unchokes[c]
      <4>2. x \in Nat /\ x <= y + 1 /\ y \in Nat /\ z \in Nat /\ y + (t + 1) <= z
        BY <2>6, <3>2, <4>1
      <4> HIDE DEF x, y, z
      <4>3. x + t <= z
        BY <2>3, <4>2
      <4> QED BY <4>2, <4>3 DEF x, z
    <3> QED BY <1>3, <3>1, <3>2
  <2>8. Len(reqs'[c]) + Cardinality(Units(wire'[c])) <= unchokes[c]
    BY <2>3, <2>4, <2>6, <2>7
  <2> QED BY <1>5, <2>8
<1> QED BY <1>4, <1>5

-----------------------------------------------------------------------------
(* The steps of the peers. *)

\* On one connection u blocks and unchokes are sent, which the requests served
\* and the n unchokes make up for.
Paid(c, u, n) ==
  /\ Cardinality(Units(wire'[c])) = Cardinality(Units(wire[c])) + u
  /\ Len(reqs'[c]) \in Nat /\ Len(reqs'[c]) + u <= Len(reqs[c]) + n
  /\ unchokes'[c] = unchokes[c] + n
  /\ \A d \in Conns : d # c => /\ wire'[d] = wire[d] /\ reqs'[d] = reqs[d]
                               /\ unchokes'[d] = unchokes[d]

LEMMA PaidKeeps ==
  ASSUME Typed, PipelineInv, NEW c \in Conns, NEW u \in Nat, NEW n \in Nat,
         Paid(c, u, n)
  PROVE  PipelineInv'
<1> SUFFICES ASSUME NEW d \in Conns
             PROVE  Len(reqs'[d]) + Cardinality(Units(wire'[d])) <= unchokes'[d]
  BY DEF PipelineInv, Flight, Units, Unit
<1>1. /\ Len(reqs[d]) \in Nat /\ Cardinality(Units(wire[d])) \in Nat
      /\ unchokes[d] \in Nat
      /\ Len(reqs[d]) + Cardinality(Units(wire[d])) <= unchokes[d]
  BY FlightType DEF PipelineInv, Flight
<1>2. CASE d # c
  <2>1. wire'[d] = wire[d] /\ reqs'[d] = reqs[d] /\ unchokes'[d] = unchokes[d]
    BY <1>2 DEF Paid
  <2> QED BY <1>1, <2>1
<1>3. CASE d = c
  <2> DEFINE a == Len(reqs[c])
             b == Cardinality(Units(wire[c]))
             a2 == Len(reqs'[c])
             b2 == Cardinality(Units(wire'[c]))
             x == unchokes[c]
             x2 == unchokes'[c]
  <2>1. a \in Nat /\ b \in Nat /\ x \in Nat /\ a + b <= x
    BY <1>1, <1>3
  <2>2. b2 = b + u /\ a2 \in Nat /\ a2 + u <= a + n /\ x2 = x + n
    BY DEF Paid
  <2> HIDE DEF a, b, a2, b2, x, x2
  <2>3. a2 + b2 <= x2
    BY <2>1, <2>2
  <2> QED BY <1>3, <2>3 DEF a2, b2, x2
<1> QED BY <1>2, <1>3

\* A peer that sends one message and leaves the requests alone.
LEMMA PeerSendsKeepsPipeline ==
  ASSUME Typed, PipelineInv, NEW c \in Conns, NEW m \in Message,
         PeerSends(c, <<m>>), UNCHANGED reqs,
         IF Unit(m) THEN unchokes' = [unchokes EXCEPT ![c] = @ + 1]
                    ELSE UNCHANGED unchokes
  PROVE  PipelineInv'
<1> DEFINE u == IF Unit(m) THEN 1 ELSE 0
<1>1. /\ wire[c] \in Seq(Message) /\ Len(reqs[c]) \in Nat /\ unchokes[c] \in Nat
  BY FlightType
<1>2. wire'[c] = wire[c] \o <<m>> /\ \A d \in Conns : d # c => wire'[d] = wire[d]
  BY DEF PeerSends, Typed
<1>3. Cardinality(Units(wire'[c])) = Cardinality(Units(wire[c])) + u
  BY <1>1, <1>2, UnitsSent
<1>4. /\ unchokes'[c] = unchokes[c] + u
      /\ \A d \in Conns : d # c => unchokes'[d] = unchokes[d]
  BY <1>1 DEF Typed
<1>5. u \in Nat
  OBVIOUS
<1> HIDE DEF u
<1>6. Paid(c, u, u)
  BY <1>1, <1>2, <1>3, <1>4, <1>5 DEF Paid
<1> QED BY <1>5, <1>6, PaidKeeps

\* A peer that answers the handshake sends no block and no unchoke.
LEMMA GreetKeepsPipeline ==
  ASSUME Typed, PipelineInv, NEW c \in Conns, PeerGreet(c)
  PROVE  PipelineInv'
<1> DEFINE h == [type |-> "handshake"]
           f == [type |-> "bitfield", pieces |-> PeerHas[c]]
           ms == IF PeerHas[c] = {} THEN <<>> ELSE <<f>>
           q == wire[c]
<1>1. h \in Message /\ f \in Message /\ ~Unit(h) /\ ~Unit(f)
  BY PeerConstants DEF Message, Unit
<1>2. /\ q \in Seq(Message) /\ Len(reqs[c]) \in Nat /\ unchokes[c] \in Nat
      /\ Cardinality(Units(q)) \in Nat
  BY FlightType
<1>3. /\ UNCHANGED <<reqs, unchokes>> /\ wire'[c] = q \o (<<h>> \o ms)
      /\ \A d \in Conns : d # c => wire'[d] = wire[d]
  BY DEF PeerGreet, PeerSends, Typed
<1> HIDE DEF h, f, q
<1>4. /\ q \o <<h>> \in Seq(Message)
      /\ Cardinality(Units(q \o <<h>>)) = Cardinality(Units(q))
  BY <1>1, <1>2, UnitsSent
<1>5. Cardinality(Units((q \o <<h>>) \o <<f>>)) = Cardinality(Units(q))
  BY <1>1, <1>2, <1>4, UnitsSent
<1>6. /\ q \o (<<h>> \o <<>>) = q \o <<h>>
      /\ q \o (<<h>> \o <<f>>) = (q \o <<h>>) \o <<f>>
  BY <1>1, <1>2
<1>7. wire'[c] = q \o <<h>> \/ wire'[c] = (q \o <<h>>) \o <<f>>
  BY <1>3, <1>6
<1>8. Cardinality(Units(wire'[c])) = Cardinality(Units(q)) + 0
  <2>1. CASE wire'[c] = q \o <<h>>
    <3>1. Units(wire'[c]) = Units(q \o <<h>>)
      BY <2>1
    <3> QED BY <1>2, <1>4, <3>1
  <2>2. CASE wire'[c] = (q \o <<h>>) \o <<f>>
    <3>1. Units(wire'[c]) = Units((q \o <<h>>) \o <<f>>)
      BY <2>2
    <3> QED BY <1>2, <1>5, <3>1
  <2> QED BY <1>7, <2>1, <2>2
<1>9. /\ Cardinality(Units(wire'[c])) = Cardinality(Units(wire[c])) + 0
      /\ reqs'[c] = reqs[c] /\ unchokes'[c] = unchokes[c]
      /\ \A d \in Conns : d # c => /\ wire'[d] = wire[d] /\ reqs'[d] = reqs[d]
                                   /\ unchokes'[d] = unchokes[d]
  BY <1>3, <1>8 DEF q
<1>10. Paid(c, 0, 0)
  BY <1>2, <1>9 DEF Paid
<1> QED BY <1>10, PaidKeeps

\* A peer that serves a request sends one block for it.
LEMMA ServeKeepsPipeline ==
  ASSUME FarmInv, FarmInv', Typed, PipelineInv, NEW c \in Conns, PeerServe(c)
  PROVE  PipelineInv'
<1>1. PICK j \in 1 .. Len(reqs[c]) :
        /\ reqs' = [reqs EXCEPT ![c] =
                      SubSeq(@, 1, j - 1) \o SubSeq(@, j + 1, Len(@))]
        /\ \E m : m.type = "piece" /\ PeerSends(c, <<m>>)
  BY DEF PeerServe
<1>2. PICK m : m.type = "piece" /\ PeerSends(c, <<m>>)
  BY <1>1
<1> DEFINE q == reqs[c]
           w == wire[c]
           rest == SubSeq(q, 1, j - 1) \o SubSeq(q, j + 1, Len(q))
<1>3. q \in Seq(PeerRequest) /\ w \in Seq(Message) /\ unchokes[c] \in Nat
  BY FlightType
<1>4. /\ wire'[c] = w \o <<m>> /\ reqs'[c] = rest /\ UNCHANGED unchokes
      /\ \A d \in Conns : d # c => wire'[d] = wire[d] /\ reqs'[d] = reqs[d]
  BY <1>1, <1>2 DEF PeerSends, Typed, PeerServe, envVars
<1>5. j \in 1 .. Len(q)
  OBVIOUS
<1>6. w \o <<m>> \in Seq(Message)
  BY <1>4 DEF FarmInv, WireInv, PeerTypes
<1> HIDE DEF q, w
<1>7. Len(rest) = Len(q) - 1 /\ Len(q) \in Nat \ {0}
  <2> DEFINE a == SubSeq(q, 1, j - 1)
             b == SubSeq(q, j + 1, Len(q))
  <2>1. a \in Seq(PeerRequest) /\ Len(a) = j - 1
    BY <1>3, <1>5
  <2>2. b \in Seq(PeerRequest) /\ Len(b) = Len(q) - j
    BY <1>3, <1>5
  <2> HIDE DEF a, b
  <2>3. Len(a \o b) = Len(q) - 1
    BY <1>3, <1>5, <2>1, <2>2
  <2>4. Len(q) \in Nat \ {0}
    BY <1>3, <1>5
  <2> QED BY <2>3, <2>4 DEF a, b
<1> HIDE DEF rest
<1>8. m \in Message /\ Unit(m)
  <2>1. (w \o <<m>>)[Len(w) + 1] = m /\ Len(w) + 1 \in 1 .. Len(w \o <<m>>)
    BY <1>3
  <2> DEFINE v == w \o <<m>>
             n == Len(w) + 1
  <2>2. v[n] = m /\ n \in 1 .. Len(v) /\ v \in Seq(Message)
    BY <1>6, <2>1
  <2> HIDE DEF v, n
  <2> QED BY <1>2, <2>2 DEF Unit
<1>9. Cardinality(Units(w \o <<m>>)) = Cardinality(Units(w)) + 1
  BY <1>3, <1>8, UnitsSent
<1>10. Paid(c, 1, 0)
  BY <1>3, <1>4, <1>7, <1>9 DEF Paid, q, w
<1> QED BY <1>10, PaidKeeps

-----------------------------------------------------------------------------
(* The theorem. *)

LEMMA PipelineStep == FarmInv /\ PipelineInv /\ [Next]_vars => PipelineInv'
<1> SUFFICES ASSUME FarmInv, PipelineInv, [Next]_vars PROVE PipelineInv'
  OBVIOUS
<1>1. Typed /\ FarmInv'
  BY FarmStep DEF FarmInv, WireInv, PeerTypes, Typed
<1>2. CASE \/ UNCHANGED vars \/ EnterRun \/ Poll \/ RunReturns
           \/ \E c \in Conns : AddConnection(c) \/ HandleOut(c) \/ HandleIn(c)
  <2>1. /\ UNCHANGED unchokes
        /\ \A c \in Conns : /\ wire'[c] \in {wire[c], <<>>}
                            /\ reqs'[c] \in {reqs[c], <<>>}
    BY <1>1, <1>2
    DEF vars, peerVars, envVars, EnterRun, Poll, WaitReturns, RunReturns,
        AddConnection, HandleOut, HandleIn, Typed
  <2> QED BY <1>1, <2>1, FewerInFlight
<1>3. ASSUME NEW c \in Conns, ProcessMessage(c), UNCHANGED envVars
      PROVE  PipelineInv'
  BY <1>1, <1>3, ProcessKeepsPipeline DEF envVars
<1>4. ASSUME NEW c \in Conns, Peer(c)
      PROVE  PipelineInv'
  <2> DEFINE msg(t) == [type |-> t]
  <2>1. /\ \A t \in {"unchoke", "choke", "have"} : msg(t) \in Message
        /\ Unit(msg("unchoke")) /\ ~Unit(msg("choke")) /\ ~Unit(msg("have"))
    BY DEF Message, Unit
  <2>2. CASE PeerUnchoke(c)
    <3>1. /\ PeerSends(c, <<msg("unchoke")>>) /\ UNCHANGED reqs
          /\ unchokes' = [unchokes EXCEPT ![c] = @ + 1]
      BY <2>2 DEF PeerUnchoke
    <3> HIDE DEF msg
    <3> QED BY <1>1, <2>1, <3>1, PeerSendsKeepsPipeline
  <2>3. CASE PeerChoke(c) \/ PeerHave(c)
    <3>1. PICK t \in {"choke", "have"} : PeerSends(c, <<msg(t)>>)
      BY <2>3 DEF PeerChoke, PeerHave
    <3>2. UNCHANGED <<reqs, unchokes>>
      BY <2>3 DEF PeerChoke, PeerHave
    <3>3. msg(t) \in Message /\ ~Unit(msg(t))
      BY <2>1, <3>1
    <3> HIDE DEF msg
    <3> QED BY <1>1, <3>1, <3>2, <3>3, PeerSendsKeepsPipeline
  <2>4. CASE PeerForgets(c) \/ PeerCloses(c)
    <3>1. /\ UNCHANGED unchokes
          /\ \A d \in Conns : /\ wire'[d] \in {wire[d], <<>>}
                              /\ reqs'[d] \in {reqs[d], <<>>}
      BY <1>1, <2>4 DEF PeerForgets, PeerCloses, envVars, Typed
    <3> QED BY <1>1, <3>1, FewerInFlight
  <2> QED BY <1>1, <1>4, <2>2, <2>3, <2>4, GreetKeepsPipeline, ServeKeepsPipeline
          DEF Peer
<1> QED BY <1>2, <1>3, <1>4 DEF Next, Network

\* Whatever the peers do within the protocol, and however often they choke and
\* unchoke, the requests a peer has, the blocks on their way from it and the
\* unchokes not read yet are never more than the unchokes it has sent.
THEOREM RequestsBoundedByUnchokes == Spec => []PipelineDepth
<1>1. Init => FarmInv /\ PipelineInv
  <2> SUFFICES ASSUME Init PROVE PipelineInv
    BY FarmInit
  <2>1. \A c \in Conns : wire[c] = <<>> /\ reqs[c] = <<>> /\ unchokes[c] = 0
    BY DEF Init, ConnectionInit
  <2>2. Units(<<>>) = {}
    BY DEF Units
  <2>3. Cardinality(Units(<<>>)) = 0
    BY <2>2, FS_EmptySet
  <2> QED BY <2>1, <2>3 DEF PipelineInv, Flight
<1>2. FarmInv /\ PipelineInv /\ [Next]_vars => (FarmInv /\ PipelineInv)'
  BY FarmStep, PipelineStep
<1>3. PipelineInv => PipelineDepth
  BY DEF PipelineInv, PipelineDepth, Flight, Units, Unit
<1> QED BY <1>1, <1>2, <1>3, PTL DEF Spec

=============================================================================

---------------------------- MODULE FramingProofs ----------------------------
(***************************************************************************)
(* Proofs about the module Framing: the integers and layouts, the place of *)
(* the buffer in the stream of the peer, and that the handlers see its     *)
(* messages as MessageStream promises.                                     *)
(***************************************************************************)
EXTENDS Framing, TLAPS

-----------------------------------------------------------------------------
(* Division by a number that is not given. *)

LEMMA DivMod ==
  ASSUME NEW n \in Nat, NEW b \in Nat, b > 0
  PROVE  /\ n = (n \div b) * b + (n % b)
         /\ n \div b \in Nat /\ n % b \in 0 .. b - 1
<1> DEFINE q == n \div b
           r == n % b
<1>1. q \in Int /\ n = q * b + r /\ r \in 0 .. b - 1
  OBVIOUS
<1> HIDE DEF q, r
<1>2. q < 0 => q * b <= 0 - b
  BY <1>1
<1>3. q \in Nat
  BY <1>1, <1>2
<1> QED BY <1>1, <1>3 DEF q, r

\* Quotient and remainder are unique.
LEMMA DivUnique ==
  ASSUME NEW n \in Nat, NEW b \in Nat, b > 0,
         NEW q \in Int, NEW r \in 0 .. b - 1, n = q * b + r
  PROVE  q = n \div b /\ r = n % b
<1> DEFINE p == n \div b
           s == n % b
<1>1. n = p * b + s /\ p \in Nat /\ s \in 0 .. b - 1
  BY DivMod
<1> HIDE DEF p, s
<1>2. (p - q) * b = r - s
  BY <1>1
<1>3. CASE p > q
  <2>1. (p - q) * b >= b
    BY <1>1, <1>3
  <2> QED BY <1>1, <1>2, <2>1
<1>4. CASE q > p
  <2>1. (q - p) * b >= b
    BY <1>1, <1>4
  <2>2. (q - p) * b = s - r
    BY <1>1
  <2> QED BY <1>1, <2>1, <2>2
<1>5. p = q
  BY <1>1, <1>3, <1>4
<1>6. r = s
  BY <1>1, <1>2, <1>5
<1> QED BY <1>5, <1>6 DEF p, s

LEMMA DivDiv ==
  ASSUME NEW n \in Nat, NEW a \in Nat, a > 0, NEW b \in Nat, b > 0
  PROVE  n \div (a * b) = (n \div a) \div b
<1> DEFINE q == n \div a
           r == n % a
           s == q \div b
           t == q % b
           c == a * b
           u == t * a + r
<1>1. n = q * a + r /\ q \in Nat /\ r \in 0 .. a - 1
  BY DivMod
<1>2. q = s * b + t /\ s \in Nat /\ t \in 0 .. b - 1
  BY <1>1, DivMod
<1> HIDE DEF q, r, s, t
<1>3. n = s * c + u
  <2>1. q * a = (s * b + t) * a
    BY <1>2
  <2>2. (s * b + t) * a = s * c + t * a
    BY <1>1, <1>2
  <2> QED BY <1>1, <1>2, <2>1, <2>2
<1>4. u \in 0 .. c - 1
  <2>1. t * a \in Nat /\ t * a <= (b - 1) * a
    BY <1>2
  <2>2. (b - 1) * a = c - a
    OBVIOUS
  <2> QED BY <1>1, <2>1, <2>2
<1>5. c \in Nat /\ c > 0
  OBVIOUS
<1> HIDE DEF c, u
<1>6. s = n \div c
  BY <1>2, <1>3, <1>4, <1>5, DivUnique
<1> QED BY <1>6 DEF c, q, s

-----------------------------------------------------------------------------
(* Integers of four bytes. *)

LEMMA BaseFacts ==
  /\ Base \in Nat /\ Base > 7
  /\ Base2 \in Nat /\ Base2 = Base * Base /\ Base2 > 56
  /\ Base3 \in Nat /\ Base3 = Base * Base2 /\ Base3 > 56
  /\ Word \in Nat /\ Word = Base * Base3 /\ Word > 56
<1>1. Base \in Nat /\ Base > 7
  BY ByteAssumption DEF PIECE, Byte
<1>2. Base2 \in Nat /\ Base2 > 56
  <2>1. Base * Base >= 8 * Base
    BY <1>1
  <2> QED BY <1>1, <2>1 DEF Base2
<1>3. Base3 \in Nat /\ Base3 > 56
  <2>1. Base * Base2 >= Base2
    BY <1>1, <1>2
  <2> QED BY <1>1, <1>2, <2>1 DEF Base3
<1>4. Word \in Nat /\ Word > 56
  <2>1. Base * Base3 >= Base3
    BY <1>1, <1>3
  <2> QED BY <1>1, <1>3, <2>1 DEF Word
<1> QED BY <1>1, <1>2, <1>3, <1>4 DEF Base2, Base3, Word

\* A number is its four bytes.
LEMMA FourBytes ==
  ASSUME NEW n \in Int32
  PROVE  /\ BigEndian(n) \in Seq(Byte) /\ Len(BigEndian(n)) = 4
         /\ n = BigEndian(n)[1] * Base3 + BigEndian(n)[2] * Base2
                + BigEndian(n)[3] * Base + BigEndian(n)[4]
<1> DEFINE q1 == n \div Base
           q2 == n \div Base2
           q3 == n \div Base3
<1>1. /\ Base \in Nat /\ Base > 0 /\ Base2 = Base * Base
      /\ Base3 = Base2 * Base /\ Word = Base * Base3
      /\ Base2 \in Nat /\ Base2 > 0 /\ Base3 \in Nat /\ Base3 > 0
      /\ n \in Nat /\ n < Base * Base3
  <2>1. n \in 0 .. Word - 1
    BY DEF Int32
  <2> QED BY <2>1, BaseFacts
<1>2. n = q1 * Base + (n % Base) /\ q1 \in Nat /\ n % Base \in 0 .. Base - 1
  BY <1>1, DivMod
<1>3. /\ q1 = q2 * Base + (q1 % Base) /\ q2 \in Nat
      /\ q1 % Base \in 0 .. Base - 1
  <2>1. q2 = q1 \div Base
    BY <1>1, DivDiv
  <2> HIDE DEF q1, q2
  <2> QED BY <1>1, <1>2, <2>1, DivMod
<1>4. /\ q2 = q3 * Base + (q2 % Base) /\ q3 \in Nat
      /\ q2 % Base \in 0 .. Base - 1
  <2>1. q3 = q2 \div Base
    BY <1>1, DivDiv
  <2> HIDE DEF q2, q3
  <2> QED BY <1>1, <1>3, <2>1, DivMod
<1>5. q3 < Base
  <2>1. n = q3 * Base3 + (n % Base3) /\ n % Base3 \in 0 .. Base3 - 1
    BY <1>1, DivMod
  <2> HIDE DEF q3
  <2>2. q3 >= Base => q3 * Base3 >= Base * Base3
    BY <1>1, <1>4
  <2>3. q3 * Base3 \in Nat /\ Base * Base3 \in Nat
    BY <1>1, <1>4
  <2> QED BY <1>1, <1>4, <2>1, <2>2, <2>3
<1>6. q3 % Base = q3
  <2> HIDE DEF q3
  <2>1. q3 = 0 * Base + q3 /\ q3 \in 0 .. Base - 1
    BY <1>1, <1>4, <1>5
  <2> QED BY <1>1, <1>4, <2>1, DivUnique
<1>7. BigEndian(n) = <<q3 % Base, q2 % Base, q1 % Base, n % Base>>
  BY DEF BigEndian
<1> DEFINE d1 == q3 % Base
           d2 == q2 % Base
           d3 == q1 % Base
           d4 == n % Base
<1>8. d1 \in Byte /\ d2 \in Byte /\ d3 \in Byte /\ d4 \in Byte
  <2>1. d1 \in 0 .. Base - 1
    BY <1>4, <1>5, <1>6, <1>1
  <2> QED BY <1>2, <1>3, <1>4, <2>1 DEF Byte
<1>9. n = d1 * Base3 + d2 * Base2 + d3 * Base + d4
  <2> HIDE DEF q1, q2, q3
  <2>1. n = q1 * Base + d4 /\ q1 = q2 * Base + d3 /\ q2 = d1 * Base + d2
    BY <1>2, <1>3, <1>4, <1>6
  <2>2. d1 \in Nat /\ d2 \in Nat /\ d3 \in Nat /\ d4 \in Nat
    BY <1>1, <1>8 DEF Byte
  <2> HIDE DEF d1, d2, d3, d4
  <2>3. q1 = d1 * Base2 + d2 * Base + d3
    BY <1>1, <2>1, <2>2
  <2>4. q1 * Base = d1 * Base3 + d2 * Base2 + d3 * Base
    <3>1. (d1 * Base2) * Base = d1 * Base3 /\ (d2 * Base) * Base = d2 * Base2
      BY <1>1, <2>2
    <3>2. d1 * Base2 \in Nat /\ d2 * Base \in Nat
      BY <1>1, <2>2
    <3>3. (d1 * Base2 + d2 * Base + d3) * Base
            = (d1 * Base2) * Base + (d2 * Base) * Base + d3 * Base
      BY <1>1, <2>2, <3>2
    <3> QED BY <2>3, <3>1, <3>3
  <2> QED BY <2>1, <2>2, <2>4
<1> HIDE DEF d1, d2, d3, d4
<1>10. BigEndian(n) = <<d1, d2, d3, d4>>
  BY <1>7 DEF d1, d2, d3, d4
<1>11. /\ BigEndian(n)[1] = d1 /\ BigEndian(n)[2] = d2
       /\ BigEndian(n)[3] = d3 /\ BigEndian(n)[4] = d4
  BY <1>10
<1>12. BigEndian(n) \in Seq(Byte) /\ Len(BigEndian(n)) = 4
  BY <1>8, <1>10
<1> QED
  <2>1. n = BigEndian(n)[1] * Base3 + BigEndian(n)[2] * Base2
            + BigEndian(n)[3] * Base + BigEndian(n)[4]
    BY <1>9, <1>11, Zenon
  <2> QED BY <1>12, <2>1

\* What is read of it, where it stands in a sequence of bytes.
LEMMA ReadsBack ==
  ASSUME NEW n \in Int32, NEW b, NEW k \in Nat,
         \A j \in 1 .. 4 : b[k + j] = BigEndian(n)[j]
  PROVE  ReadBE32(b, k) = n
<1>1. /\ b[k + 1] = BigEndian(n)[1] /\ b[k + 2] = BigEndian(n)[2]
      /\ b[k + 3] = BigEndian(n)[3] /\ b[k + 4] = BigEndian(n)[4]
  OBVIOUS
<1> QED BY <1>1, FourBytes DEF ReadBE32

\* PushInt32 appends these bytes, low numbers without high ones.
LEMMA PushAppends ==
  ASSUME NEW b, NEW n
  PROVE  PushInt32(b, n) = b \o BigEndian(n)
BY DEF PushInt32, BigEndian

LEMMA SmallNumber ==
  ASSUME NEW n \in 0 .. 56
  PROVE  n \in Int32 /\ BigEndian(n)[1] = 0
<1>1. n \in Nat /\ Base3 \in Nat /\ n < Base3 /\ Base \in Nat /\ Base > 7
  BY BaseFacts
<1>2. n \div Base3 = 0
  <2>1. n = 0 * Base3 + n /\ n \in 0 .. Base3 - 1
    BY <1>1
  <2> QED BY <1>1, <2>1, DivUnique
<1>3. 0 % Base = 0
  <2>1. 0 = 0 * Base + 0 /\ 0 \in 0 .. Base - 1
    BY <1>1
  <2> QED BY <1>1, <2>1, DivUnique
<1>4. n \in Int32
  BY BaseFacts DEF Int32
<1> QED BY <1>2, <1>3, <1>4 DEF BigEndian

-----------------------------------------------------------------------------
(* What the peer reads in our bytes. *)

LEMMA Joined ==
  ASSUME NEW a \in Seq(Byte), NEW b \in Seq(Byte)
  PROVE  /\ a \o b \in Seq(Byte) /\ Len(a \o b) = Len(a) + Len(b)
         /\ \A j \in 1 .. Len(a) : (a \o b)[j] = a[j]
         /\ \A j \in 1 .. Len(b) : (a \o b)[Len(a) + j] = b[j]
OBVIOUS

LEMMA FoundAt ==
  ASSUME NEW t \in Seq(Byte), NEW b \in Seq(Byte), NEW k \in Nat,
         k + Len(b) <= Len(t), \A j \in 1 .. Len(b) : t[k + j] = b[j]
  PROVE  SubSeq(t, k + 1, k + Len(b)) = b
<1> DEFINE n == Len(b)
           u == SubSeq(t, k + 1, k + n)
<1>1. n \in Nat
  OBVIOUS
<1> HIDE DEF n
<1>2. /\ u \in Seq(Byte) /\ Len(u) = n
      /\ \A j \in 1 .. n : u[j] = t[k + j]
  BY <1>1 DEF n
<1> HIDE DEF u
<1>3. u = b
  BY <1>2 DEF n
<1> QED BY <1>3 DEF u, n

\* A part of a sequence is found where it was put.
LEMMA Middle ==
  ASSUME NEW a \in Seq(Byte), NEW b \in Seq(Byte), NEW c \in Seq(Byte)
  PROVE  /\ a \o b \o c \in Seq(Byte) /\ Len(a \o b \o c) = Len(a) + Len(b) + Len(c)
         /\ SubSeq(a \o b \o c, Len(a) + 1, Len(a) + Len(b)) = b
         /\ SubSeq(a \o b \o c, Len(a) + Len(b) + 1, Len(a \o b \o c)) = c
<1> DEFINE t == a \o b \o c
<1>1. /\ t \in Seq(Byte) /\ Len(t) = Len(a) + Len(b) + Len(c)
      /\ \A j \in 1 .. Len(b) : t[Len(a) + j] = b[j]
      /\ \A j \in 1 .. Len(c) : t[Len(a) + Len(b) + j] = c[j]
      /\ Len(a) \in Nat /\ Len(b) \in Nat /\ Len(c) \in Nat
  <2>1. Len(a) \in Nat /\ Len(b) \in Nat /\ Len(c) \in Nat
    OBVIOUS
  <2> DEFINE ab == a \o b
  <2>2. /\ ab \in Seq(Byte) /\ Len(ab) = Len(a) + Len(b)
        /\ \A j \in 1 .. Len(b) : ab[Len(a) + j] = b[j]
    BY Joined, Zenon
  <2>3. t = ab \o c
    OBVIOUS
  <2> HIDE DEF ab, t
  <2>4. /\ t \in Seq(Byte) /\ Len(t) = Len(ab) + Len(c)
        /\ \A j \in 1 .. Len(ab) : t[j] = ab[j]
        /\ \A j \in 1 .. Len(c) : t[Len(ab) + j] = c[j]
    <3>1. ab \in Seq(Byte) /\ c \in Seq(Byte)
      BY <2>2
    <3>2. /\ ab \o c \in Seq(Byte) /\ Len(ab \o c) = Len(ab) + Len(c)
          /\ \A j \in 1 .. Len(ab) : (ab \o c)[j] = ab[j]
          /\ \A j \in 1 .. Len(c) : (ab \o c)[Len(ab) + j] = c[j]
      BY ONLY <3>1, Joined
    <3> QED BY <2>3, <3>2, Zenon
  <2>5. \A j \in 1 .. Len(b) : Len(a) + j \in 1 .. Len(ab)
    BY <2>1, <2>2
  <2> QED BY <2>1, <2>2, <2>4, <2>5
<1> HIDE DEF t
<1>2. SubSeq(t, Len(a) + 1, Len(a) + Len(b)) = b
  <2>1. /\ t \in Seq(Byte) /\ b \in Seq(Byte) /\ Len(a) \in Nat
        /\ Len(a) + Len(b) <= Len(t) /\ \A j \in 1 .. Len(b) : t[Len(a) + j] = b[j]
    BY <1>1
  <2> QED BY ONLY <2>1, FoundAt
<1>3. SubSeq(t, Len(a) + Len(b) + 1, Len(t)) = c
  <2>1. /\ Len(a) + Len(b) \in Nat
        /\ Len(t) = (Len(a) + Len(b)) + Len(c)
        /\ \A j \in 1 .. Len(c) : t[(Len(a) + Len(b)) + j] = c[j]
    BY <1>1
  <2>2. SubSeq(t, (Len(a) + Len(b)) + 1, (Len(a) + Len(b)) + Len(c)) = c
    <3>1. /\ t \in Seq(Byte) /\ c \in Seq(Byte)
          /\ (Len(a) + Len(b)) + Len(c) <= Len(t)
      BY <1>1
    <3> DEFINE k == Len(a) + Len(b)
    <3> HIDE DEF k
    <3>2. k \in Nat /\ \A j \in 1 .. Len(c) : t[k + j] = c[j]
      BY <2>1 DEF k
    <3>3. k + Len(c) <= Len(t)
      BY <3>1 DEF k
    <3>4. SubSeq(t, k + 1, k + Len(c)) = c
      BY ONLY <3>1, <3>2, <3>3, FoundAt
    <3> QED BY <3>4 DEF k
  <2> QED BY <2>1, <2>2, Zenon
<1> QED BY <1>1, <1>2, <1>3 DEF t

LEMMA Appended ==
  ASSUME NEW a \in Seq(Byte), NEW e \in Byte
  PROVE  /\ Append(a, e) \in Seq(Byte) /\ Len(Append(a, e)) = Len(a) + 1
         /\ Append(a, e)[Len(a) + 1] = e
         /\ \A j \in 1 .. Len(a) : Append(a, e)[j] = a[j]
         /\ SubSeq(Append(a, e), 1, Len(a)) = a
OBVIOUS

LEMMA NotEmpty ==
  ASSUME NEW a \in Seq(Byte), Len(a) > 0
  PROVE  a # <<>>
OBVIOUS

LEMMA Regroup ==
  ASSUME NEW a \in Seq(Byte), NEW b \in Seq(Byte), NEW c \in Seq(Byte)
  PROVE  a \o (b \o c) = a \o b \o c
OBVIOUS

LEMMA HandshakeRead ==
  /\ BuildHandshake \in Seq(Byte) /\ Len(BuildHandshake) = HandshakeLen
  /\ PeerReads(BuildHandshake) =
       [type |-> "handshake", info_hash |-> InfoHash, peer_id |-> PeerId]
<1> DEFINE l == <<Len(Proto)>>
           z == Zeros(Reserved)
           h == BuildHandshake
           at == Len(Proto) + Reserved + 1
<1>1. /\ l \in Seq(Byte) /\ Len(l) = 1 /\ Proto \in Seq(Byte)
      /\ InfoHash \in Seq(Byte) /\ PeerId \in Seq(Byte)
      /\ Len(Proto) \in Nat /\ Reserved \in Nat
      /\ Len(InfoHash) \in Nat /\ Len(PeerId) \in Nat
  BY FramingConstants
<1>2. z \in Seq(Byte) /\ Len(z) = Reserved
  BY FramingConstants, BaseFacts DEF Zeros, Byte
<1> HIDE DEF l, z
<1>3. h = l \o Proto \o z \o InfoHash \o PeerId
  BY DEF h, l, z, BuildHandshake
<1> HIDE DEF h
<1>4. /\ h \in Seq(Byte)
      /\ Len(h) = 1 + Len(Proto) + Reserved + Len(InfoHash) + Len(PeerId)
      /\ h[1] = Len(Proto) /\ SubSeq(h, 2, Len(Proto) + 1) = Proto
  <2> DEFINE c == z \o InfoHash \o PeerId
  <2>1. c \in Seq(Byte) /\ Len(c) = Reserved + Len(InfoHash) + Len(PeerId)
    <3>1. z \in Seq(Byte) /\ InfoHash \in Seq(Byte) /\ PeerId \in Seq(Byte)
      BY <1>1, <1>2
    <3>2. c \in Seq(Byte) /\ Len(c) = Len(z) + Len(InfoHash) + Len(PeerId)
      BY ONLY <3>1, Middle
    <3> QED BY <1>2, <3>2, Zenon
  <2>2. h = l \o Proto \o c
    <3>1. l \o Proto \in Seq(Byte) /\ z \o InfoHash \in Seq(Byte)
      BY <1>1, <1>2, Joined
    <3>2. c = z \o (InfoHash \o PeerId)
      BY <1>1, <1>2, Regroup
    <3>3. InfoHash \o PeerId \in Seq(Byte) /\ l \o Proto \o z \in Seq(Byte)
      BY <1>1, <1>2, <3>1, Joined
    <3>4. l \o Proto \o c = l \o Proto \o z \o (InfoHash \o PeerId)
      <4> DEFINE p == l \o Proto
                 q == InfoHash \o PeerId
      <4>1. p \in Seq(Byte) /\ z \in Seq(Byte) /\ q \in Seq(Byte)
        BY <1>2, <3>1, <3>3
      <4> HIDE DEF p, q
      <4>2. p \o (z \o q) = p \o z \o q
        BY ONLY <4>1, Regroup
      <4> QED BY <3>2, <4>2, Zenon DEF p, q
    <3>5. l \o Proto \o z \o (InfoHash \o PeerId) = h
      <4> DEFINE q == l \o Proto \o z
      <4>1. q \in Seq(Byte) /\ InfoHash \in Seq(Byte) /\ PeerId \in Seq(Byte)
        BY <1>1, <3>3
      <4> HIDE DEF q
      <4>2. q \o (InfoHash \o PeerId) = q \o InfoHash \o PeerId
        BY ONLY <4>1, Regroup
      <4> QED BY <1>3, <4>2, Zenon DEF q
    <3> QED BY <3>4, <3>5
  <2> HIDE DEF c
  <2>3. /\ h \in Seq(Byte) /\ Len(h) = 1 + Len(Proto) + Len(c)
        /\ SubSeq(h, Len(l) + 1, Len(l) + Len(Proto)) = Proto
    <3>1. Len(l) = 1 /\ Len(c) \in Nat
      BY <1>1, <2>1
    <3>2. /\ h \in Seq(Byte) /\ Len(h) = Len(l) + Len(Proto) + Len(c)
          /\ SubSeq(h, Len(l) + 1, Len(l) + Len(Proto)) = Proto
      <4>1. /\ l \o Proto \o c \in Seq(Byte)
            /\ Len(l \o Proto \o c) = Len(l) + Len(Proto) + Len(c)
            /\ SubSeq(l \o Proto \o c, Len(l) + 1, Len(l) + Len(Proto)) = Proto
        <5>1. l \in Seq(Byte) /\ Proto \in Seq(Byte) /\ c \in Seq(Byte)
          BY <1>1, <2>1
        <5> QED BY ONLY <5>1, Middle
      <4> QED BY <2>2, <4>1, Zenon
    <3> QED BY <3>1, <3>2, Zenon
  <2>4. h[1] = l[1]
    <3>1. l \o Proto \in Seq(Byte) /\ (l \o Proto)[1] = l[1] /\ Len(l \o Proto) >= 1
      BY <1>1, Joined
    <3> QED BY <2>1, <2>2, <3>1, Joined
  <2>5. Len(l) + 1 = 2 /\ Len(l) + Len(Proto) = Len(Proto) + 1 /\ l[1] = Len(Proto)
    BY <1>1 DEF l
  <2> QED BY <1>1, <2>1, <2>3, <2>4, <2>5
<1>6. /\ SubSeq(h, at + 1, at + Len(InfoHash)) = InfoHash
      /\ SubSeq(h, at + Len(InfoHash) + 1, Len(h)) = PeerId
  <2> DEFINE a == l \o Proto \o z
  <2>1. a \in Seq(Byte) /\ Len(a) = at
    <3>1. a \in Seq(Byte) /\ Len(a) = Len(l) + Len(Proto) + Len(z)
      <4>1. l \in Seq(Byte) /\ Proto \in Seq(Byte) /\ z \in Seq(Byte)
        BY <1>1, <1>2
      <4> QED BY ONLY <4>1, Middle
    <3> QED BY <1>1, <1>2, <3>1
  <2>2. h = a \o InfoHash \o PeerId
    BY <1>3
  <2> HIDE DEF a
  <2>3. /\ SubSeq(a \o InfoHash \o PeerId, Len(a) + 1, Len(a) + Len(InfoHash))
             = InfoHash
        /\ SubSeq(a \o InfoHash \o PeerId, Len(a) + Len(InfoHash) + 1,
                  Len(a \o InfoHash \o PeerId)) = PeerId
    <3>1. a \in Seq(Byte) /\ InfoHash \in Seq(Byte) /\ PeerId \in Seq(Byte)
      BY <1>1, <2>1
    <3> QED BY ONLY <3>1, Middle
  <2> QED BY <2>1, <2>2, <2>3, Zenon
<1>7. PeerReads(h) =
        [type |-> "handshake", info_hash |-> InfoHash, peer_id |-> PeerId]
  BY <1>4, <1>6 DEF PeerReads
<1> QED BY <1>4, <1>7, FramingConstants DEF h

\* Any other message of ours begins with a length below 57, and the protocol
\* has a name.
LEMMA NoHandshake ==
  ASSUME NEW b, b[1] = 0
  PROVE  PeerReads(b) =
           IF SubSeq(b, 1, 4) # BigEndian(Len(b) - 4) THEN [type |-> "garbled"]
           ELSE IF b[5] = INTERESTED THEN [type |-> "interested"]
           ELSE [type |-> "request", index |-> NumberAt(b, 5),
                 begin |-> NumberAt(b, 9), len |-> NumberAt(b, 13)]
<1>1. Len(Proto) # 0
  BY FramingConstants
<1> QED BY <1>1 DEF PeerReads

LEMMA InterestedRead ==
  /\ BuildInterested \in Seq(Byte) /\ BuildInterested # <<>>
  /\ PeerReads(BuildInterested) = [type |-> "interested"]
<1> DEFINE n == BigEndian(1)
           b == BuildInterested
<1>1. n \in Seq(Byte) /\ Len(n) = 4 /\ n[1] = 0
  BY SmallNumber, FourBytes
<1>2. b = Append(n, INTERESTED)
  <2>1. PushInt32(<<>>, 1) = n
    BY <1>1, PushAppends
  <2> QED BY <2>1 DEF BuildInterested
<1> HIDE DEF n, b
<1>3. INTERESTED \in Byte
  BY BaseFacts DEF INTERESTED, Byte
<1>4. b \in Seq(Byte) /\ Len(b) = 5 /\ b[5] = INTERESTED /\ b[1] = 0
  <2>1. /\ b \in Seq(Byte) /\ Len(b) = Len(n) + 1 /\ b[Len(n) + 1] = INTERESTED
        /\ \A j \in 1 .. Len(n) : b[j] = n[j]
    BY <1>1, <1>2, <1>3, Appended
  <2>2. Len(n) + 1 = 5 /\ 1 \in 1 .. Len(n)
    BY <1>1
  <2>3. b[1] = 0
    BY <1>1, <2>1, <2>2
  <2> QED BY <2>1, <2>2, <2>3, Zenon
<1>5. SubSeq(b, 1, 4) = n
  BY <1>1, <1>2, <1>3, Appended
<1>6. PeerReads(b) = [type |-> "interested"]
  <2>1. Len(b) - 4 = 1
    BY <1>4
  <2> QED BY <1>4, <1>5, <2>1, NoHandshake DEF n
<1>7. b # <<>>
  <2>1. Len(b) > 0
    BY <1>4
  <2> QED BY <1>4, <2>1, NotEmpty, Zenon
<1> QED BY <1>4, <1>6, <1>7 DEF b

\* A peer finds the number that was laid out.
LEMMA NumberFound ==
  ASSUME NEW n \in Int32, NEW b, NEW k \in Nat,
         SubSeq(b, k + 1, k + 4) = BigEndian(n)
  PROVE  NumberAt(b, k) = n
<1>1. \A i \in Int32 : BigEndian(i) = BigEndian(n) => i = n
  BY FourBytes, Zenon
<1>2. \A i \in Int32 : BigEndian(i) = SubSeq(b, k + 1, k + 4) <=> i = n
  BY <1>1
<1> QED BY <1>2 DEF NumberAt, Int32

LEMMA RequestRead ==
  ASSUME NEW r \in Requests
  PROVE  /\ BuildRequest(r) \in Seq(Byte) /\ BuildRequest(r) # <<>>
         /\ PeerReads(BuildRequest(r)) =
              [type |-> "request", index |-> r.index, begin |-> r.begin,
               len |-> r.len]
<1>1. r.index \in Int32 /\ r.begin \in Int32 /\ r.len \in Int32
  BY FramingConstants
<1> DEFINE n == BigEndian(13)
           x == BigEndian(r.index)
           y == BigEndian(r.begin)
           z == BigEndian(r.len)
           b == BuildRequest(r)
<1>2. n \in Seq(Byte) /\ Len(n) = 4 /\ n[1] = 0
  BY SmallNumber, FourBytes
<1>3. /\ x \in Seq(Byte) /\ Len(x) = 4
      /\ y \in Seq(Byte) /\ Len(y) = 4
      /\ z \in Seq(Byte) /\ Len(z) = 4
  BY <1>1, FourBytes
<1>4. REQUEST \in Byte
  BY BaseFacts DEF REQUEST, Byte
<1>5. b = Append(n, REQUEST) \o x \o y \o z
  <2>1. PushInt32(<<>>, 13) = n
    BY <1>2, PushAppends
  <2> QED BY <2>1, PushAppends DEF BuildRequest
<1> HIDE DEF n, x, y, z, b
<1>6. /\ b \in Seq(Byte) /\ Len(b) = 17 /\ b[1] = 0 /\ b[5] = REQUEST
      /\ \A j \in 1 .. 4 : /\ b[j] = n[j] /\ b[5 + j] = x[j]
                           /\ b[9 + j] = y[j] /\ b[13 + j] = z[j]
  <2> DEFINE a == Append(n, REQUEST)
             c == a \o x
             d == c \o y
  <2>1. /\ a \in Seq(Byte) /\ Len(a) = Len(n) + 1 /\ a[Len(n) + 1] = REQUEST
        /\ \A j \in 1 .. Len(n) : a[j] = n[j]
    BY <1>2, <1>4, Appended, Zenon
  <2> HIDE DEF a
  <2>2. /\ c \in Seq(Byte) /\ Len(c) = Len(a) + Len(x)
        /\ \A j \in 1 .. Len(a) : c[j] = a[j]
        /\ \A j \in 1 .. Len(x) : c[Len(a) + j] = x[j]
    BY <1>3, <2>1, Joined, Zenon
  <2> HIDE DEF c
  <2>3. /\ d \in Seq(Byte) /\ Len(d) = Len(c) + Len(y)
        /\ \A j \in 1 .. Len(c) : d[j] = c[j]
        /\ \A j \in 1 .. Len(y) : d[Len(c) + j] = y[j]
    BY <1>3, <2>2, Joined, Zenon
  <2> HIDE DEF d
  <2>4. b = d \o z
    BY <1>5 DEF a, c, d
  <2>5. /\ b \in Seq(Byte) /\ Len(b) = Len(d) + Len(z)
        /\ \A j \in 1 .. Len(d) : b[j] = d[j]
        /\ \A j \in 1 .. Len(z) : b[Len(d) + j] = z[j]
    <3>1. /\ d \o z \in Seq(Byte) /\ Len(d \o z) = Len(d) + Len(z)
          /\ \A j \in 1 .. Len(d) : (d \o z)[j] = d[j]
          /\ \A j \in 1 .. Len(z) : (d \o z)[Len(d) + j] = z[j]
      BY <1>3, <2>3, Joined, Zenon
    <3> QED BY <2>4, <3>1, Zenon
  <2>6. Len(n) = 4 /\ Len(x) = 4 /\ Len(y) = 4 /\ Len(z) = 4 /\ n[1] = 0
    BY <1>2, <1>3, Zenon
  <2>7. Len(a) = 5 /\ Len(c) = 9 /\ Len(d) = 13 /\ Len(b) = 17
    <3>1. /\ Len(a) = Len(n) + 1 /\ Len(c) = Len(a) + Len(x)
          /\ Len(d) = Len(c) + Len(y) /\ Len(b) = Len(d) + Len(z)
      BY <2>1, <2>2, <2>3, <2>5, Zenon
    <3> QED BY <2>6, <3>1
  <2>8. \A j \in 1 .. 13 : b[j] = d[j]
    BY <2>5, <2>7, Zenon
  <2>9. \A j \in 1 .. 9 : d[j] = c[j]
    BY <2>3, <2>7, Zenon
  <2>10. \A j \in 1 .. 5 : c[j] = a[j]
    BY <2>2, <2>7, Zenon
  <2>11. \A j \in 1 .. 4 : a[j] = n[j]
    BY <2>1, <2>6, Zenon
  <2>12. \A j \in 1 .. 4 : c[5 + j] = x[j]
    BY <2>2, <2>6, <2>7, Zenon
  <2>13. \A j \in 1 .. 4 : d[9 + j] = y[j]
    BY <2>3, <2>6, <2>7, Zenon
  <2>14. \A j \in 1 .. 4 : b[13 + j] = z[j]
    BY <2>5, <2>6, <2>7, Zenon
  <2>15. a[5] = REQUEST
    <3>1. a[4 + 1] = REQUEST
      BY <2>1, <2>6, Zenon
    <3> QED BY <3>1
  <2>16. b[1] = 0 /\ b[5] = REQUEST
    BY <2>6, <2>8, <2>9, <2>10, <2>11, <2>15
  <2>17. \A j \in 1 .. 4 : b[j] = n[j] /\ b[5 + j] = x[j] /\ b[9 + j] = y[j]
    BY <2>8, <2>9, <2>10, <2>11, <2>12, <2>13
  <2> QED BY <2>5, <2>7, <2>14, <2>16, <2>17, Zenon
<1>7. /\ SubSeq(b, 1, 4) = n /\ SubSeq(b, 6, 9) = x
      /\ SubSeq(b, 10, 13) = y /\ SubSeq(b, 14, 17) = z
  BY <1>2, <1>3, <1>6
<1>8. NumberAt(b, 5) = r.index /\ NumberAt(b, 9) = r.begin /\ NumberAt(b, 13) = r.len
  BY <1>1, <1>7, NumberFound DEF x, y, z
<1>9. REQUEST # INTERESTED
  BY DEF REQUEST, INTERESTED
<1>10. PeerReads(b) = [type |-> "request", index |-> r.index, begin |-> r.begin,
                       len |-> r.len]
  <2>1. Len(b) - 4 = 13
    BY <1>6
  <2>2. SubSeq(b, 1, 4) = BigEndian(Len(b) - 4) /\ b[5] # INTERESTED
    BY <1>6, <1>7, <1>9, <2>1, Zenon DEF n
  <2>3. b[1] = 0
    BY <1>6
  <2> QED BY <1>8, <2>2, <2>3, NoHandshake
<1>11. b # <<>>
  <2>1. Len(b) > 0
    BY <1>6
  <2> QED BY <1>6, <2>1, NotEmpty, Zenon
<1> QED BY <1>6, <1>10, <1>11 DEF b

-----------------------------------------------------------------------------
(* The messages of the peer, and what the loop reads in them. *)

\* The id and the payload of a message.
Id(m) ==
  CASE m.type = "choke" -> CHOKE
    [] m.type = "unchoke" -> UNCHOKE
    [] m.type = "have" -> HAVE_ID
    [] m.type = "bitfield" -> BITFIELD
    [] m.type \in {"piece", "stub"} -> PIECE

Payload(m) ==
  CASE m.type \in {"choke", "unchoke"} -> <<>>
    [] m.type \in {"have", "stub"} -> BigEndian(m.index)
    [] m.type = "bitfield" -> BitfieldBytes(m.pieces)
    [] m.type = "piece" -> BigEndian(m.index) \o BigEndian(m.begin) \o m.data

\* A byte for the bits of any pieces.
LEMMA BitsOfByte ==
  ASSUME NEW S \in SUBSET (0 .. NumPieces - 1), NEW i \in Nat
  PROVE  \E byte \in Byte : \A bit \in 0 .. Bits - 1 :
           Bit(byte, Bits - 1 - bit) = 1 <=> i * Bits + bit \in S
<1> DEFINE on == {k \in 0 .. Bits - 1 : i * Bits + (Bits - 1 - k) \in S}
<1>1. PICK byte \in Byte :
        \A k \in 0 .. Bits - 1 : Bit(byte, k) = 1 <=> k \in on
  <2>1. on \in SUBSET (0 .. Bits - 1)
    OBVIOUS
  <2> HIDE DEF on
  <2> QED BY <2>1, ByteAssumption
<1>2. ASSUME NEW bit \in 0 .. Bits - 1
      PROVE  Bit(byte, Bits - 1 - bit) = 1 <=> i * Bits + bit \in S
  <2> DEFINE k == Bits - 1 - bit
  <2>1. k \in 0 .. Bits - 1 /\ Bits - 1 - k = bit
    BY FramingConstants
  <2> HIDE DEF k
  <2>2. Bit(byte, k) = 1 <=> i * Bits + (Bits - 1 - k) \in S
    BY <1>1, <2>1
  <2> QED BY <2>1, <2>2 DEF k
<1> QED BY <1>2

\* What the loops make of a bitfield is what the peer has.
LEMMA BitfieldRead ==
  ASSUME NEW S \in SUBSET (0 .. NumPieces - 1)
  PROVE  BitfieldBytes(S) \in Seq(Byte) /\ PiecesOf(BitfieldBytes(S)) = S
<1> DEFINE n == (NumPieces + Bits - 1) \div Bits
           b == BitfieldBytes(S)
           on(byte, i) == \A bit \in 0 .. Bits - 1 :
                            Bit(byte, Bits - 1 - bit) = 1 <=> i * Bits + bit \in S
<1>1. Bits \in Nat /\ Bits > 0 /\ NumPieces \in Nat /\ NumPieces > 0
  BY FramingConstants
<1>2. n \in Nat /\ n * Bits >= NumPieces
  <2> DEFINE t == NumPieces + Bits - 1
  <2>1. t \in Nat
    BY <1>1
  <2> HIDE DEF t
  <2>2. t = (t \div Bits) * Bits + (t % Bits) /\ t \div Bits \in Nat
        /\ t % Bits \in 0 .. Bits - 1
    BY <1>1, <2>1, DivMod
  <2> DEFINE q == t \div Bits
             w == q * Bits
  <2>3. q \in Nat /\ w \in Nat /\ t = w + (t % Bits)
    BY <1>1, <2>2
  <2>4. n = q
    BY DEF t
  <2> HIDE DEF n, q, w
  <2>5. w >= NumPieces
    BY <1>1, <2>2, <2>3 DEF t
  <2> QED BY <2>3, <2>4, <2>5 DEF w
<1> HIDE DEF n
<1>3. b = [i \in 1 .. n |-> CHOOSE byte \in Byte : on(byte, i - 1)]
  BY DEF BitfieldBytes, n
<1> HIDE DEF b
<1>4. ASSUME NEW i \in 1 .. n
      PROVE  b[i] \in Byte /\ on(b[i], i - 1)
  <2>1. \E byte \in Byte : on(byte, i - 1)
    <3>1. i - 1 \in Nat
      BY <1>2
    <3> DEFINE k == i - 1
    <3> HIDE DEF k
    <3>2. \E byte \in Byte : on(byte, k)
      BY <3>1, BitsOfByte DEF k
    <3> QED BY <3>2 DEF k
  <2>2. b[i] = CHOOSE byte \in Byte : on(byte, i - 1)
    BY <1>3
  <2> HIDE DEF on
  <2> QED BY <2>1, <2>2
<1>5. b \in Seq(Byte) /\ Len(b) = n
  BY <1>2, <1>3, <1>4
<1>6. ASSUME NEW p \in S
      PROVE  p \in PiecesOf(b)
  <2> DEFINE i == p \div Bits
             bit == p % Bits
  <2>1. p \in Nat /\ p < NumPieces
    BY <1>1
  <2>2. p = i * Bits + bit /\ i \in Nat /\ bit \in 0 .. Bits - 1
    BY <1>1, <2>1, DivMod
  <2> HIDE DEF i, bit
  <2>3. i < n
    <3>1. i >= n => i * Bits >= n * Bits
      BY <1>1, <1>2, <2>2
    <3>2. i * Bits \in Nat /\ n * Bits \in Nat
      BY <1>1, <1>2, <2>2
    <3> QED BY <1>1, <1>2, <2>1, <2>2, <3>1, <3>2
  <2>4. on(b[i + 1], i)
    <3>1. i + 1 \in 1 .. n /\ (i + 1) - 1 = i
      BY <1>2, <2>2, <2>3
    <3> HIDE DEF on
    <3> QED BY <1>4, <3>1
  <2>5. Bit(b[i + 1], Bits - 1 - bit) = 1
    BY <2>2, <2>4
  <2>6. i \in 0 .. Len(b) - 1
    BY <1>2, <1>5, <2>2, <2>3
  <2> QED BY <2>2, <2>5, <2>6 DEF PiecesOf
<1>7. ASSUME NEW p \in PiecesOf(b)
      PROVE  p \in S
  <2>1. PICK i \in 0 .. Len(b) - 1, bit \in 0 .. Bits - 1 :
          p = i * Bits + bit /\ Bit(b[i + 1], Bits - 1 - bit) = 1
    BY DEF PiecesOf
  <2>2. i + 1 \in 1 .. n /\ (i + 1) - 1 = i
    BY <1>2, <1>5, <2>1
  <2>3. on(b[i + 1], i)
    <3> HIDE DEF on
    <3> QED BY <1>4, <2>2
  <2> QED BY <2>1, <2>3
<1>8. PiecesOf(b) \subseteq 0 .. NumPieces - 1
  BY DEF PiecesOf
<1> QED BY <1>5, <1>6, <1>7, <1>8 DEF b

\* A frame: its length, its id, its payload.
LEMMA FrameParts ==
  ASSUME NEW id \in Byte, NEW payload \in Seq(Byte),
         Len(Frame(id, payload)) < Word
  PROVE  LET f == Frame(id, payload) IN
         /\ f \in Seq(Byte) /\ Len(f) = 5 + Len(payload)
         /\ ReadBE32(f, 0) = Len(f) - 4 /\ f[5] = id
         /\ SubSeq(f, 6, Len(f)) = payload
<1> DEFINE f == Frame(id, payload)
           n == BigEndian(1 + Len(payload))
           e == <<id>>
<1>1. e \in Seq(Byte) /\ Len(e) = 1 /\ e[1] = id
  OBVIOUS
<1>2. Len(n) = 4 /\ n \in Seq(Byte)
  <2>1. /\ (1 + Len(payload)) \div Base3 % Base \in Byte
        /\ (1 + Len(payload)) \div Base2 % Base \in Byte
        /\ (1 + Len(payload)) \div Base % Base \in Byte
        /\ (1 + Len(payload)) % Base \in Byte
    <3> DEFINE l == 1 + Len(payload)
    <3>1. l \in Nat
      OBVIOUS
    <3> HIDE DEF l
    <3>2. l \div Base3 \in Nat /\ l \div Base2 \in Nat /\ l \div Base \in Nat
      BY <3>1, BaseFacts, DivMod
    <3>3. \A q \in Nat : q % Base \in Byte
      BY BaseFacts, DivMod DEF Byte
    <3> QED BY <3>1, <3>2, <3>3 DEF l
  <2> QED BY <2>1 DEF BigEndian
<1>3. f = n \o e \o payload
  BY DEF Frame
<1> HIDE DEF f, n, e
<1>4. /\ f \in Seq(Byte) /\ Len(f) = Len(n) + Len(e) + Len(payload)
      /\ SubSeq(f, Len(n) + Len(e) + 1, Len(f)) = payload
  <2>1. /\ n \o e \o payload \in Seq(Byte)
        /\ Len(n \o e \o payload) = Len(n) + Len(e) + Len(payload)
        /\ SubSeq(n \o e \o payload, Len(n) + Len(e) + 1, Len(n \o e \o payload))
             = payload
    <3>1. n \in Seq(Byte) /\ e \in Seq(Byte) /\ payload \in Seq(Byte)
      BY <1>1, <1>2
    <3> QED BY ONLY <3>1, Middle
  <2> QED BY <1>3, <2>1, Zenon
<1>5. Len(n) + Len(e) + 1 = 6 /\ Len(f) = 5 + Len(payload) /\ Len(payload) \in Nat
  <2>1. Len(n) = 4 /\ Len(e) = 1 /\ Len(f) = Len(n) + Len(e) + Len(payload)
    BY <1>1, <1>2, <1>4, Zenon
  <2>2. Len(payload) \in Nat
    OBVIOUS
  <2> QED BY <2>1, <2>2
<1>6. (\A j \in 1 .. 4 : f[j] = n[j]) /\ f[5] = id
  <2> DEFINE a == n \o e
  <2>1. /\ a \in Seq(Byte) /\ Len(a) = Len(n) + Len(e)
        /\ \A j \in 1 .. Len(n) : a[j] = n[j]
        /\ \A j \in 1 .. Len(e) : a[Len(n) + j] = e[j]
    BY <1>1, <1>2, Joined, Zenon
  <2>2. f = a \o payload
    BY <1>3
  <2> HIDE DEF a
  <2>3. \A j \in 1 .. Len(a) : f[j] = a[j]
    BY <2>1, <2>2, Joined
  <2>4. Len(n) = 4 /\ Len(e) = 1 /\ Len(a) = 5
    <3>1. Len(n) = 4 /\ Len(e) = 1 /\ Len(a) = Len(n) + Len(e)
      BY <1>1, <1>2, <2>1, Zenon
    <3> QED BY <3>1
  <2>5. \A j \in 1 .. 5 : f[j] = a[j]
    BY <2>3, <2>4, Zenon
  <2>6. \A j \in 1 .. 4 : a[j] = n[j]
    BY <2>1, <2>4, Zenon
  <2>7. \A j \in 1 .. 1 : a[4 + j] = e[j]
    BY <2>1, <2>4, Zenon
  <2>8. a[5] = id
    BY <1>1, <2>7
  <2> QED BY <2>5, <2>6, <2>8
<1>7. ReadBE32(f, 0) = Len(f) - 4
  <2>1. 1 + Len(payload) \in Int32 /\ 1 + Len(payload) = Len(f) - 4
    <3>1. Len(f) < Word
      BY DEF f
    <3> QED BY <1>5, <3>1, BaseFacts DEF Int32
  <2>2. \A j \in 1 .. 4 : f[0 + j] = n[j]
    BY <1>6
  <2> QED BY <2>1, <2>2, ReadsBack DEF n
<1>8. SubSeq(f, 6, Len(f)) = payload
  BY <1>4, <1>5, Zenon
<1> QED BY <1>4, <1>5, <1>6, <1>7, <1>8 DEF f

LEMMA KeepAliveParts ==
  ASSUME NEW b, b = BigEndian(0)
  PROVE  b \in Seq(Byte) /\ Len(b) = 4 /\ ReadBE32(b, 0) = 0
<1>1. 0 \in Int32
  BY SmallNumber
<1>2. \A j \in 1 .. 4 : b[0 + j] = BigEndian(0)[j]
  OBVIOUS
<1> QED BY <1>1, <1>2, FourBytes, ReadsBack

LEMMA GreetingParts == Greeting \in Seq(Byte) /\ Len(Greeting) = HandshakeLen
<1>1. /\ HandshakeLen \in Nat /\ Len(Proto) \in Byte /\ Base - 1 \in Byte
      /\ \A k \in DOMAIN Proto : Proto[k] \in Byte
  BY FramingConstants, BaseFacts DEF Byte
<1> QED BY <1>1 DEF Greeting

\* Every message but a keep-alive is a frame.
LEMMA MessageFrame ==
  ASSUME NEW m \in Messages, m.type # "keepalive"
  PROVE  /\ PeerBytes(m) = Frame(Id(m), Payload(m))
         /\ Id(m) \in Byte /\ Payload(m) \in Seq(Byte)
         /\ Len(Frame(Id(m), Payload(m))) < Word
<1>1. m \in Message /\ Len(PeerBytes(m)) < Word
  BY FramingConstants
<1>2. {CHOKE, UNCHOKE, HAVE_ID, BITFIELD, PIECE} \subseteq Byte
  BY BaseFacts DEF Byte, CHOKE, UNCHOKE, HAVE_ID, BITFIELD, PIECE
<1>3. CASE m.type \in {"choke", "unchoke"}
  <2>1. PeerBytes(m) = Frame(Id(m), Payload(m))
    BY <1>3 DEF PeerBytes, Id, Payload
  <2>2. Id(m) \in Byte /\ Payload(m) \in Seq(Byte)
    BY <1>2, <1>3 DEF Id, Payload
  <2> QED BY <1>1, <2>1, <2>2
<1>4. CASE m.type \in {"have", "stub"}
  <2>1. m.index \in Int32
    BY <1>1, <1>4 DEF Message
  <2>2. PeerBytes(m) = Frame(Id(m), Payload(m))
    BY <1>4 DEF PeerBytes, Id, Payload
  <2>3. Id(m) \in Byte /\ Payload(m) = BigEndian(m.index)
    BY <1>2, <1>4 DEF Id, Payload
  <2> QED BY <1>1, <2>1, <2>2, <2>3, FourBytes
<1>5. CASE m.type = "bitfield"
  <2>1. m.pieces \in SUBSET (0 .. NumPieces - 1)
    BY <1>1, <1>5 DEF Message
  <2>2. PeerBytes(m) = Frame(Id(m), Payload(m))
    BY <1>5 DEF PeerBytes, Id, Payload
  <2>3. Id(m) \in Byte /\ Payload(m) = BitfieldBytes(m.pieces)
    BY <1>2, <1>5 DEF Id, Payload
  <2> QED BY <1>1, <2>1, <2>2, <2>3, BitfieldRead
<1>6. CASE m.type = "piece"
  <2>1. m.index \in Int32 /\ m.begin \in Int32 /\ m.data \in Seq(Byte)
    BY <1>1, <1>6 DEF Message
  <2>2. PeerBytes(m) = Frame(Id(m), Payload(m))
    BY <1>6 DEF PeerBytes, Id, Payload
  <2>3. /\ Id(m) \in Byte
        /\ Payload(m) = BigEndian(m.index) \o BigEndian(m.begin) \o m.data
    BY <1>2, <1>6 DEF Id, Payload
  <2>4. Payload(m) \in Seq(Byte)
    <3>1. BigEndian(m.index) \in Seq(Byte) /\ BigEndian(m.begin) \in Seq(Byte)
      BY <2>1, FourBytes
    <3> QED BY <2>1, <2>3, <3>1
  <2> QED BY <1>1, <2>2, <2>3, <2>4
<1> QED BY <1>1, <1>3, <1>4, <1>5, <1>6 DEF Message

\* What is sent is understood, if what was sent before is.
LEMMA SentIsRead ==
  ASSUME PeerUnderstands, out \in Seq(Byte), RequestNextBlock
  PROVE  /\ PeerUnderstands' /\ out' \in Seq(Byte)
         /\ sock' \in {sock, FALSE}
<1>1. CASE UNCHANGED <<sock, outVars>>
  BY <1>1 DEF outVars, PeerUnderstands, PeerReads, NumberAt
<1>2. ASSUME NEW r \in Requests,
             Sends(BuildRequest(r), [type |-> "request", index |-> r.index,
                                     begin |-> r.begin, len |-> r.len])
      PROVE  PeerUnderstands' /\ out' \in Seq(Byte) /\ sock' \in {sock, FALSE}
  <2>1. /\ out' = BuildRequest(r) /\ sock' = sock
        /\ meant' = [type |-> "request", index |-> r.index,
                     begin |-> r.begin, len |-> r.len]
    BY <1>2 DEF Sends
  <2> QED BY <2>1, RequestRead DEF PeerUnderstands, PeerReads, NumberAt
<1>3. CASE SendThrows
  BY <1>3 DEF SendThrows, Throws, outVars, PeerUnderstands, PeerReads, NumberAt
<1> QED BY <1>1, <1>2, <1>3 DEF RequestNextBlock

\* The switch gives a message the peer meant to the handler it has a case for.
LEMMA Dispatched ==
  ASSUME PeerUnderstands, out \in Seq(Byte),
         NEW m \in Messages, m.type # "keepalive", Dispatch(Id(m), Payload(m))
  PROVE  /\ PeerUnderstands' /\ out' \in Seq(Byte)
         /\ sock' \in {sock, FALSE}
         /\ handled' = IF m \in Heeded THEN Append(handled, m) ELSE handled
<1> DEFINE id == Id(m)
           p == Payload(m)
<1> USE DEF CHOKE, UNCHOKE, HAVE_ID, BITFIELD, PIECE
<1>1. m \in Message
  BY FramingConstants
<1>2. ASSUME UNCHANGED outVars
      PROVE  PeerUnderstands' /\ out' \in Seq(Byte)
  BY <1>2 DEF outVars, PeerUnderstands, PeerReads, NumberAt
<1>3. CASE m.type = "unchoke"
  <2>1. id = UNCHOKE /\ m = [type |-> "unchoke"]
    BY <1>1, <1>3 DEF Id, Message
  <2>2. Handled(m) /\ RequestNextBlock
    BY <2>1 DEF Dispatch
  <2> QED BY <1>3, <2>2, SentIsRead DEF Handled, Heeded
<1>4. CASE m.type = "choke"
  <2>1. id = CHOKE /\ m = [type |-> "choke"]
    BY <1>1, <1>4 DEF Id, Message
  <2>2. Handled(m) /\ UNCHANGED <<sock, outVars>>
    BY <2>1 DEF Dispatch
  <2> QED BY <1>2, <1>4, <2>2 DEF Handled, Heeded
<1>5. CASE m.type = "have"
  <2>1. id = HAVE_ID
    BY <1>5 DEF Id
  <2>2. UNCHANGED <<sock, handled, outVars>>
    BY <2>1 DEF Dispatch
  <2> QED BY <1>2, <1>5, <2>2 DEF Heeded
<1>6. CASE m.type = "bitfield"
  <2>1. id = BITFIELD /\ p = BitfieldBytes(m.pieces)
    BY <1>6 DEF Id, Payload
  <2>2. m.pieces \in SUBSET (0 .. NumPieces - 1)
        /\ m = [type |-> "bitfield", pieces |-> m.pieces]
    BY <1>1, <1>6 DEF Message
  <2>3. PiecesOf(p) = m.pieces
    BY <2>1, <2>2, BitfieldRead
  <2>4. Handled(m) /\ UNCHANGED <<sock, outVars>>
    BY <2>1, <2>2, <2>3 DEF Dispatch
  <2> QED BY <1>2, <1>6, <2>4 DEF Handled, Heeded
<1>7. CASE m.type = "piece"
  <2> DEFINE x == BigEndian(m.index)
             y == BigEndian(m.begin)
  <2>1. id = PIECE /\ p = x \o y \o m.data
    BY <1>7 DEF Id, Payload
  <2>2. /\ m.index \in Int32 /\ m.begin \in Int32 /\ m.data \in Seq(Byte)
        /\ m = [type |-> "piece", index |-> m.index, begin |-> m.begin,
                data |-> m.data]
    BY <1>1, <1>7 DEF Message
  <2>3. /\ x \in Seq(Byte) /\ Len(x) = 4
        /\ y \in Seq(Byte) /\ Len(y) = 4
    BY <2>2, FourBytes
  <2> HIDE DEF x, y, p, id
  <2> DEFINE d == m.data
             a == x \o y
  <2>4. d \in Seq(Byte)
    BY <2>2
  <2> HIDE DEF d
  <2>5. /\ a \o d \in Seq(Byte) /\ Len(a \o d) = Len(x) + Len(y) + Len(d)
        /\ SubSeq(a \o d, Len(x) + Len(y) + 1, Len(a \o d)) = d
    <3>1. /\ x \o y \o d \in Seq(Byte)
          /\ Len(x \o y \o d) = Len(x) + Len(y) + Len(d)
          /\ SubSeq(x \o y \o d, Len(x) + Len(y) + 1, Len(x \o y \o d)) = d
      <4>1. x \in Seq(Byte) /\ y \in Seq(Byte) /\ d \in Seq(Byte)
        BY <2>3, <2>4
      <4> QED BY ONLY <4>1, Middle
    <3> QED BY <3>1
  <2>6. /\ a \in Seq(Byte) /\ Len(a) = Len(x) + Len(y)
        /\ \A j \in 1 .. Len(x) : a[j] = x[j]
        /\ \A j \in 1 .. Len(y) : a[Len(x) + j] = y[j]
    BY <2>3, Joined, Zenon
  <2>7. p = a \o d
    BY <2>1 DEF d
  <2> HIDE DEF a
  <2>8. \A j \in 1 .. Len(a) : p[j] = a[j]
    BY <2>4, <2>6, <2>7, Joined
  <2>9. Len(x) = 4 /\ Len(y) = 4 /\ Len(a) = 8 /\ Len(d) \in Nat
    <3>1. Len(x) = 4 /\ Len(y) = 4 /\ Len(a) = Len(x) + Len(y)
      BY <2>3, <2>6, Zenon
    <3>2. Len(d) \in Nat
      BY <2>4
    <3> QED BY <3>1, <3>2
  <2>10. \A j \in 1 .. 8 : p[j] = a[j]
    BY <2>8, <2>9, Zenon
  <2>11. \A j \in 1 .. 4 : a[j] = x[j]
    BY <2>6, <2>9, Zenon
  <2>12. \A j \in 1 .. 4 : a[4 + j] = y[j]
    BY <2>6, <2>9, Zenon
  <2>13. ReadBE32(p, 0) = m.index /\ ReadBE32(p, 4) = m.begin
    <3>1. \A j \in 1 .. 4 : p[0 + j] = x[j] /\ p[4 + j] = y[j]
      BY <2>10, <2>11, <2>12
    <3> QED BY <2>2, <3>1, ReadsBack DEF x, y
  <2>14. SubSeq(p, 9, Len(p)) = m.data
    <3>1. Len(x) + Len(y) + 1 = 9
      BY <2>9
    <3> QED BY <2>5, <2>7, <3>1, Zenon DEF d
  <2>15. CanRead32(p, 0) /\ CanRead32(p, 4)
    <3>1. Len(p) = Len(x) + Len(y) + Len(d)
      BY <2>5, <2>7, Zenon
    <3>2. Len(p) >= 8
      BY <2>9, <3>1
    <3> QED BY <3>2 DEF CanRead32
  <2>16. Handled(m) /\ RequestNextBlock
    <3>1. /\ Handled([type |-> "piece", index |-> ReadBE32(p, 0),
                      begin |-> ReadBE32(p, 4), data |-> SubSeq(p, 9, Len(p))])
          /\ RequestNextBlock
      BY <2>1, <2>15 DEF Dispatch, id, p
    <3> QED BY <2>2, <2>13, <2>14, <3>1
  <2> QED BY <1>7, <2>16, SentIsRead DEF Handled, Heeded
<1>8. CASE m.type = "stub"
  <2>1. id = PIECE /\ p = BigEndian(m.index) /\ m.index \in Int32
    BY <1>1, <1>8 DEF Id, Payload, Message
  <2>2. ~CanRead32(p, 4)
    <3>1. Len(p) = 4
      BY <2>1, FourBytes
    <3> QED BY <3>1 DEF CanRead32
  <2>3. Throws /\ UNCHANGED <<handled, outVars>>
    BY <2>1, <2>2 DEF Dispatch
  <2> QED BY <1>2, <1>8, <2>3 DEF Throws, Heeded
<1> QED BY <1>1, <1>3, <1>4, <1>5, <1>6, <1>7, <1>8 DEF Message

-----------------------------------------------------------------------------
(* The place of the buffer in the stream. *)

\* Every message the peer has sent is in the stream, where ends says.
InStream(k) ==
  LET f == PeerBytes(sent[k]) IN
  /\ EndOf(k) = EndOf(k - 1) + Len(f)
  /\ \A j \in 1 .. Len(f) : stream[EndOf(k - 1) + j] = f[j]

StreamInv ==
  /\ ~greeted => stream = <<>> /\ sent = <<>>
  /\ greeted => /\ Len(stream) = EndOf(Len(sent))
                /\ \A k \in 0 .. Len(sent) : EndOf(k) <= Len(stream)
  /\ \A k \in 1 .. Len(sent) : InStream(k)

\* The buffer is a part of it, from the handshake or a message on.
BufferInv ==
  /\ state # "DOWNLOADING" => taken = 0 /\ recv_buffer = SubSeq(stream, 1, got)
  /\ state = "DOWNLOADING" => EndOf(taken) <= got

\* Inductive.
PlaceInv == FramingInv /\ StreamInv /\ BufferInv /\ PeerUnderstands

\* A part of a sequence, what remains when its front is dropped, and how it
\* grows.
LEMMA PartAt ==
  ASSUME NEW s \in Seq(Byte), NEW c \in Nat, NEW g \in Nat,
         c <= g, g <= Len(s)
  PROVE  /\ SubSeq(s, c + 1, g) \in Seq(Byte) /\ Len(SubSeq(s, c + 1, g)) = g - c
         /\ \A j \in 1 .. g - c : SubSeq(s, c + 1, g)[j] = s[c + j]
OBVIOUS

LEMMA PartDropped ==
  ASSUME NEW s \in Seq(Byte), NEW c \in Nat, NEW g \in Nat, NEW n \in Nat,
         c + n <= g, g <= Len(s)
  PROVE  SubSeq(SubSeq(s, c + 1, g), n + 1, g - c) = SubSeq(s, c + n + 1, g)
<1> DEFINE t == SubSeq(s, c + 1, g)
<1>1. t \in Seq(Byte) /\ Len(t) = g - c /\ \A j \in 1 .. g - c : t[j] = s[c + j]
  BY PartAt
<1> HIDE DEF t
<1>2. SubSeq(t, n + 1, g - c) = SubSeq(s, c + n + 1, g)
  BY <1>1
<1> QED BY <1>2 DEF t

LEMMA PartGrown ==
  ASSUME NEW s \in Seq(Byte), NEW c \in Nat, NEW g \in Nat, NEW h \in Nat,
         c <= g, g <= h, h <= Len(s)
  PROVE  SubSeq(s, c + 1, g) \o SubSeq(s, g + 1, h) = SubSeq(s, c + 1, h)
<1> DEFINE t == SubSeq(s, c + 1, g)
           u == SubSeq(s, g + 1, h)
           v == SubSeq(s, c + 1, h)
<1>1. /\ t \in Seq(Byte) /\ Len(t) = g - c
      /\ \A j \in 1 .. g - c : t[j] = s[c + j]
  BY PartAt
<1>2. /\ u \in Seq(Byte) /\ Len(u) = h - g
      /\ \A j \in 1 .. h - g : u[j] = s[g + j]
  BY PartAt
<1>3. /\ v \in Seq(Byte) /\ Len(v) = h - c
      /\ \A j \in 1 .. h - c : v[j] = s[c + j]
  BY PartAt
<1> HIDE DEF t, u, v
<1>4. /\ t \o u \in Seq(Byte) /\ Len(t \o u) = h - c
      /\ \A j \in 1 .. h - c : (t \o u)[j] = s[c + j]
  BY <1>1, <1>2
<1> DEFINE w == t \o u
<1> HIDE DEF w
<1>5. w = v
  <2>1. w \in Seq(Byte) /\ v \in Seq(Byte) /\ Len(w) = Len(v)
    BY <1>3, <1>4 DEF w
  <2>2. \A j \in 1 .. Len(v) : w[j] = v[j]
    BY <1>3, <1>4 DEF w
  <2> QED BY ONLY <2>1, <2>2
<1> QED BY <1>5 DEF t, u, v, w

LEMMA PartOfMore ==
  ASSUME NEW s \in Seq(Byte), NEW t \in Seq(Byte), NEW c \in Nat, NEW g \in Nat,
         g <= Len(s)
  PROVE  SubSeq(s \o t, c + 1, g) = SubSeq(s, c + 1, g)
OBVIOUS

\* A frame fits a word, and holds the length of its rest.
LEMMA PeerFrame ==
  ASSUME NEW m \in Messages
  PROVE  LET f == PeerBytes(m) IN
         /\ f \in Seq(Byte) /\ Len(f) \in 4 .. Word - 1
         /\ ReadBE32(f, 0) = Len(f) - 4
         /\ m.type = "keepalive" <=> Len(f) = 4
<1>1. Len(PeerBytes(m)) < Word
  BY FramingConstants
<1>2. CASE m.type = "keepalive"
  <2>1. PeerBytes(m) = BigEndian(0)
    BY <1>2 DEF PeerBytes
  <2> DEFINE b == PeerBytes(m)
  <2>2. b \in Seq(Byte) /\ Len(b) = 4 /\ ReadBE32(b, 0) = 0
    BY <2>1, KeepAliveParts
  <2> QED BY <1>1, <1>2, <2>2, BaseFacts
<1>3. CASE m.type # "keepalive"
  <2> DEFINE f == PeerBytes(m)
             p == Payload(m)
  <2>1. /\ f \in Seq(Byte) /\ Len(f) = 5 + Len(p) /\ ReadBE32(f, 0) = Len(f) - 4
        /\ p \in Seq(Byte)
    BY <1>3, MessageFrame, FrameParts
  <2> HIDE DEF f, p
  <2>2. Len(p) \in Nat
    BY <2>1
  <2>3. Len(f) < Word /\ Word \in Nat
    BY <1>1, BaseFacts DEF f
  <2>4. Len(f) \in 4 .. Word - 1 /\ Len(f) # 4
    BY <2>1, <2>2, <2>3
  <2> QED BY <1>3, <2>1, <2>4 DEF f
<1> QED BY <1>2, <1>3

\* What the loop finds in the buffer: the beginning of the next message, and
\* Complete says whether all of it.
LEMMA NextMessage ==
  ASSUME PlaceInv, state = "DOWNLOADING", Len(recv_buffer) >= 4
  PROVE  LET m == sent[taken + 1]
             f == PeerBytes(m) IN
         /\ taken + 1 \in 1 .. Len(sent) /\ m \in Messages
         /\ EndOf(taken + 1) = EndOf(taken) + Len(f)
         /\ MessageLen = Len(f) - 4 /\ FrameLen(MessageLen) = Len(f)
         /\ Len(recv_buffer) >= Len(f) => SubSeq(recv_buffer, 1, Len(f)) = f
<1> DEFINE c == EndOf(taken)
           m == sent[taken + 1]
           f == PeerBytes(m)
<1>1. TypeOK /\ Aligned /\ StreamInv /\ BufferInv
  BY DEF PlaceInv, FramingInv
<1>2. c \in Nat /\ c <= got /\ got \in Nat /\ got <= Len(stream) /\ stream \in Seq(Byte)
  <2>1. HandshakeLen \in Nat
    BY FramingConstants
  <2> QED BY <1>1, <2>1 DEF TypeOK, BufferInv, EndOf
<1>3. /\ Len(recv_buffer) = got - c
      /\ \A j \in 1 .. got - c : recv_buffer[j] = stream[c + j]
  <2>1. recv_buffer = SubSeq(stream, c + 1, got)
    BY <1>1 DEF Aligned
  <2> HIDE DEF c
  <2> QED BY <1>2, <2>1, PartAt
<1>4. taken \in 0 .. Len(sent) /\ sent \in Seq(Messages) /\ Len(sent) \in Nat
  BY <1>1 DEF TypeOK
<1>5. taken # Len(sent)
  <2>1. greeted
    <3>1. Len(<<>>) = 0
      OBVIOUS
    <3> QED BY <1>1, <1>2, <1>3, <3>1 DEF StreamInv
  <2>2. Len(stream) = EndOf(Len(sent))
    BY <1>1, <2>1 DEF StreamInv
  <2> HIDE DEF c
  <2>3. Len(stream) > c
    BY <1>2, <1>3
  <2> QED BY <1>2, <2>2, <2>3 DEF c
<1>6. taken + 1 \in 1 .. Len(sent) /\ (taken + 1) - 1 = taken
  BY <1>4, <1>5
<1>7. m \in Messages
  BY <1>4, <1>6
<1>8. InStream(taken + 1)
  BY <1>1, <1>6 DEF StreamInv
<1>9. EndOf(taken + 1) = c + Len(f) /\ \A j \in 1 .. Len(f) : stream[c + j] = f[j]
  BY <1>6, <1>8 DEF InStream
<1> HIDE DEF c, m
<1>10. /\ f \in Seq(Byte) /\ Len(f) \in 4 .. Word - 1 /\ ReadBE32(f, 0) = Len(f) - 4
  BY <1>7, PeerFrame
<1> HIDE DEF f
<1>11. \A j \in 1 .. Len(f) : j <= Len(recv_buffer) => recv_buffer[j] = f[j]
  BY <1>2, <1>3, <1>9, <1>10
<1>12. MessageLen = Len(f) - 4
  <2>1. \A j \in 1 .. 4 : recv_buffer[0 + j] = f[0 + j]
    BY <1>10, <1>11
  <2>2. ReadBE32(recv_buffer, 0) = ReadBE32(f, 0)
    BY <2>1 DEF ReadBE32
  <2> QED BY <1>10, <2>2 DEF MessageLen, ReadMessageLength
<1>13. FrameLen(MessageLen) = Len(f)
  <2> DEFINE l == Len(f)
  <2>1. l \in Nat /\ l < Word /\ Word \in Nat /\ Word > 0 /\ 4 + (l - 4) = l
    BY <1>10, BaseFacts
  <2> HIDE DEF l
  <2>2. l = 0 * Word + l /\ l \in 0 .. Word - 1
    BY <2>1
  <2>3. l % Word = l
    BY <2>1, <2>2, DivUnique
  <2> QED BY <1>12, <2>1, <2>3 DEF FrameLen, l
<1>14. Len(recv_buffer) >= Len(f) => SubSeq(recv_buffer, 1, Len(f)) = f
  <2> SUFFICES ASSUME Len(recv_buffer) >= Len(f)
               PROVE  SubSeq(recv_buffer, 1, Len(f)) = f
    OBVIOUS
  <2> DEFINE l == Len(f)
             b == SubSeq(recv_buffer, 1, l)
  <2>1. recv_buffer \in Seq(Byte) /\ l \in Nat /\ l <= Len(recv_buffer)
    BY <1>1, <1>10 DEF TypeOK
  <2>2. b \in Seq(Byte) /\ Len(b) = l /\ \A j \in 1 .. l : b[j] = recv_buffer[j]
    <3> HIDE DEF l
    <3>1. SubSeq(recv_buffer, 1, l) = SubSeq(recv_buffer, 0 + 1, l) /\ l - 0 = l
      BY <2>1
    <3>2. \A j \in 1 .. l : 0 + j = j
      BY <2>1
    <3> QED BY <2>1, <3>1, <3>2, PartAt
  <2>3. \A j \in 1 .. l : b[j] = f[j]
    <3> HIDE DEF b
    <3> QED BY <1>11, <2>1, <2>2
  <2> HIDE DEF b
  <2>4. b = f
    BY ONLY <1>10, <2>2, <2>3
  <2> QED BY <2>4 DEF b
<1> QED BY <1>6, <1>7, <1>9, <1>12, <1>13, <1>14 DEF c, m, f

-----------------------------------------------------------------------------
(* Every step keeps the place. *)

LEMMA EndOfIsNat == TypeOK => EndOf(taken) \in Nat
<1> SUFFICES ASSUME TypeOK PROVE EndOf(taken) \in Nat
  OBVIOUS
<1>1. taken \in 0 .. Len(ends) /\ ends \in Seq(Nat)
  BY DEF TypeOK
<1>2. CASE taken = 0
  BY <1>2, FramingConstants DEF EndOf
<1>3. CASE taken # 0
  <2>1. taken \in 1 .. Len(ends)
    BY <1>1, <1>3
  <2>2. ends[taken] \in Nat
    BY ONLY <1>1, <2>1
  <2> QED BY <1>3, <2>2 DEF EndOf
<1> QED BY <1>2, <1>3

LEMMA PlaceInit == Init => PlaceInv
<1> SUFFICES ASSUME Init PROVE PlaceInv
  OBVIOUS
<1> USE DEF Init
<1>1. Len(<<>>) = 0 /\ <<>> \in Seq(Byte) /\ <<>> \in Seq(Messages) /\ <<>> \in Seq(Nat)
  OBVIOUS
<1>2. TypeOK
  <2>1. got \in 0 .. Len(stream) /\ taken \in 0 .. Len(sent) /\ Len(ends) = Len(sent)
    BY <1>1
  <2>2. /\ recv_buffer \in Seq(Byte) /\ stream \in Seq(Byte) /\ out \in Seq(Byte)
        /\ sent \in Seq(Messages) /\ handled \in Seq(Messages) /\ ends \in Seq(Nat)
    BY <1>1
  <2> QED BY <2>1, <2>2, Zenon DEF TypeOK
<1>3. StreamInv
  BY <1>1 DEF StreamInv
<1>4. BufferInv
  <2>1. SubSeq(<<>>, 1, 0) = <<>>
    OBVIOUS
  <2> QED BY <2>1 DEF BufferInv
<1> QED BY <1>2, <1>3, <1>4 DEF PlaceInv, FramingInv, Aligned, PeerUnderstands

\* The peer's side stays while the peer does nothing.
LEMMA StreamKept ==
  ASSUME StreamInv, UNCHANGED peerVars
  PROVE  StreamInv' /\ \A k : EndOf(k)' = EndOf(k)
BY DEF StreamInv, InStream, EndOf, peerVars

\* The types when only the network thread's own variables change.
LEMMA TypesKept ==
  ASSUME TypeOK, UNCHANGED peerVars,
         sock' \in BOOLEAN, reading' \in BOOLEAN,
         state' \in {"CONNECTING", "HANDSHAKING", "DOWNLOADING"},
         recv_buffer' \in Seq(Byte), out' \in Seq(Byte),
         got' \in 0 .. Len(stream), handled' \in Seq(Messages),
         taken' \in 0 .. Len(sent)
  PROVE  TypeOK'
BY DEF TypeOK, peerVars

LEMMA WriteStep ==
  ASSUME PlaceInv, OnReadyWrite
  PROVE  PlaceInv'
<1>1. TypeOK /\ StreamInv /\ BufferInv /\ PeerUnderstands
  BY DEF PlaceInv, FramingInv
<1>2. /\ UNCHANGED <<recv_buffer, reading, got, peerVars, taken, handled>>
      /\ state = "CONNECTING" /\ state' \in {"CONNECTING", "HANDSHAKING"}
  BY DEF OnReadyWrite
<1>3. StreamInv'
  BY <1>1, <1>2, StreamKept
<1>4. BufferInv' /\ Aligned'
  BY <1>1, <1>2 DEF BufferInv, Aligned, peerVars
<1>5. PeerUnderstands' /\ out' \in Seq(Byte) /\ sock' \in BOOLEAN
  <2>1. CASE UNCHANGED outVars /\ Throws
    BY <1>1, <2>1 DEF outVars, PeerUnderstands, PeerReads, NumberAt, TypeOK, Throws
  <2>2. CASE Sends(BuildHandshake, [type |-> "handshake", info_hash |-> InfoHash,
                                    peer_id |-> PeerId])
    BY <1>1, <2>2, HandshakeRead
       DEF Sends, PeerUnderstands, PeerReads, NumberAt, TypeOK
  <2> QED BY <2>1, <2>2 DEF OnReadyWrite, SendThrows
<1>6. TypeOK'
  BY <1>1, <1>2, <1>5, TypesKept DEF TypeOK
<1> QED BY <1>3, <1>4, <1>5, <1>6 DEF PlaceInv, FramingInv

\* Nothing said: what was sent last is still understood.
LEMMA SaidKept ==
  ASSUME PeerUnderstands, UNCHANGED outVars
  PROVE  PeerUnderstands' /\ out' = out
BY DEF PeerUnderstands, PeerReads, NumberAt, outVars

LEMMA ReceiveStep ==
  ASSUME PlaceInv, Receive
  PROVE  PlaceInv'
<1>1. TypeOK /\ Aligned /\ StreamInv /\ BufferInv /\ PeerUnderstands
  BY DEF PlaceInv, FramingInv
<1>2. PICK n \in 1 .. Len(stream) - got :
        /\ recv_buffer' = recv_buffer \o SubSeq(stream, got + 1, got + n)
        /\ got' = got + n
  BY DEF Receive
<1>3. /\ UNCHANGED <<sock, state, peerVars, taken, handled, outVars>>
      /\ reading' = TRUE
  BY DEF Receive
<1>4. /\ got \in Nat /\ got + n \in Nat /\ got + n <= Len(stream)
      /\ stream \in Seq(Byte)
  BY <1>1 DEF TypeOK
<1> DEFINE c == IF state = "DOWNLOADING" THEN EndOf(taken) ELSE 0
<1>5. c \in Nat /\ c <= got /\ recv_buffer = SubSeq(stream, c + 1, got)
  <2>1. CASE state = "DOWNLOADING"
    <3>1. EndOf(taken) \in Nat
      BY <1>1, EndOfIsNat
    <3> QED BY <1>1, <2>1, <3>1 DEF Aligned, BufferInv
  <2>2. CASE state # "DOWNLOADING"
    <3>1. recv_buffer = SubSeq(stream, 1, got)
      BY <1>1, <2>2 DEF BufferInv
    <3> QED BY <1>4, <2>2, <3>1
  <2> QED BY <2>1, <2>2
<1> HIDE DEF c
<1>6. recv_buffer' = SubSeq(stream, c + 1, got + n)
  BY <1>2, <1>4, <1>5, PartGrown
<1>7. recv_buffer' \in Seq(Byte)
  BY <1>4, <1>5, <1>6, PartAt
<1>8. StreamInv' /\ EndOf(taken)' = EndOf(taken)
  BY <1>1, <1>3, StreamKept
<1>9. Aligned' /\ BufferInv'
  <2>1. CASE state = "DOWNLOADING"
    <3>1. c = EndOf(taken)' /\ stream' = stream /\ got' = got + n
      BY <1>2, <1>3, <1>8, <2>1 DEF c, peerVars
    <3>2. recv_buffer' = SubSeq(stream', EndOf(taken)' + 1, got')
      BY <1>6, <3>1
    <3>3. EndOf(taken)' <= got'
      BY <1>4, <1>5, <3>1
    <3> QED BY <1>3, <2>1, <3>2, <3>3 DEF Aligned, BufferInv
  <2>2. CASE state # "DOWNLOADING"
    <3>1. recv_buffer' = SubSeq(stream, 1, got + n)
      <4>1. c + 1 = 1
        BY <2>2 DEF c
      <4> QED BY <1>6, <4>1, Zenon
    <3>2. taken' = 0 /\ stream' = stream /\ got' = got + n /\ state' # "DOWNLOADING"
      BY <1>1, <1>2, <1>3, <2>2 DEF BufferInv, peerVars
    <3> QED BY <3>1, <3>2 DEF Aligned, BufferInv
  <2> QED BY <2>1, <2>2
<1>10. TypeOK'
  <2>1. got' \in 0 .. Len(stream)
    BY <1>2, <1>4
  <2> QED BY <1>1, <1>3, <1>7, <2>1, TypesKept DEF TypeOK, outVars
<1> QED BY <1>1, <1>3, <1>8, <1>9, <1>10, SaidKept DEF PlaceInv, FramingInv

LEMMA HandshakeStep ==
  ASSUME PlaceInv, ProcessHandshake
  PROVE  PlaceInv'
<1>1. TypeOK /\ StreamInv /\ BufferInv /\ PeerUnderstands
  BY DEF PlaceInv, FramingInv
<1>2. /\ UNCHANGED <<reading, got, peerVars, taken, handled>>
      /\ reading /\ state = "HANDSHAKING" /\ state' = "DOWNLOADING"
      /\ Len(recv_buffer) >= HandshakeLen
      /\ recv_buffer' = SubSeq(recv_buffer, HandshakeLen + 1, Len(recv_buffer))
  BY DEF ProcessHandshake, Consume
<1>3. /\ got \in Nat /\ got <= Len(stream) /\ stream \in Seq(Byte)
      /\ HandshakeLen \in Nat /\ taken = 0
  BY <1>1, <1>2, FramingConstants DEF TypeOK, BufferInv
<1>4. recv_buffer = SubSeq(stream, 0 + 1, got) /\ Len(recv_buffer) = got - 0
  <2>1. recv_buffer = SubSeq(stream, 0 + 1, got)
    BY <1>1, <1>2 DEF BufferInv
  <2> QED BY <1>3, <2>1, PartAt
<1>5. 0 + HandshakeLen <= got /\ 0 + HandshakeLen = HandshakeLen
  BY <1>2, <1>3, <1>4
<1>6. recv_buffer' = SubSeq(stream, HandshakeLen + 1, got)
  <2>1. recv_buffer' = SubSeq(SubSeq(stream, 0 + 1, got), HandshakeLen + 1, got - 0)
    BY <1>2, <1>4
  <2>2. @ = SubSeq(stream, 0 + HandshakeLen + 1, got)
    BY <1>3, <1>5, PartDropped
  <2> QED BY <1>5, <2>1, <2>2
<1>7. recv_buffer' \in Seq(Byte)
  BY <1>3, <1>5, <1>6, PartAt
<1>8. StreamInv'
  BY <1>1, <1>2, StreamKept
<1>9. Aligned' /\ BufferInv'
  <2>1. EndOf(taken)' = HandshakeLen
    BY <1>2, <1>3 DEF EndOf
  <2> QED BY <1>2, <1>5, <1>6, <2>1 DEF Aligned, BufferInv, peerVars
<1>10. PeerUnderstands' /\ out' \in Seq(Byte) /\ sock' \in BOOLEAN
  <2>1. CASE UNCHANGED outVars /\ Throws
    BY <1>1, <2>1, SaidKept DEF TypeOK, Throws
  <2>2. CASE Sends(BuildInterested, [type |-> "interested"])
    BY <1>1, <2>2, InterestedRead
       DEF Sends, PeerUnderstands, PeerReads, NumberAt, TypeOK
  <2> QED BY <2>1, <2>2 DEF ProcessHandshake, SendThrows
<1>11. TypeOK'
  BY <1>1, <1>2, <1>7, <1>10, TypesKept DEF TypeOK
<1> QED BY <1>8, <1>9, <1>10, <1>11 DEF PlaceInv, FramingInv

\* One message is taken out of the buffer.
LEMMA MessageTaken ==
  ASSUME PlaceInv, state = "DOWNLOADING", reading, Len(recv_buffer) >= 4,
         Len(recv_buffer) >= FrameLen(MessageLen), Consume(FrameLen(MessageLen)),
         taken' = taken + 1, UNCHANGED <<state, reading, got, peerVars>>
  PROVE  /\ StreamInv' /\ BufferInv' /\ Aligned'
         /\ recv_buffer' \in Seq(Byte) /\ taken' \in 0 .. Len(sent)
<1> DEFINE c == EndOf(taken)
           n == FrameLen(MessageLen)
<1>1. TypeOK /\ Aligned /\ StreamInv /\ BufferInv
  BY DEF PlaceInv, FramingInv
<1>2. taken + 1 \in 1 .. Len(sent) /\ EndOf(taken + 1) = c + n /\ n \in Nat
  <2>1. /\ taken + 1 \in 1 .. Len(sent) /\ sent[taken + 1] \in Messages
        /\ EndOf(taken + 1) = c + Len(PeerBytes(sent[taken + 1]))
        /\ n = Len(PeerBytes(sent[taken + 1]))
    BY NextMessage
  <2>2. Len(PeerBytes(sent[taken + 1])) \in 4 .. Word - 1 /\ Word \in Nat
    BY <2>1, PeerFrame, BaseFacts
  <2> QED BY <2>1, <2>2
<1>3. /\ got \in Nat /\ got <= Len(stream) /\ stream \in Seq(Byte)
      /\ c \in Nat /\ c <= got /\ recv_buffer = SubSeq(stream, c + 1, got)
  <2>1. EndOf(taken) \in Nat
    BY <1>1, EndOfIsNat
  <2> QED BY <1>1, <2>1 DEF TypeOK, Aligned, BufferInv
<1>4. recv_buffer' = SubSeq(recv_buffer, n + 1, Len(recv_buffer)) /\ n <= Len(recv_buffer)
  BY DEF Consume
<1> HIDE DEF c, n
<1>5. Len(recv_buffer) = got - c
  BY <1>3, PartAt
<1>6. c + n <= got /\ c + n \in Nat
  BY <1>2, <1>3, <1>4, <1>5
<1>7. recv_buffer' = SubSeq(stream, c + n + 1, got)
  BY <1>2, <1>3, <1>4, <1>5, <1>6, PartDropped
<1>8. recv_buffer' \in Seq(Byte)
  BY <1>3, <1>6, <1>7, PartAt
<1>9. StreamInv' /\ EndOf(taken)' = c + n
  <2>1. StreamInv'
    BY <1>1, StreamKept
  <2>2. EndOf(taken)' = EndOf(taken + 1)
    BY DEF EndOf, peerVars
  <2> QED BY <1>2, <2>1, <2>2
<1>10. Aligned' /\ BufferInv'
  BY <1>6, <1>7, <1>9 DEF Aligned, BufferInv, peerVars
<1> QED BY <1>2, <1>8, <1>9, <1>10

LEMMA KeepAliveStep ==
  ASSUME PlaceInv, ProcessKeepAlive
  PROVE  /\ PlaceInv'
         /\ taken + 1 \in 1 .. Len(sent) /\ sent[taken + 1] \notin Heeded
<1>1. TypeOK /\ PeerUnderstands
  BY DEF PlaceInv, FramingInv
<1>2. /\ UNCHANGED <<sock, state, reading, got, peerVars, handled, outVars>>
      /\ reading /\ state = "DOWNLOADING" /\ Len(recv_buffer) >= 4
      /\ MessageLen = 0 /\ Consume(4) /\ taken' = taken + 1
  BY DEF ProcessKeepAlive
<1> DEFINE m == sent[taken + 1]
           f == PeerBytes(m)
<1>3. /\ taken + 1 \in 1 .. Len(sent) /\ m \in Messages
      /\ MessageLen = Len(f) - 4 /\ FrameLen(MessageLen) = Len(f)
  BY <1>2, NextMessage
<1>4. Len(f) = 4 /\ m.type = "keepalive"
  <2>1. Len(f) \in 4 .. Word - 1 /\ (m.type = "keepalive" <=> Len(f) = 4)
    BY <1>3, PeerFrame
  <2> HIDE DEF f, m
  <2> QED BY <1>2, <1>3, <2>1, BaseFacts
<1> HIDE DEF f
<1>5. FrameLen(MessageLen) = 4
  BY <1>3, <1>4, Zenon
<1>6. /\ StreamInv' /\ BufferInv' /\ Aligned'
      /\ recv_buffer' \in Seq(Byte) /\ taken' \in 0 .. Len(sent)
  BY <1>2, <1>5, MessageTaken
<1>7. TypeOK'
  BY <1>1, <1>2, <1>6, TypesKept DEF TypeOK, outVars
<1>8. PeerUnderstands'
  BY <1>1, <1>2, SaidKept
<1>9. m \notin Heeded
  BY <1>4 DEF Heeded
<1> QED BY <1>3, <1>6, <1>7, <1>8, <1>9 DEF PlaceInv, FramingInv

LEMMA MessageStep ==
  ASSUME PlaceInv, ProcessMessage
  PROVE  /\ PlaceInv' /\ taken + 1 \in 1 .. Len(sent)
         /\ handled' = IF sent[taken + 1] \in Heeded
                       THEN Append(handled, sent[taken + 1]) ELSE handled
<1>1. TypeOK /\ PeerUnderstands
  BY DEF PlaceInv, FramingInv
<1>2. /\ UNCHANGED <<state, reading, got, peerVars>>
      /\ reading /\ state = "DOWNLOADING" /\ MessageLen # 0
      /\ Len(recv_buffer) >= 4 /\ Len(recv_buffer) >= FrameLen(MessageLen)
      /\ Consume(FrameLen(MessageLen)) /\ taken' = taken + 1
      /\ Dispatch(recv_buffer[5], SubSeq(recv_buffer, 6, FrameLen(MessageLen)))
  BY DEF ProcessMessage, Complete
<1> DEFINE m == sent[taken + 1]
           f == PeerBytes(m)
           b == recv_buffer
           p == Payload(m)
<1>3. /\ taken + 1 \in 1 .. Len(sent) /\ m \in Messages
      /\ MessageLen = Len(f) - 4 /\ FrameLen(MessageLen) = Len(f)
      /\ Len(b) >= Len(f) => SubSeq(b, 1, Len(f)) = f
  BY <1>2, NextMessage
<1>4. m.type # "keepalive"
  <2>1. Len(f) \in 4 .. Word - 1 /\ (m.type = "keepalive" <=> Len(f) = 4)
    BY <1>3, PeerFrame
  <2> HIDE DEF f, m
  <2> QED BY <1>2, <1>3, <2>1, BaseFacts
<1>5. /\ f \in Seq(Byte) /\ Len(f) = 5 + Len(p) /\ f[5] = Id(m)
      /\ SubSeq(f, 6, Len(f)) = p /\ p \in Seq(Byte)
  BY <1>3, <1>4, MessageFrame, FrameParts
<1>6. b[5] = Id(m) /\ SubSeq(b, 6, FrameLen(MessageLen)) = p
  <2> DEFINE l == Len(f)
             t == SubSeq(b, 6, l)
             u == SubSeq(f, 6, l)
  <2> HIDE DEF m, p
  <2>1. Len(p) \in Nat
    BY <1>5
  <2>2. l \in Nat /\ l >= 5 /\ l <= Len(b)
    BY <1>2, <1>3, <1>5, <2>1
  <2>3. b \in Seq(Byte) /\ f \in Seq(Byte)
    BY <1>1, <1>5 DEF TypeOK
  <2>4. \A j \in 1 .. l : f[j] = b[j]
    <3>1. SubSeq(b, 0 + 1, l) = f
      <4>1. 0 + 1 = 1
        OBVIOUS
      <4> QED BY <1>2, <1>3, <4>1, Zenon
    <3> HIDE DEF l, f
    <3>2. \A j \in 1 .. l - 0 : SubSeq(b, 0 + 1, l)[j] = b[0 + j]
      BY <2>2, <2>3, PartAt
    <3>3. \A j \in 1 .. l : f[j] = b[0 + j]
      BY <2>2, <3>1, <3>2
    <3> QED BY <2>2, <3>3
  <2> HIDE DEF l
  <2>5. /\ t \in Seq(Byte) /\ Len(t) = l - 5 /\ \A j \in 1 .. l - 5 : t[j] = b[5 + j]
        /\ u \in Seq(Byte) /\ Len(u) = l - 5 /\ \A j \in 1 .. l - 5 : u[j] = f[5 + j]
    <3>1. 5 + 1 = 6 /\ l <= Len(f) /\ 5 \in Nat /\ 5 <= l
      BY <2>2 DEF l
    <3> HIDE DEF f
    <3> QED BY <2>2, <2>3, <3>1, PartAt
  <2>6. \A j \in 1 .. l - 5 : t[j] = u[j]
    <3> HIDE DEF f, t, u
    <3>1. \A j \in 1 .. l - 5 : 5 + j \in 1 .. l
      BY <2>2
    <3> QED BY <2>4, <2>5, <3>1
  <2>7. t = u
    <3> HIDE DEF t, u, f
    <3>1. t \in Seq(Byte) /\ u \in Seq(Byte) /\ Len(t) = Len(u)
      BY <2>5
    <3>2. \A j \in 1 .. Len(u) : t[j] = u[j]
      BY <2>5, <2>6
    <3> QED BY ONLY <3>1, <3>2
  <2>8. b[5] = Id(m)
    BY <1>5, <2>2, <2>4
  <2> QED BY <1>3, <1>5, <2>7, <2>8 DEF l
<1>7. Dispatch(Id(m), Payload(m))
  <2> HIDE DEF m
  <2> QED BY <1>2, <1>6, Zenon DEF p
<1>8. /\ PeerUnderstands' /\ out' \in Seq(Byte) /\ sock' \in {sock, FALSE}
      /\ handled' = IF m \in Heeded THEN Append(handled, m) ELSE handled
  <2> HIDE DEF m
  <2> QED BY <1>1, <1>3, <1>4, <1>7, Dispatched DEF TypeOK
<1>9. /\ StreamInv' /\ BufferInv' /\ Aligned'
      /\ recv_buffer' \in Seq(Byte) /\ taken' \in 0 .. Len(sent)
  BY <1>2, MessageTaken
<1>10. TypeOK'
  <2>1. handled' \in Seq(Messages)
    BY <1>1, <1>3, <1>8 DEF TypeOK
  <2> QED BY <1>1, <1>2, <1>8, <1>9, <2>1, TypesKept DEF TypeOK
<1> QED BY <1>3, <1>8, <1>9, <1>10 DEF PlaceInv, FramingInv

\* The loop is left when the buffer holds no whole message.
LEMMA WaitStep ==
  ASSUME PlaceInv, WaitForMore
  PROVE  PlaceInv'
<1>1. TypeOK /\ Aligned /\ StreamInv /\ BufferInv /\ PeerUnderstands
  BY DEF PlaceInv, FramingInv
<1>2. /\ UNCHANGED <<sock, state, recv_buffer, got, peerVars, taken, handled, outVars>>
      /\ reading' = FALSE
  BY DEF WaitForMore
<1>3. StreamInv' /\ \A k : EndOf(k)' = EndOf(k)
  BY <1>1, <1>2, StreamKept
<1>4. BufferInv'
  BY <1>1, <1>2, <1>3 DEF BufferInv, peerVars
<1>5. Aligned'
  <2>1. CASE state # "DOWNLOADING"
    BY <1>2, <2>1 DEF Aligned
  <2>2. CASE state = "DOWNLOADING"
    <3> DEFINE c == EndOf(taken)
               f == PeerBytes(sent[taken + 1])
    <3>1. /\ got \in Nat /\ got <= Len(stream) /\ stream \in Seq(Byte)
          /\ c \in Nat /\ c <= got /\ recv_buffer = SubSeq(stream, c + 1, got)
      <4>1. EndOf(taken) \in Nat
        BY <1>1, EndOfIsNat
      <4> QED BY <1>1, <2>2, <4>1 DEF TypeOK, Aligned, BufferInv
    <3>2. Len(recv_buffer) = got - c
      <4> HIDE DEF c
      <4> QED BY <3>1, PartAt
    <3>3. ~Complete
      BY <2>2 DEF WaitForMore
    <3>4. CASE taken = Len(sent)
      <4>1. greeted
        <5>1. greeted \/ (stream = <<>> /\ sent = <<>>)
          BY <1>1 DEF StreamInv, TypeOK
        <5>2. c = HandshakeLen => c > 0
          BY FramingConstants
        <5>3. sent = <<>> => taken = 0
          BY <3>4
        <5>4. stream = <<>> => Len(stream) = 0
          OBVIOUS
        <5>5. taken = 0 => c = HandshakeLen
          BY DEF EndOf
        <5> HIDE DEF c
        <5> QED BY <3>1, <5>1, <5>2, <5>3, <5>4, <5>5
      <4>2. Len(stream) = c
        BY <1>1, <3>4, <4>1 DEF StreamInv
      <4>3. got = c
        <5> HIDE DEF c
        <5> QED BY <3>1, <4>2
      <4> QED BY <1>1, <1>2, <1>3, <2>2, <3>4, <4>3 DEF Aligned, peerVars
    <3>5. CASE taken # Len(sent)
      <4>1. taken + 1 \in 1 .. Len(sent) /\ sent[taken + 1] \in Messages
        <5>1. taken \in 0 .. Len(sent) /\ sent \in Seq(Messages) /\ Len(sent) \in Nat
          BY <1>1 DEF TypeOK
        <5>2. taken + 1 \in 1 .. Len(sent)
          BY <3>5, <5>1
        <5> QED BY <5>1, <5>2
      <4>2. EndOf(taken + 1) = c + Len(f)
        <5>1. InStream(taken + 1) /\ (taken + 1) - 1 = taken
          BY <1>1, <4>1 DEF StreamInv, TypeOK
        <5> QED BY <5>1, Zenon DEF InStream
      <4>3. Len(f) \in Nat /\ Len(f) >= 4
        BY <4>1, PeerFrame, BaseFacts
      <4>4. Len(recv_buffer) < Len(f)
        <5>1. CASE Len(recv_buffer) < 4
          <6> HIDE DEF c, f
          <6> QED BY <3>1, <3>2, <4>3, <5>1
        <5>2. CASE Len(recv_buffer) >= 4
          <6>1. FrameLen(MessageLen) = Len(f)
            BY <2>2, <5>2, NextMessage
          <6>2. ~(Len(recv_buffer) >= FrameLen(MessageLen))
            BY <3>3, <5>2 DEF Complete
          <6> HIDE DEF c, f
          <6> QED BY <3>1, <3>2, <4>3, <6>1, <6>2
        <5> HIDE DEF c, f
        <5> QED BY <3>1, <3>2, <5>1, <5>2
      <4>5. got < EndOf(taken + 1)
        <5> HIDE DEF c, f
        <5> QED BY <3>1, <3>2, <4>2, <4>3, <4>4
      <4>6. EndOf(taken + 1)' = EndOf(taken + 1)
        BY <1>2 DEF EndOf, peerVars
      <4> QED BY <1>1, <1>2, <1>3, <2>2, <3>5, <4>5, <4>6 DEF Aligned, peerVars
    <3> QED BY <3>4, <3>5
  <2> QED BY <2>1, <2>2
<1>6. TypeOK'
  BY <1>1, <1>2, TypesKept DEF TypeOK, outVars
<1> QED BY <1>1, <1>2, <1>3, <1>4, <1>5, <1>6, SaidKept DEF PlaceInv, FramingInv

LEMMA GreetStep ==
  ASSUME PlaceInv, PeerGreets
  PROVE  PlaceInv'
<1>1. TypeOK /\ Aligned /\ StreamInv /\ BufferInv /\ PeerUnderstands
  BY DEF PlaceInv, FramingInv
<1>2. /\ UNCHANGED <<sock, inVars, got, taken, handled, outVars, link, sent, ends>>
      /\ ~greeted /\ greeted' = TRUE /\ stream' = stream \o Greeting
  BY DEF PeerGreets, OnlyPeer
<1>3. stream = <<>> /\ sent = <<>>
  BY <1>1, <1>2 DEF StreamInv
<1>4. got = 0 /\ taken = 0
  <2>1. Len(<<>>) = 0
    OBVIOUS
  <2> QED BY <1>1, <1>3, <2>1 DEF TypeOK
<1>5. HandshakeLen \in Nat /\ HandshakeLen > 0
  BY FramingConstants
<1>6. state # "DOWNLOADING"
  BY <1>1, <1>4, <1>5 DEF BufferInv, EndOf
<1>7. stream' \in Seq(Byte) /\ Len(stream') = HandshakeLen
  <2>1. stream' = Greeting
    BY <1>2, <1>3, GreetingParts
  <2> QED BY <2>1, GreetingParts
<1>8. StreamInv'
  <2>1. sent' = <<>> /\ greeted'
    BY <1>2, <1>3
  <2>2. Len(<<>>) = 0
    OBVIOUS
  <2>3. \A k \in 0 .. Len(sent') : k = 0
    BY <2>1, <2>2
  <2>4. \A k \in 1 .. Len(sent') : FALSE
    BY <2>1, <2>2
  <2>5. Len(sent') = 0
    BY <2>1, <2>2
  <2> QED BY <1>5, <1>7, <2>1, <2>3, <2>4, <2>5 DEF StreamInv, EndOf
<1>9. BufferInv' /\ Aligned'
  <2>1. recv_buffer = SubSeq(stream, 0 + 1, 0)
    <3>1. recv_buffer = SubSeq(stream, 1, 0)
      BY <1>1, <1>4, <1>6 DEF BufferInv
    <3>2. 0 + 1 = 1
      OBVIOUS
    <3> QED BY <3>1, <3>2, Zenon
  <2>2. SubSeq(stream \o Greeting, 0 + 1, 0) = SubSeq(stream, 0 + 1, 0)
    <3>1. stream \in Seq(Byte) /\ Greeting \in Seq(Byte) /\ 0 <= Len(stream)
      BY <1>1, GreetingParts DEF TypeOK
    <3> QED BY <3>1, PartOfMore
  <2>3. recv_buffer' = SubSeq(stream', 0 + 1, 0)
    BY <1>2, <2>1, <2>2 DEF inVars
  <2>4. recv_buffer' = SubSeq(stream', 1, 0)
    <3>1. 0 + 1 = 1
      OBVIOUS
    <3> QED BY <2>3, <3>1, Zenon
  <2> QED BY <1>2, <1>4, <1>6, <2>4 DEF BufferInv, Aligned, inVars
<1>10. TypeOK'
  BY <1>1, <1>2, <1>4, <1>5, <1>7 DEF TypeOK, inVars, outVars
<1> QED BY <1>1, <1>2, <1>8, <1>9, <1>10, SaidKept DEF PlaceInv, FramingInv

LEMMA CloseStep ==
  ASSUME PlaceInv, PeerCloses \/ ReceiveFails \/ UNCHANGED vars
  PROVE  PlaceInv'
<1>1. TypeOK /\ Aligned /\ StreamInv /\ BufferInv /\ PeerUnderstands
  BY DEF PlaceInv, FramingInv
<1>2. /\ UNCHANGED <<inVars, got, stream, greeted, sent, ends, taken, handled, outVars>>
      /\ sock' \in {sock, FALSE} /\ link' \in {link, "fin", "rst"}
  BY DEF PeerCloses, ReceiveFails, OnlyPeer, Throws, peerVars, vars
<1>3. TypeOK'
  BY <1>1, <1>2 DEF TypeOK, inVars, outVars
<1>4. StreamInv' /\ Aligned' /\ BufferInv'
  BY <1>1, <1>2 DEF StreamInv, InStream, EndOf, Aligned, BufferInv, inVars
<1> QED BY <1>1, <1>2, <1>3, <1>4, SaidKept DEF PlaceInv, FramingInv

LEMMA SendStep ==
  ASSUME PlaceInv, NEW m \in Messages, PeerSends(m)
  PROVE  PlaceInv'
<1> DEFINE f == PeerBytes(m)
           n == Len(sent)
<1>1. TypeOK /\ Aligned /\ StreamInv /\ BufferInv /\ PeerUnderstands
  BY DEF PlaceInv, FramingInv
<1>2. /\ UNCHANGED <<sock, inVars, got, taken, handled, outVars, link, greeted>>
      /\ greeted /\ sent' = Append(sent, m) /\ stream' = stream \o f
      /\ ends' = Append(ends, Len(stream'))
  BY DEF PeerSends, OnlyPeer
<1>3. f \in Seq(Byte) /\ Len(f) \in Nat /\ Len(f) > 0
  BY PeerFrame, BaseFacts
<1> HIDE DEF f
<1>4. /\ stream \in Seq(Byte) /\ sent \in Seq(Messages) /\ n \in Nat
      /\ ends \in Seq(Nat) /\ Len(ends) = n /\ Len(stream) \in Nat
      /\ got \in Nat /\ got <= Len(stream) /\ taken \in 0 .. n
  BY <1>1 DEF TypeOK
<1>5. /\ stream' \in Seq(Byte) /\ Len(stream') = Len(stream) + Len(f)
      /\ \A j \in 1 .. Len(stream) : stream'[j] = stream[j]
      /\ \A j \in 1 .. Len(f) : stream'[Len(stream) + j] = f[j]
  BY <1>2, <1>3, <1>4, Joined
<1>6. /\ sent' \in Seq(Messages) /\ Len(sent') = n + 1
      /\ sent'[n + 1] = m /\ \A k \in 1 .. n : sent'[k] = sent[k]
  BY <1>2, <1>4
<1>7. /\ ends' \in Seq(Nat) /\ Len(ends') = n + 1
      /\ ends'[n + 1] = Len(stream') /\ \A k \in 1 .. n : ends'[k] = ends[k]
  <2>1. Len(stream') \in Nat
    BY <1>3, <1>4, <1>5
  <2> QED BY <1>2, <1>4, <2>1
<1> DEFINE E(k) == IF k = 0 THEN HandshakeLen ELSE ends'[k]
<1>8. /\ \A k \in 0 .. n : E(k) = EndOf(k)
      /\ E(n + 1) = Len(stream) + Len(f) /\ E(n) = Len(stream)
      /\ \A k \in 0 .. n : E(k) <= Len(stream)
  <2>1. \A k \in 0 .. n : E(k) = EndOf(k)
    BY <1>4, <1>7 DEF EndOf
  <2>2. E(n + 1) = Len(stream) + Len(f)
    BY <1>4, <1>5, <1>7
  <2>3. EndOf(n) = Len(stream) /\ \A k \in 0 .. n : EndOf(k) <= Len(stream)
    BY <1>1, <1>2 DEF StreamInv
  <2> HIDE DEF E
  <2> QED BY <1>4, <2>1, <2>2, <2>3
<1>8a. ASSUME NEW k \in 0 .. n
       PROVE  EndOf(k) \in Nat
  <2>1. CASE k = 0
    BY <2>1, FramingConstants DEF EndOf
  <2>2. CASE k # 0
    <3>1. k \in 1 .. Len(ends) /\ ends \in Seq(Nat)
      BY <1>4, <2>2
    <3>2. ends[k] \in Nat
      BY ONLY <3>1
    <3> QED BY <2>2, <3>2 DEF EndOf
  <2> QED BY <2>1, <2>2
<1>9. StreamInv'
  <2>1. greeted' /\ Len(stream') = E(n + 1)
    BY <1>2, <1>5, <1>8
  <2>2. ASSUME NEW k \in 0 .. n + 1
        PROVE  E(k) <= Len(stream')
    <3> HIDE DEF E
    <3>1. CASE k = n + 1
      <4>1. E(k) = E(n + 1)
        BY <3>1
      <4> QED BY <4>1, <1>8, <1>5, <1>4, <1>3
    <3>2. CASE k # n + 1
      <4>1. k \in 0 .. n
        BY <1>4, <3>2
      <4>2. E(k) <= Len(stream)
        BY <1>8, <4>1
      <4>3. E(k) = EndOf(k)
        BY <1>8, <4>1
      <4>4. EndOf(k) \in Int
        BY <1>8a, <4>1
      <4> QED BY <4>2, <4>3, <4>4, <1>3, <1>4, <1>5
    <3> QED BY <3>1, <3>2
  <2>3. ASSUME NEW k \in 1 .. n + 1
        PROVE  LET g == PeerBytes(sent'[k]) IN
               /\ E(k) = E(k - 1) + Len(g)
               /\ \A j \in 1 .. Len(g) : stream'[E(k - 1) + j] = g[j]
    <3> HIDE DEF E
    <3>1. CASE k = n + 1
      <4>1. PeerBytes(sent'[k]) = f /\ k - 1 = n /\ E(k - 1) = Len(stream)
            /\ E(k) = Len(stream) + Len(f)
        BY <1>4, <1>6, <1>8, <3>1 DEF f
      <4> QED BY <1>5, <4>1
    <3>2. CASE k \in 1 .. n
      <4> DEFINE g == PeerBytes(sent[k])
      <4>1. InStream(k)
        BY <1>1, <3>2 DEF StreamInv
      <4>2. /\ EndOf(k) = EndOf(k - 1) + Len(g)
            /\ \A j \in 1 .. Len(g) : stream[EndOf(k - 1) + j] = g[j]
        BY <4>1 DEF InStream
      <4>3. sent'[k] = sent[k] /\ sent[k] \in Messages /\ k - 1 \in 0 .. n /\ k \in 0 .. n
        BY <1>4, <1>6, <3>2
      <4>4. Len(g) \in Nat
        BY <4>3, PeerFrame, BaseFacts
      <4>5. E(k) = EndOf(k) /\ E(k - 1) = EndOf(k - 1) /\ E(k) <= Len(stream)
        BY <1>8, <4>3
      <4>6. EndOf(k - 1) \in Nat
        BY <1>8a, <4>3
      <4> HIDE DEF g
      <4>7. \A j \in 1 .. Len(g) : EndOf(k - 1) + j \in 1 .. Len(stream)
        BY <1>4, <4>2, <4>4, <4>5, <4>6
      <4>8. \A j \in 1 .. Len(g) : stream'[EndOf(k - 1) + j] = g[j]
        BY <1>5, <4>2, <4>7
      <4> QED BY <4>2, <4>3, <4>5, <4>8 DEF g
    <3> QED BY <1>4, <3>1, <3>2
  <2> QED BY <1>6, <2>1, <2>2, <2>3 DEF StreamInv, InStream, EndOf
<1>10. recv_buffer' = recv_buffer /\ state' = state /\ reading' = reading
       /\ got' = got /\ taken' = taken
  BY <1>2 DEF inVars
<1>11. ASSUME NEW c \in Nat
       PROVE  SubSeq(stream', c + 1, got) = SubSeq(stream, c + 1, got)
  BY <1>2, <1>3, <1>4, PartOfMore
<1>12. EndOf(taken)' = EndOf(taken) /\ EndOf(taken) \in Nat
  <2>1. E(taken) = EndOf(taken)
    BY <1>4, <1>8
  <2>2. EndOf(taken) \in Nat
    BY <1>4, FramingConstants DEF EndOf
  <2> QED BY <1>10, <2>1, <2>2 DEF EndOf
<1>13. BufferInv'
  <2>1. SubSeq(stream', 1, got) = SubSeq(stream, 1, got)
    <3>1. SubSeq(stream', 0 + 1, got) = SubSeq(stream, 0 + 1, got)
      BY <1>11
    <3>2. 0 + 1 = 1
      OBVIOUS
    <3> QED BY <3>1, <3>2
  <2> QED BY <1>1, <1>10, <1>12, <2>1 DEF BufferInv
<1>14. Aligned'
  <2> SUFFICES ASSUME state' = "DOWNLOADING" PROVE Aligned'
    BY DEF Aligned
  <2>1. recv_buffer' = SubSeq(stream', EndOf(taken)' + 1, got')
    BY <1>1, <1>10, <1>11, <1>12 DEF Aligned
  <2>2. taken' # Len(sent')
    BY <1>4, <1>6, <1>10
  <2>3. ~reading' => got' < EndOf(taken + 1)'
    <3> SUFFICES ASSUME ~reading' PROVE got < E(taken + 1)
      BY <1>10 DEF EndOf
    <3>1. CASE taken = n
      <4> HIDE DEF E
      <4> QED BY <1>3, <1>4, <1>8, <3>1
    <3>2. CASE taken # n
      <4>1. got < EndOf(taken + 1)
        BY <1>1, <1>10, <3>2 DEF Aligned
      <4>2. taken + 1 \in 0 .. n
        BY <1>4, <3>2
      <4> HIDE DEF E
      <4> QED BY <1>8, <4>1, <4>2
    <3> QED BY <3>1, <3>2
  <2> QED BY <2>1, <2>2, <2>3 DEF Aligned
<1>15. TypeOK'
  <2>1. got' \in 0 .. Len(stream') /\ taken' \in 0 .. Len(sent')
    BY <1>3, <1>4, <1>5, <1>6, <1>10
  <2> QED BY <1>1, <1>2, <1>5, <1>6, <1>7, <1>10, <2>1 DEF TypeOK, outVars
<1> QED BY <1>1, <1>2, <1>9, <1>13, <1>14, <1>15, SaidKept DEF PlaceInv, FramingInv

LEMMA PlaceStep == PlaceInv /\ [Next]_vars => PlaceInv'
<1> SUFFICES ASSUME PlaceInv, [Next]_vars PROVE PlaceInv'
  OBVIOUS
<1>1. CASE OnReadyWrite
  BY <1>1, WriteStep
<1>2. CASE Receive
  BY <1>2, ReceiveStep
<1>3. CASE ProcessHandshake
  BY <1>3, HandshakeStep
<1>4. CASE ProcessKeepAlive
  BY <1>4, KeepAliveStep
<1>5. CASE ProcessMessage
  BY <1>5, MessageStep
<1>6. CASE WaitForMore
  BY <1>6, WaitStep
<1>7. CASE PeerGreets
  BY <1>7, GreetStep
<1>8. ASSUME NEW m \in Messages, PeerSends(m) PROVE PlaceInv'
  BY <1>8, SendStep
<1>9. CASE PeerCloses \/ ReceiveFails \/ UNCHANGED vars
  BY <1>9, CloseStep
<1> QED
  BY <1>1, <1>2, <1>3, <1>4, <1>5, <1>6, <1>7, <1>8, <1>9 DEF Next, Network

-----------------------------------------------------------------------------
(* The theorems. *)

\* In every reachable state the messages of the peer lie in its stream one
\* after the other, and recv_buffer is the part of the stream from the end of
\* the last message ProcessBuffer took out to the last byte OnReadyRead got.
THEOREM FramingInvariant == Spec => []PlaceInv
BY PlaceInit, PlaceStep, PTL DEF Spec

\* ProcessBuffer never loses its place in the stream, however the receives cut
\* it: its buffer begins where a message begins, and what it leaves for a later
\* receive is less than the next message.
THEOREM FramingKeepsPlace == Spec => []FramingInv
<1>1. PlaceInv => FramingInv
  BY DEF PlaceInv
<1> QED BY <1>1, FramingInvariant, PTL

\* The handshake, INTERESTED and every REQUEST that the connection sends says
\* to its peer what was meant: PushInt32 and the builders of class Message
\* agree with the layout of the protocol for every number of a word.
THEOREM PeerReadsUs == Spec => []PeerUnderstands
<1>1. PlaceInv => PeerUnderstands
  BY DEF PlaceInv
<1> QED BY <1>1, FramingInvariant, PTL

\* ProcessBuffer hands on the messages of the peer: each step of Framing is a
\* step of MessageStream or leaves its variables alone.
THEOREM FramingImplementsStream == Spec => ImplementsStream
<1>1. Init => Stream!StreamInit
  BY DEF Init, Stream!StreamInit
<1>2. PlaceInv /\ [Next]_vars => [Stream!StreamNext]_(Stream!streamVars)
  <2> SUFFICES ASSUME PlaceInv, [Next]_vars
               PROVE  [Stream!StreamNext]_(Stream!streamVars)
    OBVIOUS
  <2> USE DEF Stream!streamVars, Stream!StreamNext
  <2>1. TypeOK /\ TypeOK'
    BY PlaceStep DEF PlaceInv, FramingInv
  <2>2. CASE UNCHANGED <<sent, taken, handled>> /\ sock' \in {sock, FALSE}
    <3>1. CASE sock' = sock
      BY <2>2, <3>1
    <3>2. CASE sock' # sock
      <4>1. sock = TRUE /\ sock' = FALSE
        BY <2>1, <2>2, <3>2 DEF TypeOK
      <4> QED BY <2>2, <4>1 DEF Stream!Drop
    <3> QED BY <3>1, <3>2
  <2>3. CASE ProcessKeepAlive
    <3>1. taken + 1 \in 1 .. Len(sent) /\ sent[taken + 1] \notin Heeded
      BY <2>3, KeepAliveStep
    <3>2. taken < Len(sent)
      BY <2>1, <3>1 DEF TypeOK
    <3>3. sock /\ taken' = taken + 1 /\ UNCHANGED <<sock, sent, handled>>
      BY <2>3 DEF ProcessKeepAlive, peerVars
    <3>4. sock' \in BOOLEAN
      BY <2>1 DEF TypeOK
    <3> QED BY <3>1, <3>2, <3>3, <3>4 DEF Stream!Ignore, Stream!Deal
  <2>4. CASE ProcessMessage
    <3>1. /\ taken + 1 \in 1 .. Len(sent)
          /\ handled' = IF sent[taken + 1] \in Heeded
                        THEN Append(handled, sent[taken + 1]) ELSE handled
      BY <2>4, MessageStep
    <3>2. taken < Len(sent)
      BY <2>1, <3>1 DEF TypeOK
    <3>3. sock /\ taken' = taken + 1 /\ UNCHANGED sent
      BY <2>4 DEF ProcessMessage, peerVars
    <3>4. sock' \in BOOLEAN
      BY <2>1 DEF TypeOK
    <3> QED BY <3>1, <3>2, <3>3, <3>4
            DEF Stream!Handle, Stream!Ignore, Stream!Deal
  <2>5. ASSUME NEW m \in Messages, PeerSends(m)
        PROVE  Stream!StreamNext
    BY <2>5 DEF PeerSends, OnlyPeer, Stream!Put
  <2>6. CASE OnReadyWrite
    BY <2>2, <2>6 DEF OnReadyWrite, Sends, SendThrows, Throws, peerVars
  <2>7. CASE Receive \/ ReceiveFails \/ WaitForMore
    BY <2>2, <2>7 DEF Receive, ReceiveFails, WaitForMore, Throws, peerVars
  <2>8. CASE ProcessHandshake
    BY <2>2, <2>8 DEF ProcessHandshake, Sends, SendThrows, Throws, peerVars
  <2>9. CASE PeerGreets \/ PeerCloses
    BY <2>2, <2>9 DEF PeerGreets, PeerCloses, OnlyPeer
  <2>10. CASE UNCHANGED vars
    BY <2>2, <2>10 DEF vars, peerVars
  <2> QED
    BY <2>3, <2>4, <2>5, <2>6, <2>7, <2>8, <2>9, <2>10 DEF Next, Network
<1> QED
  BY <1>1, <1>2, FramingInvariant, PTL DEF Spec, ImplementsStream, Stream!StreamSpec

=============================================================================

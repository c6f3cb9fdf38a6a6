-------------------------- MODULE FarmFlightProofs --------------------------
(***************************************************************************)
(* Proofs about the blocks under way in the module Farm, between the       *)
(* request and the buffer: that each byte of the torrent is in at most one *)
(* place, and so is counted once and its piece written once; and how many  *)
(* requests there are in flight.                                           *)
(***************************************************************************)
EXTENDS FarmTypeProofs, FiniteSetTheorems

-----------------------------------------------------------------------------
(* Where the bytes of the torrent are.  A cell is a position in a piece,   *)
(* counted from 1; a slot is a place in a sequence of messages or requests.*)

At(i, P) == {<<i, p>> : p \in P}
Cells(i, begin, len) == At(i, begin + 1 .. begin + len)

Slots == Conns \X {"wire", "reqs"} \X (Nat \ {0})
WireSlot(c, k) == <<c, "wire", k>>
ReqSlot(c, k) == <<c, "reqs", k>>

MessageCells(m) ==
  IF m.type = "piece" THEN Cells(m.index, m.begin, Len(m.data)) ELSE {}
RequestCells(r) == Cells(r.index, r.begin, r.len)

\* The cells of the k-th message or request of a sequence, if it has one, and
\* of what lies in a slot, of the messages w and the requests r.
WireCargo(ms, k) == IF k \in DOMAIN ms THEN MessageCells(ms[k]) ELSE {}
ReqCargo(rs, k) == IF k \in DOMAIN rs THEN RequestCells(rs[k]) ELSE {}
Cargo(w, r, s) ==
  IF s[2] = "wire" THEN WireCargo(w[s[1]], s[3]) ELSE ReqCargo(r[s[1]], s[3])

\* What has been asked for, of the requests sent.
AskedCells(as) == UNION {At(i, 1 .. EndOf(as[i])) : i \in Pieces}

\* No two slots hold the same cell, all cells under way have been asked for,
\* and no block is empty.
Blocks(w, r, as) ==
  /\ \A s, t \in Slots : s # t => Cargo(w, r, s) \cap Cargo(w, r, t) = {}
  /\ \A s \in Slots : Cargo(w, r, s) \subseteq AskedCells(as)
  /\ \A c \in Conns : \A k \in DOMAIN r[c] : r[c][k].len > 0
  /\ \A c \in Conns : \A k \in DOMAIN w[c] :
       w[c][k].type = "piece" => Len(w[c][k].data) > 0

\* Cells that have been asked for and are not under way any more.
Settled(w, r, as, R) ==
  R \subseteq AskedCells(as) /\ \A s \in Slots : Cargo(w, r, s) \cap R = {}

\* The cells in the buffer and those of the pieces given to the writer.
LandedCells ==
  (IF current_piece_index = NoPiece THEN {} ELSE At(current_piece_index, fill))
  \cup UNION {At(i, 1 .. PieceLen(i)) : i \in {j \in Pieces : Queued(j)}}

\* The buffer is as long as its piece, or was moved away when that was full.
BufferInv ==
  /\ CountsDistinctBytes
  /\ current_piece_index = NoPiece => fill = {}
  /\ current_piece_index # NoPiece =>
       /\ fill \subseteq 1 .. PieceLen(current_piece_index)
       /\ Len(piece_buffer) \in {0, PieceLen(current_piece_index)}
       /\ Len(piece_buffer) = 0 => fill = 1 .. PieceLen(current_piece_index)

FlightInv ==
  /\ Blocks(wire, reqs, asked) /\ Settled(wire, reqs, asked, LandedCells)
  /\ BufferInv /\ WrittenOnce

-----------------------------------------------------------------------------
(* Blocks change places. *)

\* The cells of some positions of a piece, and those asked for.
LEMMA AtCell ==
  ASSUME NEW i, NEW P, NEW j, NEW p
  PROVE  <<j, p>> \in At(i, P) <=> j = i /\ p \in P
BY DEF At

LEMMA AskedCell ==
  ASSUME NEW as, NEW j, NEW p
  PROVE  <<j, p>> \in AskedCells(as) <=> j \in Pieces /\ p \in 1 .. EndOf(as[j])
<1>1. <<j, p>> \in AskedCells(as)
        <=> \E i \in Pieces : <<j, p>> \in At(i, 1 .. EndOf(as[i]))
  BY DEF AskedCells
<1>2. \A i \in Pieces : <<j, p>> \in At(i, 1 .. EndOf(as[i]))
                          <=> j = i /\ p \in 1 .. EndOf(as[i])
  BY AtCell
<1> QED BY <1>1, <1>2

\* Every cell asked for is a position in a piece.
LEMMA AskedPair ==
  ASSUME NEW as, NEW x \in AskedCells(as)
  PROVE  \E j \in Pieces : \E p \in 1 .. EndOf(as[j]) : x = <<j, p>>
<1>1. PICK j \in Pieces : x \in At(j, 1 .. EndOf(as[j]))
  BY DEF AskedCells
<1> QED BY <1>1 DEF At

\* A slot holds what is at its place, and is that of no other place.
LEMMA CargoAt ==
  ASSUME NEW w, NEW r, NEW c \in Conns, NEW k \in Nat \ {0}
  PROVE  /\ WireSlot(c, k) \in Slots /\ ReqSlot(c, k) \in Slots
         /\ Cargo(w, r, WireSlot(c, k)) = WireCargo(w[c], k)
         /\ Cargo(w, r, ReqSlot(c, k)) = ReqCargo(r[c], k)
BY DEF Slots, Cargo, WireSlot, ReqSlot

\* A slot holds no more than another one did if what is at their places says so.
LEMMA WireSlotMoved ==
  ASSUME NEW w, NEW r, NEW w2, NEW r2, NEW c \in Conns, NEW k \in Nat \ {0},
         NEW d \in Conns, NEW l \in Nat \ {0},
         WireCargo(w2[c], k) \subseteq WireCargo(w[d], l)
  PROVE  Cargo(w2, r2, WireSlot(c, k)) \subseteq Cargo(w, r, WireSlot(d, l))
<1>1. Cargo(w, r, WireSlot(d, l)) = WireCargo(w[d], l)
  BY DEF Cargo, WireSlot
<1>2. Cargo(w2, r2, WireSlot(c, k)) = WireCargo(w2[c], k)
  BY DEF Cargo, WireSlot
<1> QED BY <1>1, <1>2

LEMMA ReqSlotMoved ==
  ASSUME NEW w, NEW r, NEW w2, NEW r2, NEW c \in Conns, NEW k \in Nat \ {0},
         NEW d \in Conns, NEW l \in Nat \ {0},
         ReqCargo(r2[c], k) \subseteq ReqCargo(r[d], l)
  PROVE  Cargo(w2, r2, ReqSlot(c, k)) \subseteq Cargo(w, r, ReqSlot(d, l))
<1>1. Cargo(w, r, ReqSlot(d, l)) = ReqCargo(r[d], l)
  BY DEF Cargo, ReqSlot
<1>2. Cargo(w2, r2, ReqSlot(c, k)) = ReqCargo(r2[c], k)
  BY DEF Cargo, ReqSlot
<1> QED BY <1>1, <1>2

\* A message or a request that has moved keeps its cells.
LEMMA WireMoved ==
  ASSUME NEW p, NEW q, NEW k, NEW l,
         k \in DOMAIN p => \/ l \in DOMAIN q /\ p[k] = q[l]
                          \/ p[k].type # "piece"
  PROVE  WireCargo(p, k) \subseteq WireCargo(q, l)
BY DEF WireCargo, MessageCells

LEMMA ReqMoved ==
  ASSUME NEW p, NEW q, NEW k, NEW l,
         k \in DOMAIN p => l \in DOMAIN q /\ p[k] = q[l]
  PROVE  ReqCargo(p, k) \subseteq ReqCargo(q, l)
BY DEF ReqCargo

LEMMA SlotPlace ==
  ASSUME NEW c, NEW k, NEW d, NEW l
  PROVE  /\ WireSlot(c, k) = WireSlot(d, l) => c = d /\ k = l
         /\ ReqSlot(c, k) = ReqSlot(d, l) => c = d /\ k = l
         /\ WireSlot(c, k) # ReqSlot(d, l)
BY DEF WireSlot, ReqSlot

LEMMA SlotShape ==
  ASSUME NEW s \in Slots
  PROVE  \E d \in Conns, k \in Nat \ {0} : s = WireSlot(d, k) \/ s = ReqSlot(d, k)
BY DEF Slots, WireSlot, ReqSlot

\* The end of a sequence of requests.
LEMMA EndOfType ==
  ASSUME NEW rs \in Seq(Request)
  PROVE  EndOf(rs) \in Nat
<1>1. CASE Len(rs) = 0
  BY <1>1 DEF EndOf
<1>2. CASE Len(rs) # 0
  <2>1. rs[Len(rs)] \in Request
    BY <1>2
  <2> QED BY <1>2, <2>1 DEF EndOf, Request
<1> QED BY <1>1, <1>2

\* The positions of a block that starts where the last one ended.
LEMMA NextPositions ==
  ASSUME NEW a \in Nat, NEW b \in Nat, NEW p
  PROVE  /\ p \in a + 1 .. a + b => p \in 1 .. a + b /\ p \notin 1 .. a
         /\ p \in 1 .. a => p \in 1 .. a + b
OBVIOUS

\* A block asked for at the end of what has been asked of its piece is new.
LEMMA NewBlock ==
  ASSUME NEW as \in [Pieces -> Seq(Request)], NEW i \in Pieces,
         NEW q \in Request, q.begin = EndOf(as[i])
  PROVE  /\ Cells(i, q.begin, q.len) \cap AskedCells(as) = {}
         /\ AskedCells(as) \cup Cells(i, q.begin, q.len)
              \subseteq AskedCells([as EXCEPT ![i] = Append(@, q)])
<1> DEFINE bs == [as EXCEPT ![i] = Append(@, q)]
<1>1. /\ EndOf(bs[i]) = q.begin + q.len /\ q.begin \in Nat /\ q.len \in Nat
      /\ \A j \in Pieces : j # i => bs[j] = as[j]
  <2>1. q.begin \in Nat /\ q.len \in Nat
    BY DEF Request
  <2>2. bs[i] = Append(as[i], q)
    OBVIOUS
  <2> QED BY <2>1, <2>2, TileAppend
<1> HIDE DEF bs
<1>2. ASSUME NEW x \in Cells(i, q.begin, q.len), x \in AskedCells(as)
      PROVE  FALSE
  <2>1. PICK j \in Pieces : \E p \in 1 .. EndOf(as[j]) : x = <<j, p>>
    BY <1>2, AskedPair
  <2>2. PICK p \in 1 .. EndOf(as[j]) : x = <<j, p>>
    BY <2>1
  <2>3. j = i /\ p \in q.begin + 1 .. q.begin + q.len
    BY <2>2, AtCell DEF Cells
  <2> QED BY <1>1, <2>2, <2>3, NextPositions
<1>3. ASSUME NEW x \in AskedCells(as)
      PROVE  x \in AskedCells(bs)
  <2>1. PICK j \in Pieces : \E p \in 1 .. EndOf(as[j]) : x = <<j, p>>
    BY AskedPair
  <2>2. PICK p \in 1 .. EndOf(as[j]) : x = <<j, p>>
    BY <2>1
  <2>3. p \in 1 .. EndOf(bs[j])
    <3>1. CASE j = i
      BY <1>1, <2>2, <3>1, NextPositions
    <3>2. CASE j # i
      BY <1>1, <3>2
    <3> QED BY <3>1, <3>2
  <2> QED BY <2>2, <2>3, AskedCell
<1>4. ASSUME NEW x \in Cells(i, q.begin, q.len)
      PROVE  x \in AskedCells(bs)
  <2>1. PICK p \in q.begin + 1 .. q.begin + q.len : x = <<i, p>>
    BY DEF Cells, At
  <2>2. p \in 1 .. EndOf(bs[i])
    BY <1>1, <2>1, NextPositions
  <2> QED BY <2>1, <2>2, AskedCell
<1> QED BY <1>2, <1>3, <1>4 DEF bs

\* Every slot but n holds no more than the slot g gives for it held before, no
\* two of them the same, and n holds only cells of N, which are new.
Moved(w, r, as, w2, r2, as2, g, N, n) ==
  /\ N \cap AskedCells(as) = {}
  /\ AskedCells(as) \cup N \subseteq AskedCells(as2)
  /\ \A s \in Slots : g[s] \in Slots
  /\ \A s \in Slots : s # n => Cargo(w2, r2, s) \subseteq Cargo(w, r, g[s])
  /\ n \in Slots => Cargo(w2, r2, n) \subseteq N
  /\ \A s, t \in Slots : s # t /\ s # n /\ t # n => g[s] # g[t]
  /\ \A c \in Conns : \A k \in DOMAIN r2[c] : r2[c][k].len > 0
  /\ \A c \in Conns : \A k \in DOMAIN w2[c] :
       w2[c][k].type = "piece" => Len(w2[c][k].data) > 0

\* Then still no cell is in two slots, and what was in no slot, or in one that
\* no other took over, is in none.
LEMMA BlocksMove ==
  ASSUME NEW w, NEW r, NEW as, NEW w2, NEW r2, NEW as2, NEW g, NEW N, NEW n,
         Blocks(w, r, as), Moved(w, r, as, w2, r2, as2, g, N, n)
  PROVE  /\ Blocks(w2, r2, as2)
         /\ \A R : Settled(w, r, as, R) => Settled(w2, r2, as2, R)
         /\ \A z \in Slots : (\A s \in Slots : s # n => g[s] # z)
                            => Settled(w2, r2, as2, Cargo(w, r, z))
<1>0. /\ N \cap AskedCells(as) = {}
      /\ AskedCells(as) \cup N \subseteq AskedCells(as2)
      /\ \A s \in Slots : g[s] \in Slots
      /\ \A s \in Slots : s # n => Cargo(w2, r2, s) \subseteq Cargo(w, r, g[s])
      /\ n \in Slots => Cargo(w2, r2, n) \subseteq N
      /\ \A s, t \in Slots : s # t /\ s # n /\ t # n => g[s] # g[t]
      /\ \A c \in Conns : \A k \in DOMAIN r2[c] : r2[c][k].len > 0
      /\ \A c \in Conns : \A k \in DOMAIN w2[c] :
           w2[c][k].type = "piece" => Len(w2[c][k].data) > 0
  BY DEF Moved
<1>1. /\ \A s, t \in Slots : s # t => Cargo(w, r, s) \cap Cargo(w, r, t) = {}
      /\ \A s \in Slots : Cargo(w, r, s) \subseteq AskedCells(as)
  BY DEF Blocks
<1>2. ASSUME NEW s \in Slots, s # n
      PROVE  Cargo(w2, r2, s) \subseteq AskedCells(as)
  BY <1>0, <1>1, <1>2
<1>3. ASSUME NEW s \in Slots, NEW t \in Slots, s # t
      PROVE  Cargo(w2, r2, s) \cap Cargo(w2, r2, t) = {}
  <2>1. CASE s # n /\ t # n
    <3>1. Cargo(w, r, g[s]) \cap Cargo(w, r, g[t]) = {}
      BY <1>0, <1>1, <1>3, <2>1
    <3>2. /\ Cargo(w2, r2, s) \subseteq Cargo(w, r, g[s])
          /\ Cargo(w2, r2, t) \subseteq Cargo(w, r, g[t])
      BY <1>0, <2>1
    <3> QED BY <3>1, <3>2
  <2>2. CASE s = n
    BY <1>0, <1>2, <1>3, <2>2
  <2>3. CASE t = n
    BY <1>0, <1>2, <1>3, <2>3
  <2> QED BY <2>1, <2>2, <2>3
<1>4. ASSUME NEW s \in Slots
      PROVE  Cargo(w2, r2, s) \subseteq AskedCells(as2)
  <2>1. CASE s # n
    BY <1>0, <1>2, <2>1
  <2>2. CASE s = n
    BY <1>0, <2>2
  <2> QED BY <2>1, <2>2
<1>5. Blocks(w2, r2, as2)
  BY <1>0, <1>3, <1>4 DEF Blocks
<1>6. ASSUME NEW R, Settled(w, r, as, R)
      PROVE  Settled(w2, r2, as2, R)
  <2>1. R \subseteq AskedCells(as) /\ \A s \in Slots : Cargo(w, r, s) \cap R = {}
    BY <1>0, <1>6 DEF Settled
  <2>2. ASSUME NEW s \in Slots
        PROVE  Cargo(w2, r2, s) \cap R = {}
    <3>1. CASE s # n
      <4>1. Cargo(w, r, g[s]) \cap R = {}
        BY <1>0, <2>1
      <4> QED BY <1>0, <3>1, <4>1
    <3>2. CASE s = n
      BY <1>0, <2>1, <3>2
    <3> QED BY <3>1, <3>2
  <2> QED BY <1>0, <2>1, <2>2 DEF Settled
<1>7. ASSUME NEW z \in Slots, \A s \in Slots : s # n => g[s] # z
      PROVE  Settled(w2, r2, as2, Cargo(w, r, z))
  <2>1. Cargo(w, r, z) \subseteq AskedCells(as)
    BY <1>0, <1>1
  <2>2. ASSUME NEW s \in Slots
        PROVE  Cargo(w2, r2, s) \cap Cargo(w, r, z) = {}
    <3>1. CASE s # n
      <4>1. Cargo(w, r, g[s]) \cap Cargo(w, r, z) = {}
        BY <1>0, <1>1, <1>7, <3>1
      <4> QED BY <1>0, <3>1, <4>1
    <3>2. CASE s = n
      BY <1>0, <2>1, <3>2
    <3> QED BY <3>1, <3>2
  <2> QED BY <1>0, <2>1, <2>2 DEF Settled
<1> QED BY <1>5, <1>6, <1>7

\* A step that adds no block and no request.
Shrinks(w, r, w2, r2) ==
  /\ \A c \in Conns : \A k \in DOMAIN w2[c] :
       \/ k \in DOMAIN w[c] /\ w2[c][k] = w[c][k]
       \/ w2[c][k].type # "piece"
  /\ \A c \in Conns : \A k \in DOMAIN r2[c] :
       k \in DOMAIN r[c] /\ r2[c][k] = r[c][k]

LEMMA BlocksShrink ==
  ASSUME NEW w, NEW r, NEW as, NEW w2, NEW r2,
         Blocks(w, r, as), Shrinks(w, r, w2, r2)
  PROVE  /\ Blocks(w2, r2, as)
         /\ \A R : Settled(w, r, as, R) => Settled(w2, r2, as, R)
<1>0. /\ \A c \in Conns : \A k \in DOMAIN w2[c] :
           \/ k \in DOMAIN w[c] /\ w2[c][k] = w[c][k]
           \/ w2[c][k].type # "piece"
      /\ \A c \in Conns : \A k \in DOMAIN r2[c] :
           k \in DOMAIN r[c] /\ r2[c][k] = r[c][k]
  BY DEF Shrinks
<1>1. ASSUME NEW s \in Slots
      PROVE  Cargo(w2, r2, s) \subseteq Cargo(w, r, s)
  <2>1. PICK c \in Conns, k \in Nat \ {0} :
          s = WireSlot(c, k) \/ s = ReqSlot(c, k)
    BY SlotShape
  <2>2. CASE s = WireSlot(c, k)
    <3>1. WireCargo(w2[c], k) \subseteq WireCargo(w[c], k)
      BY <1>0, WireMoved
    <3> QED BY <2>2, <3>1, WireSlotMoved
  <2>3. CASE s = ReqSlot(c, k)
    <3>1. ReqCargo(r2[c], k) \subseteq ReqCargo(r[c], k)
      BY <1>0, ReqMoved
    <3> QED BY <2>3, <3>1, ReqSlotMoved
  <2> QED BY <2>1, <2>2, <2>3
<1>2. /\ \A s, t \in Slots : s # t => Cargo(w, r, s) \cap Cargo(w, r, t) = {}
      /\ \A s \in Slots : Cargo(w, r, s) \subseteq AskedCells(as)
      /\ \A c \in Conns : \A k \in DOMAIN r[c] : r[c][k].len > 0
      /\ \A c \in Conns : \A k \in DOMAIN w[c] :
           w[c][k].type = "piece" => Len(w[c][k].data) > 0
  BY DEF Blocks
<1>3. /\ \A s, t \in Slots : s # t => Cargo(w2, r2, s) \cap Cargo(w2, r2, t) = {}
      /\ \A s \in Slots : Cargo(w2, r2, s) \subseteq AskedCells(as)
  <2>1. ASSUME NEW s \in Slots, NEW t \in Slots, s # t
        PROVE  Cargo(w2, r2, s) \cap Cargo(w2, r2, t) = {}
    <3>1. Cargo(w, r, s) \cap Cargo(w, r, t) = {}
      BY <1>2, <2>1
    <3>2. /\ Cargo(w2, r2, s) \subseteq Cargo(w, r, s)
          /\ Cargo(w2, r2, t) \subseteq Cargo(w, r, t)
      BY <1>1
    <3> QED BY <3>1, <3>2
  <2> QED BY <1>1, <1>2, <2>1
<1>4. /\ \A c \in Conns : \A k \in DOMAIN r2[c] : r2[c][k].len > 0
      /\ \A c \in Conns : \A k \in DOMAIN w2[c] :
           w2[c][k].type = "piece" => Len(w2[c][k].data) > 0
  BY <1>0, <1>2
<1>5. Blocks(w2, r2, as)
  BY <1>3, <1>4 DEF Blocks
<1>6. ASSUME NEW R, Settled(w, r, as, R)
      PROVE  Settled(w2, r2, as, R)
  <2>1. R \subseteq AskedCells(as) /\ \A s \in Slots : Cargo(w, r, s) \cap R = {}
    BY <1>6 DEF Settled
  <2>2. ASSUME NEW s \in Slots
        PROVE  Cargo(w2, r2, s) \cap R = {}
    BY <1>1, <2>1
  <2> QED BY <2>1, <2>2 DEF Settled
<1> QED BY <1>5, <1>6

\* A connection takes the first message off its wire, or loses its socket, and
\* may send a request, the next one of its peer, for the cells N.
Takes(w, r, as, w2, r2, as2, c, N, next) ==
  /\ next \in Nat \ {0} /\ 1 \in DOMAIN w[c]
  /\ N \cap AskedCells(as) = {}
  /\ AskedCells(as) \cup N \subseteq AskedCells(as2)
  /\ \A d \in Conns : d # c => w2[d] = w[d] /\ r2[d] = r[d]
  /\ \A k \in DOMAIN w2[c] :
       k \in Nat \ {0} /\ k + 1 \in DOMAIN w[c] /\ w2[c][k] = w[c][k + 1]
  /\ \A k \in DOMAIN r2[c] :
       \/ k # next /\ k \in DOMAIN r[c] /\ r2[c][k] = r[c][k]
       \/ k = next /\ RequestCells(r2[c][k]) \subseteq N /\ r2[c][k].len > 0

LEMMA BlocksTake ==
  ASSUME NEW w, NEW r, NEW as, NEW w2, NEW r2, NEW as2, NEW c \in Conns, NEW N,
         NEW next, Blocks(w, r, as), Takes(w, r, as, w2, r2, as2, c, N, next)
  PROVE  /\ Blocks(w2, r2, as2)
         /\ \A R : Settled(w, r, as, R) => Settled(w2, r2, as2, R)
         /\ Settled(w2, r2, as2, MessageCells(w[c][1]))
<1> DEFINE n == ReqSlot(c, next)
           g == [s \in Slots |-> IF s[1] = c /\ s[2] = "wire"
                                 THEN <<c, "wire", s[3] + 1>> ELSE s]
           z == WireSlot(c, 1)
<1>0. /\ next \in Nat \ {0} /\ 1 \in DOMAIN w[c]
      /\ N \cap AskedCells(as) = {}
      /\ AskedCells(as) \cup N \subseteq AskedCells(as2)
      /\ \A d \in Conns : d # c => w2[d] = w[d] /\ r2[d] = r[d]
      /\ \A k \in DOMAIN w2[c] :
           k \in Nat \ {0} /\ k + 1 \in DOMAIN w[c] /\ w2[c][k] = w[c][k + 1]
      /\ \A k \in DOMAIN r2[c] :
           \/ k # next /\ k \in DOMAIN r[c] /\ r2[c][k] = r[c][k]
           \/ k = next /\ RequestCells(r2[c][k]) \subseteq N /\ r2[c][k].len > 0
  BY DEF Takes
<1>1. /\ \A d \in Conns : \A k \in DOMAIN r[d] : r[d][k].len > 0
      /\ \A d \in Conns : \A k \in DOMAIN w[d] :
           w[d][k].type = "piece" => Len(w[d][k].data) > 0
  BY DEF Blocks
<1>2. /\ \A d \in Conns : \A k \in DOMAIN r2[d] : r2[d][k].len > 0
      /\ \A d \in Conns : \A k \in DOMAIN w2[d] :
           w2[d][k].type = "piece" => Len(w2[d][k].data) > 0
  BY <1>0, <1>1
<1>3. \A d \in Conns, k \in Nat \ {0} :
        /\ g[WireSlot(d, k)] = IF d = c THEN WireSlot(d, k + 1)
                                 ELSE WireSlot(d, k)
        /\ g[ReqSlot(d, k)] = ReqSlot(d, k)
  BY CargoAt DEF WireSlot, ReqSlot
<1> HIDE DEF g
<1>4. ASSUME NEW s \in Slots
      PROVE  /\ g[s] \in Slots
             /\ s # n => Cargo(w2, r2, s) \subseteq Cargo(w, r, g[s])
  <2>1. PICK d \in Conns, k \in Nat \ {0} :
          s = WireSlot(d, k) \/ s = ReqSlot(d, k)
    BY SlotShape
  <2>2. k + 1 \in Nat \ {0}
    OBVIOUS
  <2>3. CASE s = WireSlot(d, k)
    <3>1. CASE d = c
      <4>1. g[s] = WireSlot(c, k + 1)
        BY <1>3, <2>3, <3>1
      <4>2. WireCargo(w2[c], k) \subseteq WireCargo(w[c], k + 1)
        BY <1>0, WireMoved
      <4>3. Cargo(w2, r2, WireSlot(c, k)) \subseteq Cargo(w, r, WireSlot(c, k + 1))
        BY <2>2, <4>2, WireSlotMoved
      <4>4. WireSlot(c, k + 1) \in Slots
        BY <2>2, CargoAt
      <4> QED BY <2>3, <3>1, <4>1, <4>3, <4>4
    <3>2. CASE d # c
      <4>1. g[s] = s
        BY <1>3, <2>3, <3>2
      <4>2. WireCargo(w2[d], k) = WireCargo(w[d], k)
        BY <1>0, <3>2
      <4> QED BY <2>3, <4>1, <4>2, WireSlotMoved, CargoAt
    <3> QED BY <3>1, <3>2
  <2>4. CASE s = ReqSlot(d, k)
    <3>1. CASE d = c
      <4>1. g[s] = s
        BY <1>3, <2>4
      <4>2. k # next => ReqCargo(r2[c], k) \subseteq ReqCargo(r[c], k)
        BY <1>0, ReqMoved
      <4>3. s # n => k # next
        BY <2>4, <3>1
      <4> QED BY <2>4, <3>1, <4>1, <4>2, <4>3, ReqSlotMoved, CargoAt
    <3>2. CASE d # c
      <4>1. g[s] = s
        BY <1>3, <2>4
      <4>2. ReqCargo(r2[d], k) = ReqCargo(r[d], k)
        BY <1>0, <3>2
      <4> QED BY <2>4, <4>1, <4>2, ReqSlotMoved, CargoAt
    <3> QED BY <3>1, <3>2
  <2> QED BY <2>1, <2>3, <2>4
<1>5. n \in Slots /\ Cargo(w2, r2, n) \subseteq N
  <2>1. ReqCargo(r2[c], next) \subseteq N
    BY <1>0 DEF ReqCargo
  <2>2. n \in Slots
    BY <1>0 DEF Slots, ReqSlot
  <2>3. Cargo(w2, r2, n) = ReqCargo(r2[c], next)
    BY <1>0 DEF Cargo, ReqSlot
  <2> QED BY <2>1, <2>2, <2>3
<1>6. ASSUME NEW s \in Slots, NEW t \in Slots, g[s] = g[t]
      PROVE  s = t
  <2>1. PICK d \in Conns, k \in Nat \ {0} :
          s = WireSlot(d, k) \/ s = ReqSlot(d, k)
    BY SlotShape
  <2>2. PICK e \in Conns, l \in Nat \ {0} :
          t = WireSlot(e, l) \/ t = ReqSlot(e, l)
    BY SlotShape
  <2> QED BY <1>3, <1>6, <2>1, <2>2, SlotPlace
<1>7. z \in Slots /\ \A s \in Slots : g[s] # z
  <2>1. z \in Slots
    BY <1>0 DEF Slots, WireSlot
  <2>2. ASSUME NEW s \in Slots, g[s] = z
        PROVE  FALSE
    <3>1. PICK d \in Conns, k \in Nat \ {0} :
            s = WireSlot(d, k) \/ s = ReqSlot(d, k)
      BY SlotShape
    <3> QED BY <1>3, <2>2, <3>1, SlotPlace
  <2> QED BY <2>1, <2>2
<1>8. Cargo(w, r, z) = MessageCells(w[c][1])
  <2>1. WireCargo(w[c], 1) = MessageCells(w[c][1])
    BY <1>0 DEF WireCargo
  <2>2. Cargo(w, r, z) = WireCargo(w[c], 1)
    BY <1>0 DEF Cargo, WireSlot
  <2> QED BY <2>1, <2>2
<1> HIDE DEF n, z
<1>9. /\ Blocks(w2, r2, as2)
      /\ \A R : Settled(w, r, as, R) => Settled(w2, r2, as2, R)
      /\ \A y \in Slots : (\A s \in Slots : s # n => g[s] # y)
                         => Settled(w2, r2, as2, Cargo(w, r, y))
  <2>1. \A s \in Slots : g[s] \in Slots
    BY <1>4
  <2>2. \A s \in Slots : s # n => Cargo(w2, r2, s) \subseteq Cargo(w, r, g[s])
    BY <1>4
  <2>3. \A s, t \in Slots : s # t /\ s # n /\ t # n => g[s] # g[t]
    BY <1>6
  <2>4. Moved(w, r, as, w2, r2, as2, g, N, n)
    BY <1>0, <1>2, <1>5, <2>1, <2>2, <2>3 DEF Moved
  <2> QED BY <2>4, BlocksMove
<1> QED BY <1>7, <1>8, <1>9

\* A peer answers the j-th of its requests with a block of the same cells.
Serves(w, r, w2, r2, c, j) ==
  /\ j \in DOMAIN r[c]
  /\ \A d \in Conns : d # c => w2[d] = w[d] /\ r2[d] = r[d]
  /\ \A k \in DOMAIN w2[c] :
       \/ k # Len(w[c]) + 1 /\ k \in DOMAIN w[c] /\ w2[c][k] = w[c][k]
       \/ /\ k = Len(w[c]) + 1 /\ Len(w2[c][k].data) > 0
          /\ MessageCells(w2[c][k]) = RequestCells(r[c][j])
  /\ \A k \in DOMAIN r2[c] :
       \/ k < j /\ k \in DOMAIN r[c] /\ r2[c][k] = r[c][k]
       \/ k >= j /\ k + 1 \in DOMAIN r[c] /\ r2[c][k] = r[c][k + 1]

LEMMA BlocksServe ==
  ASSUME NEW w \in [Conns -> Seq(Message)], NEW r \in [Conns -> Seq(PeerRequest)],
         NEW as, NEW w2, NEW r2, NEW c \in Conns, NEW j,
         Blocks(w, r, as), Serves(w, r, w2, r2, c, j)
  PROVE  /\ Blocks(w2, r2, as)
         /\ \A R : Settled(w, r, as, R) => Settled(w2, r2, as, R)
<1> DEFINE n == ReqSlot(c, Len(r[c]) + 1)
           g == [s \in Slots |->
                   IF s = WireSlot(c, Len(w[c]) + 1) THEN ReqSlot(c, j)
                   ELSE IF s[1] = c /\ s[2] = "reqs" /\ s[3] >= j
                        THEN ReqSlot(c, s[3] + 1) ELSE s]
<1>0. /\ j \in DOMAIN r[c]
      /\ \A d \in Conns : d # c => w2[d] = w[d] /\ r2[d] = r[d]
      /\ \A k \in DOMAIN w2[c] :
           \/ k # Len(w[c]) + 1 /\ k \in DOMAIN w[c] /\ w2[c][k] = w[c][k]
           \/ /\ k = Len(w[c]) + 1 /\ Len(w2[c][k].data) > 0
              /\ MessageCells(w2[c][k]) = RequestCells(r[c][j])
      /\ \A k \in DOMAIN r2[c] :
           \/ k < j /\ k \in DOMAIN r[c] /\ r2[c][k] = r[c][k]
           \/ k >= j /\ k + 1 \in DOMAIN r[c] /\ r2[c][k] = r[c][k + 1]
  BY DEF Serves
<1>1. /\ \A d \in Conns : \A k \in DOMAIN r[d] : r[d][k].len > 0
      /\ \A d \in Conns : \A k \in DOMAIN w[d] :
           w[d][k].type = "piece" => Len(w[d][k].data) > 0
  BY DEF Blocks
<1>2. /\ \A d \in Conns : \A k \in DOMAIN r2[d] : r2[d][k].len > 0
      /\ \A d \in Conns : \A k \in DOMAIN w2[d] :
           w2[d][k].type = "piece" => Len(w2[d][k].data) > 0
  BY <1>0, <1>1
<1>3. /\ Len(w[c]) + 1 \in Nat \ {0} /\ Len(r[c]) + 1 \in Nat \ {0}
      /\ DOMAIN r[c] = 1 .. Len(r[c]) /\ j \in Nat \ {0}
  BY <1>0
<1>4. \A d \in Conns, k \in Nat \ {0} :
        /\ g[WireSlot(d, k)] = IF d = c /\ k = Len(w[c]) + 1 THEN ReqSlot(c, j)
                               ELSE WireSlot(d, k)
        /\ g[ReqSlot(d, k)] = IF d = c /\ k >= j THEN ReqSlot(d, k + 1)
                              ELSE ReqSlot(d, k)
  <2> SUFFICES ASSUME NEW d \in Conns, NEW k \in Nat \ {0}
               PROVE  /\ g[WireSlot(d, k)] =
                           IF d = c /\ k = Len(w[c]) + 1 THEN ReqSlot(c, j)
                           ELSE WireSlot(d, k)
                      /\ g[ReqSlot(d, k)] = IF d = c /\ k >= j
                                            THEN ReqSlot(d, k + 1)
                                            ELSE ReqSlot(d, k)
    OBVIOUS
  <2>1. WireSlot(d, k) \in Slots /\ ReqSlot(d, k) \in Slots
    BY DEF Slots, WireSlot, ReqSlot
  <2>2. g[WireSlot(d, k)] = IF d = c /\ k = Len(w[c]) + 1 THEN ReqSlot(c, j)
                            ELSE WireSlot(d, k)
    BY <2>1 DEF WireSlot, ReqSlot
  <2>3. g[ReqSlot(d, k)] = IF d = c /\ k >= j THEN ReqSlot(d, k + 1)
                           ELSE ReqSlot(d, k)
    BY <2>1 DEF WireSlot, ReqSlot
  <2> QED BY <2>2, <2>3
<1> HIDE DEF g
<1>5. ASSUME NEW s \in Slots
      PROVE  g[s] \in Slots /\ Cargo(w2, r2, s) \subseteq Cargo(w, r, g[s])
  <2>1. PICK d \in Conns, k \in Nat \ {0} :
          s = WireSlot(d, k) \/ s = ReqSlot(d, k)
    BY SlotShape
  <2>2. k + 1 \in Nat \ {0}
    OBVIOUS
  <2>3. CASE s = WireSlot(d, k) /\ d = c /\ k = Len(w[c]) + 1
    <3>1. g[s] = ReqSlot(c, j)
      BY <1>4, <2>3
    <3>2. Cargo(w, r, ReqSlot(c, j)) = RequestCells(r[c][j])
      <4>1. Cargo(w, r, ReqSlot(c, j)) = ReqCargo(r[c], j)
        BY DEF Cargo, ReqSlot
      <4> QED BY <1>0, <4>1 DEF ReqCargo
    <3>3. Cargo(w2, r2, s) = WireCargo(w2[c], k)
      BY <2>3 DEF Cargo, WireSlot
    <3>4. WireCargo(w2[c], k) \subseteq RequestCells(r[c][j])
      BY <1>0, <2>3 DEF WireCargo
    <3>5. ReqSlot(c, j) \in Slots
      BY <1>3, CargoAt
    <3> QED BY <3>1, <3>2, <3>3, <3>4, <3>5
  <2>4. CASE s = WireSlot(d, k) /\ ~(d = c /\ k = Len(w[c]) + 1)
    <3>1. g[s] = s
      BY <1>4, <2>4
    <3>2. WireCargo(w2[d], k) \subseteq WireCargo(w[d], k)
      BY <1>0, <2>4, WireMoved
    <3> QED BY <2>4, <3>1, <3>2, WireSlotMoved
  <2>5. CASE s = ReqSlot(d, k) /\ d = c /\ k >= j
    <3>1. g[s] = ReqSlot(c, k + 1)
      BY <1>4, <2>5
    <3>2. ReqCargo(r2[c], k) \subseteq ReqCargo(r[c], k + 1)
      <4>1. k \in DOMAIN r2[c] => k + 1 \in DOMAIN r[c] /\ r2[c][k] = r[c][k + 1]
        BY <1>0, <1>3, <2>5
      <4> QED BY <4>1, ReqMoved
    <3>3. Cargo(w2, r2, ReqSlot(c, k)) \subseteq Cargo(w, r, ReqSlot(c, k + 1))
      BY <2>2, <3>2, ReqSlotMoved
    <3>4. ReqSlot(c, k + 1) \in Slots
      BY <2>2, CargoAt
    <3> QED BY <2>5, <3>1, <3>3, <3>4
  <2>6. CASE s = ReqSlot(d, k) /\ ~(d = c /\ k >= j)
    <3>1. g[s] = s
      BY <1>4, <2>6
    <3>2. ReqCargo(r2[d], k) \subseteq ReqCargo(r[d], k)
      BY <1>0, <2>6, ReqMoved
    <3> QED BY <2>6, <3>1, <3>2, ReqSlotMoved
  <2> QED BY <2>1, <2>3, <2>4, <2>5, <2>6
<1>6. ASSUME NEW s \in Slots, NEW t \in Slots, g[s] = g[t]
      PROVE  s = t
  <2>1. PICK d \in Conns, k \in Nat \ {0} :
          s = WireSlot(d, k) \/ s = ReqSlot(d, k)
    BY SlotShape
  <2>2. PICK e \in Conns, l \in Nat \ {0} :
          t = WireSlot(e, l) \/ t = ReqSlot(e, l)
    BY SlotShape
  <2>3. CASE s = WireSlot(d, k) /\ t = WireSlot(e, l)
    <3>1. /\ g[s] = IF d = c /\ k = Len(w[c]) + 1 THEN ReqSlot(c, j)
                    ELSE WireSlot(d, k)
          /\ g[t] = IF e = c /\ l = Len(w[c]) + 1 THEN ReqSlot(c, j)
                    ELSE WireSlot(e, l)
      BY <1>4, <2>3
    <3> QED BY <1>6, <2>3, <3>1, SlotPlace
  <2>4. CASE s = ReqSlot(d, k) /\ t = ReqSlot(e, l)
    <3> DEFINE k3 == IF d = c /\ k >= j THEN k + 1 ELSE k
               l3 == IF e = c /\ l >= j THEN l + 1 ELSE l
    <3>1. g[s] = ReqSlot(d, k3) /\ g[t] = ReqSlot(e, l3)
      <4>1. g[s] = ReqSlot(d, k3)
        BY <1>4, <2>4
      <4>2. g[t] = ReqSlot(e, l3)
        BY <1>4, <2>4
      <4> QED BY <4>1, <4>2
    <3> HIDE DEF k3, l3
    <3>2. d = e /\ k3 = l3
      <4>1. ReqSlot(d, k3) = ReqSlot(e, l3)
        BY <1>6, <3>1
      <4> QED BY <4>1 DEF ReqSlot
    <3>3. k = l
      BY <1>3, <3>2 DEF k3, l3
    <3> QED BY <2>4, <3>2, <3>3
  <2>5. ASSUME NEW d1 \in Conns, NEW k1 \in Nat \ {0}, NEW d2 \in Conns,
               NEW k2 \in Nat \ {0}
        PROVE  g[WireSlot(d1, k1)] # g[ReqSlot(d2, k2)]
    <3>1. /\ g[WireSlot(d1, k1)] = IF d1 = c /\ k1 = Len(w[c]) + 1
                                   THEN ReqSlot(c, j) ELSE WireSlot(d1, k1)
          /\ g[ReqSlot(d2, k2)] = IF d2 = c /\ k2 >= j THEN ReqSlot(d2, k2 + 1)
                                  ELSE ReqSlot(d2, k2)
      BY <1>4
    <3>2. CASE d2 = c /\ k2 >= j
      <4>1. k2 + 1 # j
        BY <1>3, <3>2
      <4> QED BY <3>1, <3>2, <4>1, SlotPlace
    <3>3. CASE ~(d2 = c /\ k2 >= j)
      <4>1. ~(d2 = c /\ k2 = j)
        BY <1>3, <3>3
      <4>2. ReqSlot(c, j) # ReqSlot(d2, k2)
        BY <4>1, SlotPlace
      <4>3. WireSlot(d1, k1) # ReqSlot(d2, k2)
        BY SlotPlace
      <4> QED BY <3>1, <3>3, <4>2, <4>3
    <3> QED BY <3>2, <3>3
  <2> QED BY <1>6, <2>1, <2>2, <2>3, <2>4, <2>5
<1>7. n \in Slots /\ Cargo(w2, r2, n) \subseteq {}
  <2>1. ReqCargo(r2[c], Len(r[c]) + 1) \subseteq {}
    BY <1>0, <1>3 DEF ReqCargo
  <2>2. n \in Slots
    BY <1>3 DEF Slots, ReqSlot
  <2>3. Cargo(w2, r2, n) = ReqCargo(r2[c], Len(r[c]) + 1)
    BY DEF Cargo, ReqSlot
  <2> QED BY <2>1, <2>2, <2>3
<1> HIDE DEF n
<1>8. Moved(w, r, as, w2, r2, as, g, {}, n)
  BY <1>2, <1>5, <1>6, <1>7 DEF Moved
<1> QED BY <1>8, BlocksMove

\* What is within two settled sets is settled.
LEMMA SettledWithin ==
  ASSUME NEW w, NEW r, NEW as, NEW R, NEW T, Settled(w, r, as, R),
         Settled(w, r, as, T), NEW U, U \subseteq R \cup T
  PROVE  Settled(w, r, as, U)
BY DEF Settled

-----------------------------------------------------------------------------
(* A block reaches the buffer. *)

\* Pieces start at different places of the file.
LEMMA OffsetOfPiece ==
  ASSUME NEW i \in Pieces, NEW j \in Pieces, i * PieceLength = j * PieceLength
  PROVE  i = j
<1> DEFINE P == PieceLength
<1>1. P \in Nat \ {0} /\ i \in Nat /\ j \in Nat
  BY TorrentConstants DEF Pieces
<1>2. ASSUME NEW a \in Nat, NEW b \in Nat, a < b
      PROVE  a * P # b * P
  <2>1. b * P = a * P + (b - a - 1) * P + P
    BY <1>1, <1>2
  <2>2. a * P \in Nat /\ (b - a - 1) * P \in Nat
    BY <1>1, <1>2
  <2> HIDE DEF P
  <2> QED BY <1>1, <2>1, <2>2
<1>3. i * P = j * P
  OBVIOUS
<1> HIDE DEF P
<1> QED BY <1>1, <1>2, <1>3

\* Bytes that are new are counted once.
LEMMA CountNew ==
  ASSUME NEW n \in Nat, NEW S, S \subseteq 1 .. n, NEW off \in Nat, NEW len \in Nat,
         S \cap (off + 1 .. off + len) = {}
  PROVE  /\ IsFiniteSet(S) /\ Cardinality(S) \in Nat
         /\ Cardinality(S \cup (off + 1 .. off + len)) = Cardinality(S) + len
<1> DEFINE T == off + 1 .. off + len
<1>1. IsFiniteSet(S) /\ Cardinality(S) \in Nat
  <2>1. IsFiniteSet(1 .. n) /\ S \in SUBSET (1 .. n)
    BY FS_Interval
  <2>2. IsFiniteSet(S)
    BY <2>1, FS_Subset
  <2> QED BY <2>2, FS_CardinalityType
<1>2. IsFiniteSet(T) /\ Cardinality(T) = len
  BY FS_Interval
<1>3. Cardinality(S \cap T) = 0
  BY FS_EmptySet
<1> HIDE DEF T
<1>4. Cardinality(S \cup T) = Cardinality(S) + Cardinality(T) - Cardinality(S \cap T)
  BY <1>1, <1>2, FS_Union
<1> QED BY <1>1, <1>2, <1>3, <1>4 DEF T

\* A piece of which as many bytes have been counted as it has is all there.
LEMMA CountedAll ==
  ASSUME NEW n \in Nat, NEW S, S \subseteq 1 .. n, Cardinality(S) = n
  PROVE  S = 1 .. n
<1>1. IsFiniteSet(1 .. n) /\ Cardinality(1 .. n) = n
  BY FS_Interval
<1>2. S \in SUBSET (1 .. n)
  OBVIOUS
<1> QED BY <1>1, <1>2, FS_Subset

\* A cell of a queued piece, or of the buffer, has landed.
LEMMA LandedCell ==
  ASSUME NEW j, NEW p
  PROVE  <<j, p>> \in LandedCells
           <=> \/ current_piece_index # NoPiece /\ j = current_piece_index /\ p \in fill
               \/ j \in Pieces /\ Queued(j) /\ p \in 1 .. PieceLen(j)
<1>1. <<j, p>> \in (IF current_piece_index = NoPiece THEN {}
                    ELSE At(current_piece_index, fill))
        <=> current_piece_index # NoPiece /\ j = current_piece_index /\ p \in fill
  BY AtCell
<1> DEFINE Q == {k \in Pieces : Queued(k)}
<1>2. <<j, p>> \in UNION {At(k, 1 .. PieceLen(k)) : k \in Q}
        <=> \E k \in Q : <<j, p>> \in At(k, 1 .. PieceLen(k))
  OBVIOUS
<1>3. \A k \in Q : <<j, p>> \in At(k, 1 .. PieceLen(k))
                     <=> j = k /\ p \in 1 .. PieceLen(k)
  BY AtCell
<1>4. j \in Q <=> j \in Pieces /\ Queued(j)
  OBVIOUS
<1>5. LandedCells = (IF current_piece_index = NoPiece THEN {}
                     ELSE At(current_piece_index, fill))
                    \cup UNION {At(k, 1 .. PieceLen(k)) : k \in Q}
  BY DEF LandedCells
<1> HIDE DEF Q
<1> QED BY <1>1, <1>2, <1>3, <1>4, <1>5

\* Landed cells are positions in pieces.
LEMMA LandedPair ==
  ASSUME NEW x \in LandedCells
  PROVE  \E j, p : x = <<j, p>>
<1>1. CASE x \in UNION {At(i, 1 .. PieceLen(i)) : i \in {j \in Pieces : Queued(j)}}
  BY <1>1 DEF At
<1>2. CASE x \in (IF current_piece_index = NoPiece THEN {}
                  ELSE At(current_piece_index, fill))
  BY <1>2 DEF At
<1> QED BY <1>1, <1>2 DEF LandedCells

\* A block none of whose bytes has landed is counted in full, and may complete
\* its piece, which was not given to the writer before.
LEMMA BlockLands ==
  ASSUME DownloaderInv, BufferInv, WrittenOnce, NEW i \in Pieces, NEW off \in Nat,
         NEW data \in Seq(Byte), off + Len(data) <= PieceLen(i), Len(data) > 0,
         Cells(i, off, Len(data)) \cap LandedCells = {},
         OnBlockReceived(i, off, data)
  PROVE  /\ BufferInv' /\ WrittenOnce'
         /\ LandedCells' \subseteq LandedCells \cup Cells(i, off, Len(data))
<1> DEFINE fresh == i # current_piece_index
           zeros == [k \in 1 .. PieceLen(i) |-> 0]
           buf0 == IF fresh THEN zeros ELSE piece_buffer
           rec0 == IF fresh THEN 0 ELSE piece_bytes_received
           fits == off + Len(data) <= Len(buf0)
           buf1 == IF fits THEN Overwrite(buf0, off, data) ELSE buf0
           rec1 == rec0 + IF fits THEN Len(data) ELSE 0
           verified == rec1 = Len(buf1) /\ Sha1Calculate(buf1) = PieceHash(i)
           job == [b |-> buf1, offset |-> i * PieceLength]
           fill0 == IF fresh THEN {} ELSE fill
           n == PieceLen(i)
           len == Len(data)
           P == Positions(off, data)
<1>1. /\ n \in Nat \ {0} /\ len \in Nat \ {0} /\ off + len <= n
      /\ 0 \in Byte /\ i # NoPiece
  BY PieceLenType, TorrentConstants DEF Pieces, NoPiece
<1>2. /\ piece_buffer \in Seq(Byte) /\ jobs \in Seq(VerifiedJob)
      /\ piece_bytes_received = Cardinality(fill)
      /\ current_piece_index \in Pieces \cup {NoPiece}
  BY DEF DownloaderInv, DownloaderTypes, BufferInv, CountsDistinctBytes
<1>3. /\ current_piece_index' = i /\ piece_bytes_received' = rec1
      /\ fill' = fill0 \cup IF fits THEN P ELSE {}
      /\ \/ /\ verified /\ jobs' = Append(jobs, job) /\ piece_buffer' = MovedFrom
         \/ /\ ~verified /\ piece_buffer' = buf1 /\ UNCHANGED jobs
  BY DEF OnBlockReceived
<1>4. \A p \in P : <<i, p>> \notin LandedCells
  <2>1. \A p \in P : <<i, p>> \in Cells(i, off, Len(data))
    BY AtCell DEF Cells, Positions
  <2> QED BY <2>1
<1>5. off + 1 \in P /\ P = off + 1 .. off + len /\ P \subseteq 1 .. n
  BY <1>1 DEF Positions
<1>6. ~Queued(i)
  BY <1>4, <1>5, LandedCell
<1>7. fill0 \subseteq 1 .. n /\ fill0 \cap P = {} /\ rec0 = Cardinality(fill0)
      /\ buf0 \in Seq(Byte) /\ Len(buf0) = n
  <2>1. CASE fresh
    <3>1. zeros \in Seq(Byte) /\ Len(zeros) = n
      <4>1. zeros \in [1 .. n -> Byte]
        BY <1>1
      <4> HIDE DEF zeros
      <4> QED BY <1>1, <4>1
    <3> HIDE DEF zeros, n, P
    <3> QED BY <2>1, <3>1, FS_EmptySet
  <2>2. CASE ~fresh
    <3>1. current_piece_index = i
      BY <2>2
    <3>2. /\ fill \subseteq 1 .. n /\ Len(piece_buffer) \in {0, n}
          /\ Len(piece_buffer) = 0 => fill = 1 .. n
      BY <1>1, <3>1 DEF BufferInv
    <3>3. \A p \in P : p \notin fill
      BY <1>1, <1>4, <3>1, LandedCell
    <3>4. Len(piece_buffer) = n
      BY <1>5, <3>2, <3>3
    <3> HIDE DEF n, P
    <3> QED BY <1>2, <2>2, <3>2, <3>3, <3>4
  <2> QED BY <2>1, <2>2
<1> HIDE DEF fresh, zeros, buf0, rec0, fill0
<1>8. fits /\ buf1 = Overwrite(buf0, off, data) /\ rec1 = rec0 + len
  BY <1>1, <1>7
<1>9. Len(buf1) = n
  BY <1>7, <1>8, OverwriteType
<1> HIDE DEF fits, buf1, job, n, len
<1>10. /\ fill' = fill0 \cup P /\ fill' \subseteq 1 .. n
       /\ piece_bytes_received' = Cardinality(fill')
  <2>1. fill' = fill0 \cup P /\ fill' \subseteq 1 .. n
    BY <1>3, <1>5, <1>7, <1>8
  <2>2. Cardinality(fill0 \cup P) = Cardinality(fill0) + len
    <3>1. fill0 \cap (off + 1 .. off + len) = {} /\ n \in Nat /\ len \in Nat
      BY <1>1, <1>5, <1>7
    <3>2. Cardinality(fill0 \cup (off + 1 .. off + len)) = Cardinality(fill0) + len
      BY <1>7, <3>1, CountNew
    <3> QED BY <1>5, <3>2
  <2> QED BY <1>3, <1>7, <1>8, <2>1, <2>2
<1>11. verified => fill' = 1 .. n
  BY <1>1, <1>3, <1>9, <1>10, CountedAll
<1> HIDE DEF verified, P
<1>12. BufferInv'
  <2>1. Len(piece_buffer') \in {0, n} /\ (Len(piece_buffer') = 0 => fill' = 1 .. n)
    <3>1. CASE verified /\ piece_buffer' = MovedFrom
      BY <1>11, <3>1 DEF MovedFrom
    <3>2. CASE piece_buffer' = buf1
      BY <1>1, <1>9, <3>2
    <3> QED BY <1>3, <3>1, <3>2
  <2>2. CountsDistinctBytes'
    BY <1>10 DEF CountsDistinctBytes
  <2> QED BY <1>1, <1>3, <1>10, <2>1, <2>2 DEF BufferInv, PieceLen, n, NoPiece
<1>13. WrittenOnce'
  <2>1. CASE UNCHANGED jobs
    BY <2>1 DEF WrittenOnce
  <2>2. CASE jobs' = Append(jobs, job)
    <3>1. \A k \in DOMAIN jobs : jobs[k].offset # i * PieceLength
      BY <1>6 DEF Queued
    <3>2. /\ DOMAIN jobs' = 1 .. Len(jobs) + 1 /\ DOMAIN jobs = 1 .. Len(jobs)
          /\ \A k \in DOMAIN jobs : jobs'[k] = jobs[k]
          /\ jobs'[Len(jobs) + 1] = job /\ Len(jobs) \in Nat
      BY <1>2, <2>2
    <3>3. job.offset = i * PieceLength
      BY DEF job
    <3> QED BY <3>1, <3>2, <3>3 DEF WrittenOnce
  <2> QED BY <1>3, <2>1, <2>2
<1>14. ASSUME NEW j \in Pieces, Queued(j)'
       PROVE  Queued(j) \/ (verified /\ j = i)
  <2>1. CASE UNCHANGED jobs
    <3>1. \E k \in DOMAIN jobs' : jobs'[k].offset = j * PieceLength
      BY <1>14 DEF Queued
    <3>2. \E k \in DOMAIN jobs : jobs[k].offset = j * PieceLength
      BY <2>1, <3>1
    <3>3. Queued(j)
      BY <3>2, Zenon DEF Queued
    <3> QED BY <3>3
  <2>2. CASE verified /\ jobs' = Append(jobs, job)
    <3>1. PICK k \in DOMAIN jobs' : jobs'[k].offset = j * PieceLength
      BY <1>14 DEF Queued
    <3>2. CASE k \in DOMAIN jobs
      <4>1. jobs'[k] = jobs[k]
        BY <1>2, <2>2, <3>2
      <4>2. jobs[k].offset = j * PieceLength
        BY <3>1, <4>1
      <4>3. Queued(j)
        BY <3>2, <4>2, Zenon DEF Queued
      <4> QED BY <4>3
    <3>3. CASE k \notin DOMAIN jobs
      <4>1. jobs'[k] = job
        BY <1>2, <2>2, <3>1, <3>3
      <4>2. i * PieceLength = j * PieceLength
        BY <3>1, <4>1 DEF job
      <4> QED BY <2>2, <4>2, OffsetOfPiece
    <3> QED BY <3>2, <3>3
  <2> QED BY <1>3, <2>1, <2>2
<1>15. \A p \in fill' : <<i, p>> \in LandedCells \cup Cells(i, off, Len(data))
  <2> SUFFICES ASSUME NEW p \in fill'
               PROVE  <<i, p>> \in LandedCells \cup Cells(i, off, Len(data))
    OBVIOUS
  <2>1. CASE p \in fill0
    <3>1. i = current_piece_index /\ p \in fill
      BY <2>1 DEF fill0, fresh
    <3> QED BY <1>1, <3>1, LandedCell
  <2>2. CASE p \in P
    BY <2>2, AtCell DEF Cells, Positions, P
  <2> QED BY <1>10, <2>1, <2>2
<1>16. ASSUME NEW x \in LandedCells'
       PROVE  x \in LandedCells \cup Cells(i, off, Len(data))
  <2>1. CASE x \in At(i, fill')
    BY <1>15, <2>1 DEF At
  <2>2. CASE \E j \in Pieces : Queued(j)' /\ x \in At(j, 1 .. PieceLen(j))
    <3>1. PICK j \in Pieces : Queued(j)' /\ x \in At(j, 1 .. PieceLen(j))
      BY <2>2
    <3>2. PICK p \in 1 .. PieceLen(j) : x = <<j, p>>
      BY <3>1 DEF At
    <3>3. CASE Queued(j)
      BY <3>2, <3>3, LandedCell
    <3>4. CASE verified /\ j = i
      <4>1. p \in fill'
        BY <1>11, <3>2, <3>4 DEF n
      <4> QED BY <1>15, <3>2, <3>4, <4>1
    <3> QED BY <1>14, <3>1, <3>3, <3>4
  <2>3. x \in At(i, fill') \/ \E j \in Pieces : Queued(j)' /\ x \in At(j, 1 .. PieceLen(j))
    BY <1>1, <1>3 DEF LandedCells, Pieces, PieceLen, At, NoPiece
  <2> QED BY <2>1, <2>2, <2>3
<1> QED BY <1>12, <1>13, <1>16

-----------------------------------------------------------------------------
(* The steps of the network thread and of the peers. *)

\* c asks for the cells N at most, in the next request of its peer, and they
\* are new.
NewRequest(c, N) ==
  /\ N \cap AskedCells(asked) = {}
  /\ AskedCells(asked) \cup N \subseteq AskedCells(asked')
  /\ \A d \in Conns : d # c => reqs'[d] = reqs[d]
  /\ \A k \in DOMAIN reqs'[c] :
       \/ k # Len(reqs[c]) + 1 /\ k \in DOMAIN reqs[c] /\ reqs'[c][k] = reqs[c][k]
       \/ /\ k = Len(reqs[c]) + 1 /\ RequestCells(reqs'[c][k]) \subseteq N
          /\ reqs'[c][k].len > 0

LEMMA NoNewRequest ==
  ASSUME NEW c \in Conns, reqs \in [Conns -> Seq(PeerRequest)],
         UNCHANGED <<reqs, asked>>
  PROVE  NewRequest(c, {})
BY DEF NewRequest

\* What is sent starts where the last request for its piece ended.
LEMMA SendIsNew ==
  ASSUME RequestInv, ReqsTyped, NEW c \in Conns, NEW i \in Pieces, NEW off \in Nat,
         off = EndOf(asked[i]), off < PieceLen(i), SendRequest(c, i, off)
  PROVE  \E N : NewRequest(c, N)
<1> DEFINE len == RequestLen(i, off)
           q == [conn |-> c, begin |-> off, len |-> len]
           p == [index |-> i, begin |-> off, len |-> len]
           N == Cells(i, off, len)
<1>1. reqs \in [Conns -> Seq(PeerRequest)] /\ asked \in [Pieces -> Seq(Request)]
  BY DEF ReqsTyped, RequestInv, RequestTypes
<1>2. CASE UNCHANGED <<reqs, asked>>
  BY <1>1, <1>2, NoNewRequest
<1>3. CASE /\ reqs' = [reqs EXCEPT ![c] = Append(@, p)]
           /\ asked' = [asked EXCEPT ![i] = Append(@, q)]
  <2>1. len \in Nat /\ len > 0
    BY PieceLenType, TorrentConstants DEF RequestLen
  <2> HIDE DEF len
  <2>2. q \in Request
    BY <2>1 DEF Request
  <2>3. q.begin = off /\ q.len = len /\ p.len = len /\ RequestCells(p) = N
    BY DEF RequestCells
  <2> HIDE DEF q, p
  <2>4. /\ N \cap AskedCells(asked) = {}
        /\ AskedCells(asked) \cup N \subseteq AskedCells(asked')
    BY <1>1, <1>3, <2>2, <2>3, NewBlock
  <2> HIDE DEF N
  <2>5. /\ reqs'[c] = Append(reqs[c], p) /\ reqs[c] \in Seq(PeerRequest)
        /\ \A d \in Conns : d # c => reqs'[d] = reqs[d]
    BY <1>1, <1>3
  <2>6. /\ DOMAIN reqs'[c] = 1 .. Len(reqs[c]) + 1 /\ Len(reqs[c]) \in Nat
        /\ DOMAIN reqs[c] = 1 .. Len(reqs[c])
        /\ \A k \in 1 .. Len(reqs[c]) : reqs'[c][k] = reqs[c][k]
        /\ reqs'[c][Len(reqs[c]) + 1] = p
    BY <2>5
  <2>7. NewRequest(c, N)
    BY <2>1, <2>3, <2>4, <2>5, <2>6 DEF NewRequest
  <2> QED BY <2>7
<1> QED BY <1>2, <1>3 DEF SendRequest, SendThrows, SendKills

LEMMA RequestNextIsNew ==
  ASSUME RequestInv, ReqsTyped, NEW c \in Conns, NEW ch, RequestNextBlock(c, ch)
  PROVE  \E N : NewRequest(c, N)
<1>1. CASE NothingRequested
  BY <1>1, NoNewRequest DEF NothingRequested, ReqsTyped
<1>2. CASE /\ current_piece[c] # NoPiece
           /\ SendRequest(c, current_piece[c], block_offset[c])
  <2>1. current_piece[c] \in Pieces /\ block_offset[c] \in Nat
    BY <1>2, TorrentConstants DEF RequestInv, RequestTypes
  <2>2. /\ block_offset[c] < PieceLen(current_piece[c])
        /\ block_offset[c] = EndOf(asked[current_piece[c]])
    BY <1>2 DEF RequestInv, Claimed
  <2> QED BY <1>2, <2>1, <2>2, SendIsNew
<1>3. ASSUME NEW i \in FirstCandidate(c), SendRequest(c, i, 0)
      PROVE  \E N : NewRequest(c, N)
  <2>1. i \in Pieces /\ i >= next_req_index
    BY DEF FirstCandidate, Candidates, RequestInv, RequestTypes
  <2>2. 0 < PieceLen(i)
    BY <2>1, PieceLenType, TorrentConstants
  <2>3. EndOf(asked[i]) = 0
    BY <2>1 DEF RequestInv, Unclaimed, EndOf
  <2> QED BY <1>3, <2>1, <2>2, <2>3, SendIsNew
<1> QED BY <1>1, <1>2, <1>3 DEF RequestNextBlock

\* Processing a message asks for what was not asked for before.
LEMMA ProcessIsNew ==
  ASSUME RequestInv, ReqsTyped, NEW c \in Conns, ProcessMessage(c)
  PROVE  \E N : NewRequest(c, N)
<1> DEFINE m == Head(wire[c])
<1>1. CASE UNCHANGED <<reqs, asked>>
  BY <1>1, NoNewRequest DEF ReqsTyped
<1>2. CASE ProcessHandshake(c) \/ ProcessChoke(c) \/ ProcessBitfield(c, m)
           \/ ProcessOther(c)
  BY <1>1, <1>2 DEF ProcessHandshake, SendThrows, SendKills, ProcessChoke,
                    ProcessBitfield, ProcessOther, NothingRequested
<1>3. CASE ProcessUnchoke(c) \/ ProcessPiece(c, m)
  BY <1>3, RequestNextIsNew DEF ProcessUnchoke, ProcessPiece
<1> QED BY <1>2, <1>3 DEF ProcessMessage

\* Processing a message moves the blocks as BlocksTake says.
LEMMA ProcessTakes ==
  ASSUME FarmInv, NEW c \in Conns, ProcessMessage(c)
  PROVE  \E N : Takes(wire, reqs, asked, wire', reqs', asked', c, N,
                      Len(reqs[c]) + 1)
<1>1. RequestInv /\ ReqsTyped /\ wire \in [Conns -> Seq(Message)]
  BY DEF FarmInv, WireInv, PeerTypes, ReqsTyped
<1>2. PICK N : NewRequest(c, N)
  BY <1>1, ProcessIsNew
<1>3. wire[c] \in Seq(Message) /\ 1 \in DOMAIN wire[c]
  <2>1. reading = c /\ left \in 1 .. Len(wire[c])
    BY ConnsConstant DEF FarmInv, WireInv, ReadInv, ProcessMessage, NoConn
  <2> QED BY <1>1, <2>1
<1>4. /\ \A d \in Conns : d # c => wire'[d] = wire[d]
      /\ wire'[c] = Tail(wire[c]) \/ wire'[c] = <<>>
  BY <1>1 DEF ProcessMessage, TakeMessage
<1>5. \A k \in DOMAIN wire'[c] : /\ k \in Nat \ {0} /\ k + 1 \in DOMAIN wire[c]
                                 /\ wire'[c][k] = wire[c][k + 1]
  <2>1. CASE wire'[c] = <<>>
    BY <2>1
  <2>2. CASE wire'[c] = Tail(wire[c])
    <3> DEFINE q == wire[c]
    <3>1. q \in Seq(Message) /\ Len(q) \in Nat \ {0} /\ DOMAIN q = 1 .. Len(q)
      BY <1>3
    <3> HIDE DEF q
    <3>2. /\ DOMAIN Tail(q) = 1 .. Len(q) - 1
          /\ \A k \in 1 .. Len(q) - 1 : Tail(q)[k] = q[k + 1]
      BY <3>1
    <3>3. \A k \in DOMAIN Tail(q) :
            k \in Nat \ {0} /\ k + 1 \in DOMAIN q /\ Tail(q)[k] = q[k + 1]
      BY <3>1, <3>2
    <3> QED BY <2>2, <3>3 DEF q
  <2> QED BY <1>4, <2>1, <2>2
<1>6. Len(reqs[c]) + 1 \in Nat \ {0}
  BY <1>1 DEF ReqsTyped
<1>7. Takes(wire, reqs, asked, wire', reqs', asked', c, N, Len(reqs[c]) + 1)
  BY <1>2, <1>3, <1>4, <1>5, <1>6 DEF Takes, NewRequest
<1> QED BY <1>7

\* Processing a message keeps the blocks apart and counts the one it takes.
LEMMA ProcessKeepsFlight ==
  ASSUME FarmInv, FlightInv, NEW c \in Conns, ProcessMessage(c)
  PROVE  FlightInv'
<1> DEFINE m == Head(wire[c])
           M == MessageCells(m)
           L == LandedCells
<1>1. /\ Blocks(wire, reqs, asked) /\ Settled(wire, reqs, asked, L)
      /\ BufferInv /\ WrittenOnce
  BY DEF FlightInv
<1>2. PICK N, next : Takes(wire, reqs, asked, wire', reqs', asked', c, N, next)
  BY ProcessTakes
<1>3. /\ wire[c] \in Seq(Message) /\ 1 \in DOMAIN wire[c] /\ m = wire[c][1]
      /\ m \in Message
  <2>1. reading = c /\ left \in 1 .. Len(wire[c]) /\ wire[c] \in Seq(Message)
    BY ConnsConstant
    DEF FarmInv, WireInv, ReadInv, PeerTypes, ProcessMessage, NoConn
  <2> QED BY <2>1
<1> HIDE DEF m, L
<1>4. /\ Blocks(wire', reqs', asked')
      /\ Settled(wire', reqs', asked', L) /\ Settled(wire', reqs', asked', M)
  <2>1. /\ Blocks(wire', reqs', asked')
        /\ \A R : Settled(wire, reqs, asked, R) => Settled(wire', reqs', asked', R)
        /\ Settled(wire', reqs', asked', MessageCells(wire[c][1]))
    BY <1>1, <1>2, BlocksTake, Zenon
  <2> QED BY <1>1, <1>3, <2>1
<1>5. M \cap L = {}
  <2>1. WireSlot(c, 1) \in Slots
    BY DEF Slots, WireSlot
  <2>2. Cargo(wire, reqs, WireSlot(c, 1)) = M
    BY <1>3 DEF Cargo, WireSlot, WireCargo
  <2> QED BY <1>1, <2>1, <2>2 DEF Settled
<1>6. m.type = "piece" => Len(m.data) > 0
  BY <1>1, <1>3 DEF Blocks
<1>7. BufferInv' /\ WrittenOnce' /\ LandedCells' \subseteq L \cup M
  <2>1. CASE UNCHANGED dlVars
    <3>1. BufferInv' /\ WrittenOnce'
      BY <1>1, <2>1 DEF dlVars, BufferInv, CountsDistinctBytes, WrittenOnce,
                        PieceLen, NoPiece
    <3>2. LandedCells' = L
      BY <2>1 DEF dlVars, L, LandedCells, Queued, Pieces, PieceLen, At, NoPiece
    <3> QED BY <3>1, <3>2
  <2>2. CASE m.type = "piece" /\ OnBlockReceived(m.index, m.begin, m.data)
    <3>1. m \in PieceMsg
      BY <1>3, <2>2 DEF Message
    <3>2. /\ m.index \in Pieces /\ m.begin \in Nat /\ m.data \in Seq(Byte)
          /\ m.begin + Len(m.data) <= PieceLen(m.index)
      BY <3>1 DEF PieceMsg
    <3>3. M = Cells(m.index, m.begin, Len(m.data))
      BY <2>2 DEF MessageCells
    <3>4. DownloaderInv
      BY DEF FarmInv
    <3>5. Cells(m.index, m.begin, Len(m.data)) \cap LandedCells = {}
      BY <1>5, <3>3 DEF L
    <3>6. /\ BufferInv' /\ WrittenOnce'
          /\ LandedCells' \subseteq
               LandedCells \cup Cells(m.index, m.begin, Len(m.data))
      BY <1>1, <1>6, <2>2, <3>2, <3>4, <3>5, BlockLands
    <3> QED BY <3>3, <3>6 DEF L
  <2>3. \/ UNCHANGED dlVars
        \/ m.type = "piece" /\ OnBlockReceived(m.index, m.begin, m.data)
    BY DEF m, ProcessMessage, ProcessHandshake, ProcessUnchoke, ProcessChoke,
           ProcessBitfield, ProcessPiece, ProcessOther
  <2> QED BY <2>1, <2>2, <2>3
<1>8. Settled(wire', reqs', asked', LandedCells')
  BY <1>4, <1>7, SettledWithin
<1> QED BY <1>4, <1>7, <1>8 DEF FlightInv

\* After a step no two blocks overlap, and what was settled still is.
Apart ==
  /\ Blocks(wire', reqs', asked')
  /\ \A R : Settled(wire, reqs, asked, R) => Settled(wire', reqs', asked', R)

\* A step that only takes messages or requests away, or adds messages without
\* a block.
LEMMA ShrinkMoves ==
  ASSUME Blocks(wire, reqs, asked), Shrinks(wire, reqs, wire', reqs'),
         UNCHANGED asked
  PROVE  Apart
<1>1. /\ Blocks(wire', reqs', asked)
      /\ \A R : Settled(wire, reqs, asked, R) => Settled(wire', reqs', asked, R)
  BY BlocksShrink, Zenon
<1> QED BY <1>1 DEF Apart

\* The step of a peer that sends no block.
LEMMA SendsNoBlock ==
  ASSUME wire \in [Conns -> Seq(Message)], NEW c \in Conns, NEW ms \in Seq(Message),
         \A k \in DOMAIN ms : ms[k].type # "piece", PeerSends(c, ms),
         UNCHANGED reqs
  PROVE  Shrinks(wire, reqs, wire', reqs')
<1>1. /\ wire'[c] = wire[c] \o ms /\ wire[c] \in Seq(Message)
      /\ \A d \in Conns : d # c => wire'[d] = wire[d]
  BY DEF PeerSends
<1> DEFINE q == wire[c]
<1>2. q \in Seq(Message)
  BY <1>1
<1> HIDE DEF q
<1>3. \A k \in DOMAIN (q \o ms) : \/ k \in DOMAIN q /\ (q \o ms)[k] = q[k]
                                  \/ (q \o ms)[k].type # "piece"
  <2> SUFFICES ASSUME NEW k \in DOMAIN (q \o ms)
               PROVE  \/ k \in DOMAIN q /\ (q \o ms)[k] = q[k]
                      \/ (q \o ms)[k].type # "piece"
    OBVIOUS
  <2>1. k \in 1 .. Len(q) + Len(ms) /\ Len(q) \in Nat /\ Len(ms) \in Nat
    BY <1>2
  <2>2. CASE k <= Len(q)
    BY <1>2, <2>1, <2>2
  <2>3. CASE k > Len(q)
    <3>1. (q \o ms)[k] = ms[k - Len(q)] /\ k - Len(q) \in DOMAIN ms
      BY <1>2, <2>1, <2>3
    <3> QED BY <3>1
  <2> QED BY <2>1, <2>2, <2>3
<1>4. \A d \in Conns : \A k \in DOMAIN wire'[d] :
        \/ k \in DOMAIN wire[d] /\ wire'[d][k] = wire[d][k]
        \/ wire'[d][k].type # "piece"
  BY <1>1, <1>3 DEF q
<1> QED BY <1>4 DEF Shrinks

\* A peer that serves a request puts a block of its cells in its place.
LEMMA ServeServes ==
  ASSUME FarmInv, FlightInv, NEW c \in Conns, PeerServe(c)
  PROVE  \E j : Serves(wire, reqs, wire', reqs', c, j)
<1>1. wire \in [Conns -> Seq(Message)] /\ reqs \in [Conns -> Seq(PeerRequest)]
  BY DEF FarmInv, WireInv, PeerTypes
<1>2. PICK j \in 1 .. Len(reqs[c]) :
        LET r == reqs[c][j]
            good == Slice(r.index * PieceLength + r.begin, r.len)
        IN
        /\ reqs' = [reqs EXCEPT ![c] =
                      SubSeq(@, 1, j - 1) \o SubSeq(@, j + 1, Len(@))]
        /\ \E data \in {good} \cup
                       IF c \in Corrupters THEN [1 .. r.len -> Byte] ELSE {} :
             PeerSends(c, <<[type |-> "piece", index |-> r.index,
                             begin |-> r.begin, data |-> data]>>)
  BY DEF PeerServe
<1> DEFINE r == reqs[c][j]
           good == Slice(r.index * PieceLength + r.begin, r.len)
           rest == SubSeq(reqs[c], 1, j - 1) \o SubSeq(reqs[c], j + 1, Len(reqs[c]))
<1>3. PICK data \in {good} \cup
                    IF c \in Corrupters THEN [1 .. r.len -> Byte] ELSE {} :
        PeerSends(c, <<[type |-> "piece", index |-> r.index,
                        begin |-> r.begin, data |-> data]>>)
  BY <1>2
<1>4. reqs[c] \in Seq(PeerRequest) /\ r \in PeerRequest /\ j \in DOMAIN reqs[c]
  BY <1>1
<1>5. /\ r.index \in Pieces /\ r.begin \in Nat /\ r.len \in Nat
      /\ r.begin + r.len <= PieceLen(r.index)
  BY <1>4 DEF PeerRequest
<1>6. r.len > 0
  BY <1>4 DEF FlightInv, Blocks
<1> HIDE DEF r
<1>7. Len(data) = r.len
  <2>1. CASE data = good
    BY <1>5, <2>1, SliceType
  <2>2. CASE data \in [1 .. r.len -> Byte]
    BY <1>5, <2>2
  <2> QED BY <1>3, <2>1, <2>2
<1> DEFINE msg == [type |-> "piece", index |-> r.index, begin |-> r.begin,
                   data |-> data]
<1>8. MessageCells(msg) = RequestCells(r) /\ Len(msg.data) > 0
  BY <1>6, <1>7 DEF MessageCells, RequestCells
<1> HIDE DEF msg
<1>9. /\ wire'[c] = wire[c] \o <<msg>> /\ wire[c] \in Seq(Message)
      /\ reqs'[c] = rest
      /\ \A d \in Conns : d # c => wire'[d] = wire[d] /\ reqs'[d] = reqs[d]
  BY <1>1, <1>2, <1>3 DEF PeerSends, msg
<1>10. \A k \in DOMAIN wire'[c] :
         \/ k # Len(wire[c]) + 1 /\ k \in DOMAIN wire[c] /\ wire'[c][k] = wire[c][k]
         \/ k = Len(wire[c]) + 1 /\ wire'[c][k] = msg
  <2> DEFINE q == wire[c]
  <2>1. q \in Seq(Message) /\ Len(q) \in Nat
    BY <1>9
  <2> HIDE DEF q
  <2>2. DOMAIN (q \o <<msg>>) = 1 .. Len(q) + 1
    BY <2>1
  <2>3. ASSUME NEW k \in 1 .. Len(q) + 1
        PROVE  \/ k # Len(q) + 1 /\ k \in DOMAIN q /\ (q \o <<msg>>)[k] = q[k]
               \/ k = Len(q) + 1 /\ (q \o <<msg>>)[k] = msg
    BY <2>1
  <2> QED BY <1>9, <2>2, <2>3 DEF q
<1>11. \A k \in DOMAIN reqs'[c] :
         \/ k < j /\ k \in DOMAIN reqs[c] /\ reqs'[c][k] = reqs[c][k]
         \/ k >= j /\ k + 1 \in DOMAIN reqs[c] /\ reqs'[c][k] = reqs[c][k + 1]
  <2> DEFINE q == reqs[c]
             a == SubSeq(q, 1, j - 1)
             b == SubSeq(q, j + 1, Len(q))
  <2>1. q \in Seq(PeerRequest) /\ Len(q) \in Nat /\ j \in 1 .. Len(q)
    BY <1>4
  <2>2. rest = a \o b
    OBVIOUS
  <2> HIDE DEF q
  <2>3. /\ a \in Seq(PeerRequest) /\ Len(a) = j - 1
        /\ \A k \in 1 .. j - 1 : a[k] = q[k]
    BY <2>1
  <2>4. /\ b \in Seq(PeerRequest) /\ Len(b) = Len(q) - j
        /\ \A k \in 1 .. Len(q) - j : b[k] = q[j + k]
    BY <2>1
  <2> HIDE DEF a, b
  <2>5. DOMAIN (a \o b) = 1 .. Len(q) - 1
    BY <2>1, <2>3, <2>4
  <2>6. ASSUME NEW k \in 1 .. Len(q) - 1
        PROVE  \/ k < j /\ k \in 1 .. Len(q) /\ (a \o b)[k] = q[k]
               \/ k >= j /\ k + 1 \in 1 .. Len(q) /\ (a \o b)[k] = q[k + 1]
    <3>1. CASE k < j
      BY <2>1, <2>3, <2>4, <3>1
    <3>2. CASE k >= j
      <4>1. k > Len(a) /\ k - Len(a) \in 1 .. Len(q) - j /\ j + (k - Len(a)) = k + 1
        BY <2>1, <2>3, <3>2
      <4>2. (a \o b)[k] = b[k - Len(a)]
        BY <2>1, <2>3, <2>4, <4>1
      <4>3. b[k - Len(a)] = q[k + 1]
        BY <2>4, <4>1
      <4>4. k + 1 \in 1 .. Len(q)
        BY <2>1
      <4> QED BY <3>2, <4>2, <4>3, <4>4
    <3>3. k < j \/ k >= j
      <4>1. k \in Nat /\ j \in Nat
        BY <2>1
      <4> QED BY <4>1
    <3> QED BY <3>1, <3>2, <3>3
  <2>7. DOMAIN q = 1 .. Len(q)
    BY <2>1
  <2> QED BY <1>9, <2>2, <2>5, <2>6, <2>7 DEF q
<1>12. Serves(wire, reqs, wire', reqs', c, j)
  BY <1>4, <1>8, <1>9, <1>10, <1>11 DEF Serves, r
<1> QED BY <1>12

\* Every step keeps the blocks apart.
LEMMA MoveStep ==
  ASSUME FarmInv, FlightInv, [Next]_vars
  PROVE  Apart
<1>1. /\ wire \in [Conns -> Seq(Message)] /\ reqs \in [Conns -> Seq(PeerRequest)]
      /\ Blocks(wire, reqs, asked)
  BY DEF FarmInv, WireInv, PeerTypes, FlightInv
<1>2. ASSUME \A c \in Conns : wire'[c] \in {wire[c], <<>>},
             \A c \in Conns : reqs'[c] \in {reqs[c], <<>>},
             UNCHANGED asked
      PROVE  Apart
  <2>1. Shrinks(wire, reqs, wire', reqs')
    BY <1>2 DEF Shrinks
  <2> QED BY <1>1, <1>2, <2>1, ShrinkMoves
<1>3. CASE UNCHANGED vars
  BY <1>2, <1>3 DEF vars, peerVars
<1>4. CASE EnterRun \/ Poll \/ RunReturns
  BY <1>1, <1>2, <1>4 DEF EnterRun, Poll, WaitReturns, RunReturns, peerVars
<1>5. ASSUME NEW c \in Conns, AddConnection(c) \/ HandleOut(c) \/ HandleIn(c)
      PROVE  Apart
  BY <1>1, <1>2, <1>5 DEF AddConnection, HandleOut, HandleIn, peerVars
<1>6. ASSUME NEW c \in Conns, ProcessMessage(c)
      PROVE  Apart
  <2>1. PICK N, next : Takes(wire, reqs, asked, wire', reqs', asked', c, N, next)
    BY <1>6, ProcessTakes
  <2>2. /\ Blocks(wire', reqs', asked')
        /\ \A R : Settled(wire, reqs, asked, R) => Settled(wire', reqs', asked', R)
    BY <1>1, <2>1, BlocksTake, Zenon
  <2> QED BY <2>2 DEF Apart
<1>7. ASSUME NEW c \in Conns, Peer(c)
      PROVE  Apart
  <2> USE DEF OnlyPeer
  <2>1. ASSUME NEW ms \in Seq(Message), \A k \in DOMAIN ms : ms[k].type # "piece",
               PeerSends(c, ms), UNCHANGED reqs, UNCHANGED asked
        PROVE  Apart
    <3>1. Shrinks(wire, reqs, wire', reqs')
      BY <1>1, <2>1, SendsNoBlock
    <3> QED BY <1>1, <2>1, <3>1, ShrinkMoves
  <2>2. CASE PeerGreet(c)
    <3> DEFINE h == [type |-> "handshake"]
               f == [type |-> "bitfield", pieces |-> PeerHas[c]]
               ms == <<h>> \o IF PeerHas[c] = {} THEN <<>> ELSE <<f>>
    <3>1. h \in Message /\ f \in Message /\ h.type # "piece" /\ f.type # "piece"
      BY PeerConstants DEF Message
    <3>2. PeerSends(c, ms) /\ UNCHANGED reqs /\ UNCHANGED asked
      BY <2>2 DEF PeerGreet
    <3> HIDE DEF h, f
    <3>3. ms \in Seq(Message) /\ \A k \in DOMAIN ms : ms[k].type # "piece"
      <4>1. CASE PeerHas[c] = {}
        BY <3>1, <4>1
      <4>2. CASE PeerHas[c] # {}
        BY <3>1, <4>2
      <4> QED BY <4>1, <4>2
    <3> HIDE DEF ms
    <3> QED BY <2>1, <3>2, <3>3
  <2>3. ASSUME NEW t \in {"unchoke", "choke", "have"},
               PeerSends(c, <<[type |-> t]>>), UNCHANGED reqs, UNCHANGED asked
        PROVE  Apart
    <3> DEFINE h == [type |-> t]
    <3>1. h \in Message /\ h.type # "piece" /\ PeerSends(c, <<h>>)
      BY <2>3 DEF Message
    <3> HIDE DEF h
    <3>2. <<h>> \in Seq(Message) /\ \A k \in DOMAIN <<h>> : <<h>>[k].type # "piece"
      BY <3>1
    <3> QED BY <2>1, <2>3, <3>1, <3>2
  <2>4. CASE PeerUnchoke(c) \/ PeerChoke(c) \/ PeerHave(c)
    BY <2>3, <2>4 DEF PeerUnchoke, PeerChoke, PeerHave
  <2>5. CASE PeerForgets(c) \/ PeerCloses(c)
    BY <1>1, <1>2, <2>5 DEF PeerForgets, PeerCloses
  <2>6. CASE PeerServe(c)
    <3>1. PICK j : Serves(wire, reqs, wire', reqs', c, j)
      BY <2>6, ServeServes
    <3>2. UNCHANGED asked
      BY <2>6 DEF PeerServe
    <3>3. /\ Blocks(wire', reqs', asked)
          /\ \A R : Settled(wire, reqs, asked, R) => Settled(wire', reqs', asked, R)
      BY <1>1, <3>1, BlocksServe, Zenon
    <3> QED BY <3>2, <3>3 DEF Apart
  <2> QED BY <1>7, <2>2, <2>4, <2>5, <2>6 DEF Peer
<1> QED BY <1>3, <1>4, <1>5, <1>6, <1>7 DEF Next, Network

\* Only a message that is processed changes what has landed.
LEMMA FlightStep == FarmInv /\ FlightInv /\ [Next]_vars => FlightInv'
<1> SUFFICES ASSUME FarmInv, FlightInv, [Next]_vars PROVE FlightInv'
  OBVIOUS
<1>1. ASSUME NEW c \in Conns, ProcessMessage(c)
      PROVE  FlightInv'
  BY <1>1, ProcessKeepsFlight
<1>2. CASE UNCHANGED dlVars
  <2>1. LandedCells' = LandedCells
    BY <1>2 DEF dlVars, LandedCells, Queued, Pieces, PieceLen, At, NoPiece
  <2>2. BufferInv' /\ WrittenOnce'
    BY <1>2 DEF FlightInv, dlVars, BufferInv, CountsDistinctBytes, WrittenOnce,
                PieceLen, NoPiece
  <2>3. Blocks(wire', reqs', asked') /\ Settled(wire', reqs', asked', LandedCells)
    BY MoveStep DEF Apart, FlightInv
  <2> QED BY <2>1, <2>2, <2>3 DEF FlightInv
<1>3. CASE \/ UNCHANGED vars \/ EnterRun \/ Poll \/ RunReturns
           \/ \E c \in Conns : \/ AddConnection(c) \/ HandleOut(c)
                               \/ HandleIn(c) \/ Peer(c)
  <2>1. UNCHANGED dlVars
    BY <1>3
    DEF vars, EnterRun, Poll, WaitReturns, RunReturns, AddConnection, HandleOut,
        HandleIn, Peer, PeerGreet, PeerUnchoke, PeerChoke, PeerForgets, PeerHave,
        PeerServe, PeerCloses, OnlyPeer
  <2> QED BY <1>2, <2>1
<1> QED BY <1>1, <1>3 DEF Next, Network

LEMMA FlightInit == Init => FlightInv
<1> SUFFICES ASSUME Init PROVE FlightInv
  OBVIOUS
<1> USE DEF Init, DownloaderInit, ConnectionInit
<1>1. \A s \in Slots : Cargo(wire, reqs, s) = {}
  <2> SUFFICES ASSUME NEW s \in Slots PROVE Cargo(wire, reqs, s) = {}
    OBVIOUS
  <2>1. \A c \in Conns, k \in Nat \ {0} : /\ WireCargo(wire[c], k) = {}
                                          /\ ReqCargo(reqs[c], k) = {}
    BY DEF WireCargo, ReqCargo
  <2>2. s[1] \in Conns /\ s[3] \in Nat \ {0}
    BY DEF Slots
  <2> QED BY <2>1, <2>2 DEF Cargo
<1>2. Blocks(wire, reqs, asked)
  BY <1>1 DEF Blocks
<1>3. LandedCells = {}
  BY DEF LandedCells, Queued, NoPiece
<1>4. Settled(wire, reqs, asked, LandedCells)
  BY <1>1, <1>3 DEF Settled
<1>5. BufferInv
  BY FS_EmptySet DEF BufferInv, CountsDistinctBytes, NoPiece
<1> QED BY <1>2, <1>4, <1>5 DEF FlightInv, WrittenOnce

\* FlightInv holds in every reachable state.
THEOREM FlightInvariant == Spec => [](FarmInv /\ FlightInv)
<1>1. Init => FarmInv /\ FlightInv
  BY FarmInit, FlightInit
<1>2. FarmInv /\ FlightInv /\ [Next]_vars => (FarmInv /\ FlightInv)'
  BY FarmStep, FlightStep
<1> QED BY <1>1, <1>2, PTL DEF Spec

\* The count has reached the length of the piece in the buffer, which is when
\* OnBlockReceived calculates its digest, exactly when every byte of the piece has
\* been copied to it since it was begun: never early, on a block counted twice or
\* one left over from the piece before, and never late.
FullWhenAllReceived ==
  current_piece_index # NoPiece =>
    LET n == PieceLen(current_piece_index) IN
    /\ piece_bytes_received <= n
    /\ piece_bytes_received = n <=> fill = 1 .. n

\* In every torrent and in whatever order the blocks of different pieces arrive
\* and take the buffer from each other, piece_bytes_received is the number of
\* different bytes of the piece in the buffer that have been received, so the
\* piece counts as complete exactly when all of it has been.
THEOREM CountsEachByteOnce == Spec => [](CountsDistinctBytes /\ FullWhenAllReceived)
<1>1. FarmInv /\ FlightInv => CountsDistinctBytes /\ FullWhenAllReceived
  <2> SUFFICES ASSUME FarmInv, FlightInv
               PROVE  CountsDistinctBytes /\ FullWhenAllReceived
    OBVIOUS
  <2> DEFINE n == PieceLen(current_piece_index)
  <2>1. CountsDistinctBytes
    BY DEF FlightInv, BufferInv
  <2>2. ASSUME current_piece_index # NoPiece
        PROVE  piece_bytes_received <= n /\ (piece_bytes_received = n <=> fill = 1 .. n)
    <3>1. n \in Nat
      BY <2>2, PieceLenType, TorrentConstants
      DEF FarmInv, DownloaderInv, DownloaderTypes
    <3>2. fill \subseteq 1 .. n
      BY <2>2 DEF FlightInv, BufferInv
    <3> HIDE DEF n
    <3>3. IsFiniteSet(1 .. n) /\ Cardinality(1 .. n) = n
      BY <3>1, FS_Interval
    <3>4. Cardinality(fill) <= n /\ (Cardinality(fill) = n => fill = 1 .. n)
      BY <3>2, <3>3, FS_Subset
    <3> QED BY <2>1, <3>3, <3>4 DEF CountsDistinctBytes
  <2> QED BY <2>1, <2>2 DEF FullWhenAllReceived
<1> QED BY <1>1, FlightInvariant, PTL

\* No piece is given to the writer twice, although the buffer is taken from a
\* piece by any block of another one and OnBlockReceived does not look at what
\* was written before.
THEOREM PiecesWrittenOnce == Spec => []WrittenOnce
<1>1. FlightInv => WrittenOnce
  BY DEF FlightInv
<1> QED BY <1>1, FlightInvariant, PTL

=============================================================================

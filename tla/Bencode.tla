------------------------------ MODULE Bencode ------------------------------
(***************************************************************************)
(* class Bnode (include/parsing/Bnode.h, source/parsing/Bnode.cpp): a node *)
(* is a record with one field, which tells the alternative of the variant. *)
(* Bytes are numbers; positions count from 1.                              *)
(***************************************************************************)
EXTENDS Integers, Sequences, FiniteSets, SequencesExt

CONSTANTS Int32, Int64     \* the largest int and long long: 2^31 - 1, 2^63 - 1

IntNode(n) == [int |-> n]
StringNode(s) == [str |-> s]
ListNode(s) == [list |-> s]
DictNode(f) == [dict |-> f]      \* f: a function from keys to nodes

IsInt(node) == "int" \in DOMAIN node
IsString(node) == "str" \in DOMAIN node
IsList(node) == "list" \in DOMAIN node
IsDict(node) == "dict" \in DOMAIN node

\* The characters the format is made of.
ci == 105
cl == 108
cd == 100
ce == 101
colon == 58
minus == 45
plus == 43
DigitBytes == 48 .. 57
SpaceBytes == {32} \cup 9 .. 13
IsDigit(c) == c \in DigitBytes

\* An exception.
Throw == [ok |-> FALSE]
Decoded(node, next) == [ok |-> TRUE, node |-> node, next |-> next]

-----------------------------------------------------------------------------
(* std::stoi or std::stoll, and std::to_string. *)

\* The first position from i on that holds no byte of set.
FirstOutside(s, i, set) ==
  CHOOSE k \in i .. Len(s) + 1 :
    /\ \A j \in i .. k - 1 : s[j] \in set
    /\ k > Len(s) \/ s[k] \notin set

Value(digits) == FoldLeft(LAMBDA v, c : 10 * v + (c - 48), 0, digits)

\* Spaces, a sign, digits; what follows is ignored.
StringToInt(s, max) ==
  LET a == FirstOutside(s, 1, SpaceBytes)
      signed == a <= Len(s) /\ s[a] \in {minus, plus}
      b == IF signed THEN a + 1 ELSE a
      e == FirstOutside(s, b, DigitBytes)
      v == Value(SubSeq(s, b, e - 1))
      negative == signed /\ s[a] = minus
  IN IF e = b \/ v > (IF negative THEN max + 1 ELSE max) THEN Throw
     ELSE [ok |-> TRUE, val |-> IF negative THEN -v ELSE v]

RECURSIVE Digits(_)
Digits(n) == IF n < 10 THEN <<48 + n>> ELSE Append(Digits(n \div 10), 48 + (n % 10))

Decimal(n) == IF n < 0 THEN <<minus>> \o Digits(-n) ELSE Digits(n)

-----------------------------------------------------------------------------
(* DecodeElement, by the first byte. *)

FirstAt(data, i, c) == FirstOutside(data, i, 0 .. 255 \ {c})

DecodeInt(data, i) ==
  LET end == FirstAt(data, i + 1, ce)
      n == StringToInt(SubSeq(data, i + 1, end - 1), Int64)
  IN IF end > Len(data) \/ ~n.ok THEN Throw
     ELSE Decoded(IntNode(n.val), end + 1)

\* Faulty variant of Unclosed: the end of the data closes what is open.
UnclosedTaken(node, next) == Decoded(node, next)

\* The data ends inside a string, a list or a dictionary.
Unclosed(node, next) == Throw

Onward(s, k) == SubSeq(s, k, Len(s))

DecodeString(data, i) ==
  LET at == FirstAt(data, i, colon)
      n == StringToInt(SubSeq(data, i, at - 1), Int64)
  IN IF at > Len(data) \/ ~n.ok THEN Throw
     ELSE IF at + n.val > Len(data)
          THEN Unclosed(StringNode(Onward(data, at + 1)), Len(data) + 1)
     ELSE Decoded(StringNode(SubSeq(data, at + 1, at + n.val)), at + 1 + n.val)

\* dict[key] = val
Put(f, key, val) ==
  [k \in DOMAIN f \cup {key} |-> IF k = key THEN val ELSE f[k]]

EmptyDict == <<>>

RECURSIVE DecodeElement(_, _), DecodeList(_, _, _), DecodeDict(_, _, _)

\* The loop of a list, with what it holds so far.
DecodeList(data, i, list) ==
  IF i > Len(data) THEN Unclosed(ListNode(list), i)
  ELSE IF data[i] = ce THEN Decoded(ListNode(list), i + 1)
  ELSE LET e == DecodeElement(data, i) IN
       IF ~e.ok THEN Throw ELSE DecodeList(data, e.next, Append(list, e.node))

\* The loop of a dictionary.
DecodeDict(data, i, dict) ==
  IF i > Len(data) THEN Unclosed(DictNode(dict), i)
  ELSE IF data[i] = ce THEN Decoded(DictNode(dict), i + 1)
  ELSE LET key == DecodeElement(data, i) IN
       IF ~key.ok THEN Throw
       ELSE IF ~IsString(key.node) THEN Throw
       ELSE LET val == DecodeElement(data, key.next) IN
            IF ~val.ok THEN Throw
            ELSE DecodeDict(data, val.next, Put(dict, key.node.str, val.node))

DecodeElement(data, i) ==
  IF i > Len(data) THEN Throw
  ELSE CASE data[i] = ci -> DecodeInt(data, i)
         [] data[i] = cl -> DecodeList(data, i + 1, <<>>)
         [] data[i] = cd -> DecodeDict(data, i + 1, EmptyDict)
         [] IsDigit(data[i]) -> DecodeString(data, i)
         [] OTHER -> Throw

\* Bytes after the first element are not looked at.
Decode(data) == DecodeElement(data, 1)

-----------------------------------------------------------------------------
(* Encode. *)

\* The order of std::map<std::string, ...>.
Before(a, b) ==
  \/ Len(a) < Len(b) /\ SubSeq(b, 1, Len(a)) = a
  \/ \E k \in DOMAIN a \cap DOMAIN b :
       /\ \A j \in 1 .. k - 1 : a[j] = b[j]
       /\ a[k] < b[k]

EncodeString(s) == Decimal(Len(s)) \o <<colon>> \o s

\* Faulty variant of KeysInOrder: the shorter key first.
KeysByLength(f) ==
  SetToSortSeq(DOMAIN f, LAMBDA a, b : Len(a) < Len(b) \/ (Len(a) = Len(b) /\ Before(a, b)))

KeysInOrder(f) == SetToSortSeq(DOMAIN f, Before)

RECURSIVE Encode(_)
Encode(node) ==
  CASE IsInt(node) -> <<ci>> \o Decimal(node.int) \o <<ce>>
    [] IsString(node) -> EncodeString(node.str)
    [] IsList(node) ->
         <<cl>> \o FlattenSeq([k \in DOMAIN node.list |-> Encode(node.list[k])])
         \o <<ce>>
    [] IsDict(node) ->
         LET keys == KeysInOrder(node.dict) IN
         <<cd>> \o FlattenSeq([k \in DOMAIN keys |->
                                 EncodeString(keys[k])
                                 \o Encode(node.dict[keys[k]])])
         \o <<ce>>

=============================================================================

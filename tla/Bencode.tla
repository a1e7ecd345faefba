-------------------------------- MODULE Bencode --------------------------------
(***************************************************************************)
(* Bencoded values and their bytes (domain/bencode.rs).  Which error an    *)
(* input is refused with is left out, and so is the width of numbers: i64  *)
(* and usize hold every number of an input of less than 19 digits.         *)
(***************************************************************************)
EXTENDS Integers, SequencesExt

Integer(n) == [int |-> n]
Bytes(s) == [bytes |-> s]
List(s)  == [list |-> s]
Dict(d)  == [dict |-> d]  \* a function from keys, which are byte strings

IsInt(v)   == DOMAIN v = {"int"}
IsBytes(v) == DOMAIN v = {"bytes"}
IsList(v)  == DOMAIN v = {"list"}
IsDict(v)  == DOMAIN v = {"dict"}

\* ASCII
Plus  == 43
Minus == 45
Zero  == 48
Nine  == 57
Colon == 58
CharD == 100
CharE == 101
CharI == 105
CharL == 108
Digit == Zero .. Nine

-----------------------------------------------------------------------------
\* Encoding.  encode_into writes a value after the values in it; here these are
\* given as the bytes they were encoded to.

\* to_string, of a number
Digits(n) ==
  LET text[k \in 0 .. n] ==
        IF k < 10 THEN <<Zero + k>> ELSE Append(text[k \div 10], Zero + (k % 10))
  IN  text[n]
Decimal(n) == IF n < 0 THEN <<Minus>> \o Digits(-n) ELSE Digits(n)

EncodeInt(n)      == <<CharI>> \o Decimal(n) \o <<CharE>>
ByteString(s)     == Decimal(Len(s)) \o <<Colon>> \o s
EncodeList(items) == <<CharL>> \o FlattenSeq(items) \o <<CharE>>

\* The order of the keys of a BTreeMap.
Precedes(s, t) ==
  \/ IsStrictPrefix(s, t)
  \/ \E i \in 1 .. Min({Len(s), Len(t)}) :
       s[i] < t[i] /\ \A j \in 1 .. i - 1 : s[j] = t[j]
InOrder(keys) ==
  CHOOSE q \in [1 .. Cardinality(keys) -> keys] :
    \A i, j \in DOMAIN q : i < j => Precedes(q[i], q[j])

\* entries[k] is the encoded value of key k.
EncodeDict(entries) ==
  LET keys == InOrder(DOMAIN entries)
  IN  <<CharD>> \o FlattenSeq([i \in DOMAIN keys |-> ByteString(keys[i]) \o entries[keys[i]]])
                \o <<CharE>>

-----------------------------------------------------------------------------
\* Decoding, from a position on

Refused == [ok |-> FALSE]
Decoded(v, next) == [ok |-> TRUE, value |-> v, next |-> next]

\* The byte at a position, or one that is none.
At(s, i) == IF i <= Len(s) THEN s[i] ELSE -1

\* The first position from i on that does not hold a byte of the set.
Past(set, s, i) == Min({j \in i .. Len(s) + 1 : At(s, j) \notin set})

\* str::parse, of digits
Number(digits) ==
  LET upto[k \in 0 .. Len(digits)] ==
        IF k = 0 THEN 0 ELSE 10 * upto[k - 1] + digits[k] - Zero
  IN  upto[Len(digits)]

\* str::parse takes a sign, and so does parse_int, before digits; it refuses a
\* minus before a zero, and a zero before more digits unless a plus comes first.
ParseInt(s, i) ==
  LET end    == Past(0 .. 255 \ {CharE}, s, i + 1)
      text   == SubSeq(s, i + 1, end - 1)
      signed == At(text, 1) \in {Plus, Minus}
      digits == IF signed THEN Tail(text) ELSE text
      n      == Number(digits)
  IN  IF /\ end <= Len(s)
         /\ digits # <<>> /\ Range(digits) \subseteq Digit
         /\ ~(At(text, 1) = Minus /\ At(text, 2) = Zero)
         /\ ~(At(text, 1) = Zero /\ Len(text) > 1)
      THEN Decoded(Integer(IF At(text, 1) = Minus THEN -n ELSE n), end + 1)
      ELSE Refused

\* parse_byte_string, whose length may have leading zeros.
ParseBytes(s, i) ==
  LET colon == Past(Digit, s, i)
      end   == colon + Number(SubSeq(s, i, colon - 1))
  IN  IF At(s, colon) = Colon /\ colon > i /\ end <= Len(s)
      THEN Decoded(Bytes(SubSeq(s, colon + 1, end)), end + 1)
      ELSE Refused

\* BTreeMap::insert, and the same before the rest of the entries were inserted.
Insert(d, key, v) == [k \in DOMAIN d \cup {key} |-> IF k = key THEN v ELSE d[k]]
Before(key, v, rest) == IF key \in DOMAIN rest THEN rest ELSE Insert(rest, key, v)

\* parse, and the loops of parse_list and parse_dict, each from a position on;
\* deeper is what the calls they make come to, at every position.  Keys come in
\* any order, and of a key that comes twice the last value counts.
ParseItems(s, i, deeper) ==
  LET item == deeper.value[i]
      rest == deeper.items[item.next]
  IN  IF At(s, i) = CharE THEN Decoded(<<>>, i + 1)
      ELSE IF item.ok /\ rest.ok THEN Decoded(<<item.value>> \o rest.value, rest.next)
      ELSE Refused

ParseEntries(s, i, deeper) ==
  LET key  == ParseBytes(s, i)
      val  == deeper.value[key.next]
      rest == deeper.entries[val.next]
  IN  IF At(s, i) = CharE THEN Decoded(<<>>, i + 1)
      ELSE IF key.ok /\ val.ok /\ rest.ok
           THEN Decoded(Before(key.value.bytes, val.value, rest.value), rest.next)
      ELSE Refused

Parse(s, i, deeper) ==
  LET items   == deeper.items[i + 1]
      entries == deeper.entries[i + 1]
  IN  CASE At(s, i) = CharI -> ParseInt(s, i)
        [] At(s, i) = CharL ->
             IF items.ok THEN Decoded(List(items.value), items.next) ELSE Refused
        [] At(s, i) = CharD ->
             IF entries.ok THEN Decoded(Dict(entries.value), entries.next) ELSE Refused
        [] At(s, i) \in Digit -> ParseBytes(s, i)
        [] OTHER              -> Refused

\* The calls of a decoder that go no deeper than n calls.  At one position there
\* are at most two calls, one within the other: the loop of a list, and parse.
Calls(s) ==
  LET Position == 1 .. Len(s) + 1
      none     == [i \in Position |-> Refused]
      upTo[n \in 0 .. 2 * Len(s) + 2] ==
        IF n = 0 THEN [value |-> none, items |-> none, entries |-> none]
        ELSE [value   |-> [i \in Position |-> Parse(s, i, upTo[n - 1])],
              items   |-> [i \in Position |-> ParseItems(s, i, upTo[n - 1])],
              entries |-> [i \in Position |-> ParseEntries(s, i, upTo[n - 1])]]
  IN  upTo

\* Bencode::decode, which leaves what follows the value alone, and
\* decode_with_rest.
Decode(s) == Calls(s)[2 * Len(s) + 2].value[1]
Rest(s, decoded) == SubSeq(s, decoded.next, Len(s))

-----------------------------------------------------------------------------
\* Access

HasKey(v, key) == IsDict(v) /\ key \in DOMAIN v.dict
HasInt(v, key) == HasKey(v, key) /\ IsInt(v.dict[key])
GetInt(v, key) == v.dict[key].int

=============================================================================

----------------------------- MODULE DataItems -----------------------------
\* The binary and JSON forms of data items: what the wallet signs and sends, and
\* what the recorder reads. The wallet's code is TypeScript (core/vbc.ts,
\* bigint.ts, dataitem.ts, hex.ts, separable.ts), each file a port of a Rust file
\* of the recorder; the two differ where an operator takes a limit.
\* A byte is DataBits + 1 bits here instead of 8, a u64 ValueBits bits, and a VBC
\* field at most MaxVbcBytes bytes instead of 10, so that, as in the code, the
\* longest field carries more bits than the recorder's integer has.
EXTENDS Integers, Sequences, SequencesExt

CONSTANTS DataBits, ValueBits, MaxVbcBytes,
          SafeBits,             \* 53: the integers a JSON number of the wallet holds
          Alphabet, MaxLen,     \* the byte strings that reach a decoder
          Values, Numbers       \* the VBC values and the big integers of items

\* Length of a SHA256 digest and of every other fixed-size item (32 or 8).
FixedSize == 1

\* b to the n-th.
Power(b, n) == LET power[k \in Nat] == IF k = 0 THEN 1 ELSE b * power[k - 1] IN power[n]

Cont == Power(2, DataBits)
Base == 2 * Cont
Byte == 0 .. Base - 1
U64 == Power(2, ValueBits)
Unbounded == Power(Cont, MaxVbcBytes)

ASSUME SizesAssumption ==
    /\ {DataBits, ValueBits, MaxVbcBytes, SafeBits, MaxLen} \subseteq Nat
    /\ DataBits % 2 = 1 /\ DataBits > 1 /\ ValueBits > 6 /\ MaxLen < U64
    /\ MaxVbcBytes * DataBits > ValueBits /\ (MaxVbcBytes - 1) * DataBits < ValueBits
    /\ Alphabet \subseteq Byte /\ Numbers \subseteq Nat
    /\ SafeBits < ValueBits /\ Values \subseteq 0 .. Power(2, SafeBits) - 1

VARIABLES item,  \* the item a wallet signs, or the one the recorder read, or NotYet
          wire,  \* its bytes, or a byte string from elsewhere, or <<>>
          json   \* its JSON form, or NotYet
vars == <<item, wire, json>>

NotYet == [none |-> TRUE]
\* Every throw of the decoders.
Refused == [refused |-> TRUE]

\* ---- type codes: one or two of each size category ----
EXPIRY_MODE == -1
TAX_PARAMS == -2
SHA256 == 3
AMOUNT == 6
SEQ_ID == 7
PARTICIPANT == 10
RECORDING_BID == 16
NOTE == 32
DATA_BLOB == 33

sizeCategory(code) ==
    CASE code = SHA256 -> "fixed"
      [] code \in {AMOUNT, RECORDING_BID, NOTE, DATA_BLOB} -> "variable"
      [] code \in {SEQ_ID, EXPIRY_MODE} -> "vbcValue"
      [] code \in {TAX_PARAMS, PARTICIPANT} -> "container"
      [] OTHER -> "unknown"

isSeparable(code) == LET abs == IF code < 0 THEN -code ELSE code
                     IN (abs \div 32) % 2 = 1

bytesItem(code, data) == [typeCode |-> code, data |-> data]
vbcItem(code, v) == [typeCode |-> code, value |-> v]
containerItem(code, children) == [typeCode |-> code, children |-> children]

\* ---- VBC ----
\* The lowest digit first, with a bit set in every byte but the last.
encodeUnsigned[v \in Nat] ==
    IF v < Cont THEN <<v>> ELSE <<Cont + (v % Cont)>> \o encodeUnsigned[v \div Cont]

encodeSigned(v) == encodeUnsigned[IF v >= 0 THEN 2 * v ELSE 2 * (-v) + 1]

\* The number that the last k + 1 bytes up to end spell.
Spelt(d, end) ==
    LET spelt[k \in 0 .. end - 1] == IF k = 0 THEN d[end]
                                     ELSE (d[end - k] % Cont) + Cont * spelt[k - 1]
    IN spelt

\* [value, used] of the field at pos. The wallet's integers are unbounded; the
\* recorder refuses a field whose value its u64 does not hold (limit).
decodeUnsigned(d, pos, limit) ==
    LET ends == {i \in pos .. Len(d) : d[i] < Cont}
        end == CHOOSE i \in ends : \A j \in ends : i <= j
        value == Spelt(d, end)[end - pos]
    IN IF ends = {} \/ end - pos + 1 > MaxVbcBytes \/ value >= limit
       THEN Refused ELSE [value |-> value, used |-> end - pos + 1]

decodeSigned(d, pos, limit) ==
    LET wireValue == decodeUnsigned(d, pos, limit)
    IN IF wireValue = Refused \/ wireValue.value = 1 THEN Refused   \* 1 is -0
       ELSE [wireValue EXCEPT !.value = IF @ % 2 = 0 THEN @ \div 2 ELSE -(@ \div 2)]

\* ---- big integers: minimal two's complement, most significant byte first ----
Digits[n \in Nat] == IF n = 0 THEN <<>> ELSE Append(Digits[n \div Base], n % Base)

Magnitude(s) ==
    LET mag[k \in 0 .. Len(s)] == IF k = 0 THEN 0 ELSE mag[k - 1] * Base + s[k]
    IN mag[Len(s)]

\* "Invert all bits, add 1" of a magnitude of n digits is Base^n minus it.
bigintToTcBe(v) ==
    LET mag == Digits[IF v < 0 THEN -v ELSE v]
        n == Len(mag)
        inv == LET s == Digits[Power(Base, n) + v] IN [i \in 1 .. n - Len(s) |-> 0] \o s
    IN IF v = 0 THEN <<>>
       ELSE IF v > 0 THEN (IF mag[1] >= Cont THEN <<0>> \o mag ELSE mag)
       ELSE IF inv[1] < Cont THEN <<Base - 1>> \o inv ELSE inv

tcBeToBigint(s) == IF s = <<>> THEN 0
                   ELSE IF s[1] >= Cont THEN Magnitude(s) - Power(Base, Len(s))
                   ELSE Magnitude(s)

encodeBigint(v) == encodeUnsigned[Len(bigintToTcBe(v))] \o bigintToTcBe(v)

decodeBigint(d, pos, limit) ==
    LET size == decodeUnsigned(d, pos, limit)
        start == pos + size.used
        mag == SubSeq(d, start, start + size.value - 1)
    IN IF \/ size = Refused
          \/ start + size.value - 1 > Len(d)
          \/ size.value > 1 /\ \/ mag[1] = 0 /\ mag[2] < Cont
                               \/ mag[1] = Base - 1 /\ mag[2] >= Cont
       THEN Refused
       ELSE [value |-> tcBeToBigint(mag), used |-> size.used + size.value]

\* mutant: the total leaves out the size field of the numerator.
EncodeRationalShort(num, den) ==
    LET n == bigintToTcBe(num)
        body == n \o bigintToTcBe(den)
    IN encodeUnsigned[Len(body)] \o encodeUnsigned[Len(n)] \o body

encodeRational(num, den) ==
    LET n == bigintToTcBe(num)
        body == encodeUnsigned[Len(n)] \o n \o bigintToTcBe(den)
    IN encodeUnsigned[Len(body)] \o body

decodeRational(d, pos, limit) ==
    LET total == decodeUnsigned(d, pos, limit)
        start == pos + total.used
        nSize == decodeUnsigned(d, start, limit)
        numStart == start + nSize.used
        denStart == numStart + nSize.value
        last == start + total.value - 1
        den == tcBeToBigint(SubSeq(d, denStart, last))
    IN IF total = Refused THEN Refused
       ELSE IF last > Len(d) \/ nSize = Refused THEN Refused
       ELSE IF denStart > last \/ den <= 0 THEN Refused
       ELSE [num |-> tcBeToBigint(SubSeq(d, numStart, denStart - 1)), den |-> den,
             used |-> total.used + total.value]

\* ---- data items ----
\* Items and their JSON forms of bounded height, over which the code's recursions are
\* functions. A string spends two bytes on a container; the wallet's items are two deep.
Depth == 2 + MaxLen \div 2
Codes == {EXPIRY_MODE, TAX_PARAMS, SHA256, AMOUNT, SEQ_ID, PARTICIPANT, RECORDING_BID,
          NOTE, DATA_BLOB}
CodesOf(category) == {c \in Codes : sizeCategory(c) = category}

Flat == [typeCode : CodesOf("fixed"), data : [1 .. FixedSize -> Nat]]
        \cup [typeCode : CodesOf("variable"), data : Seq(Nat)]
        \cup [typeCode : CodesOf("vbcValue"), value : 0 .. U64 - 1]
FlatForms == [code : CodesOf("fixed") \cup CodesOf("variable"), hex : Seq(Nat)]
             \cup [code : CodesOf("vbcValue"), number : Nat]

Heights[n \in Nat] ==
    IF n = 0 THEN [trees |-> Flat, forms |-> FlatForms]
    ELSE [trees |-> Flat \cup [typeCode : CodesOf("container"),
                               children : Seq(Heights[n - 1].trees)],
          forms |-> FlatForms \cup [code : CodesOf("container"),
                                    items : Seq(Heights[n - 1].forms)]]
Tree == Heights[Depth].trees
Form == Heights[Depth].forms

\* ---- data items, binary ----
encodeDataItem[it \in Tree] ==
    LET size(s) == encodeUnsigned[Len(s)] \o s
        contents == IF sizeCategory(it.typeCode) = "fixed" THEN it.data
                    ELSE IF sizeCategory(it.typeCode) = "variable" THEN size(it.data)
                    ELSE IF sizeCategory(it.typeCode) = "vbcValue"
                    THEN encodeUnsigned[it.value]
                    ELSE size(FlattenSeq([i \in 1 .. Len(it.children) |->
                                             encodeDataItem[it.children[i]]]))
    IN encodeSigned(it.typeCode) \o contents

\* The item of the given code whose data are the bytes from start to end - 1.
ReadBytes(d, code, start, end) ==
    IF end > Len(d) + 1 THEN Refused
    ELSE [item |-> bytesItem(code, SubSeq(d, start, end - 1)), next |-> end]

\* The container whose children are those that children tells from start to end - 1.
ReadContainer(d, code, start, end, children) ==
    IF end > Len(d) + 1 THEN Refused
    ELSE IF children[start][end] = Refused THEN Refused
    ELSE [item |-> containerItem(code, children[start][end].items), next |-> end]

\* The item of the given code, from behind the code.
DecodeBody(d, code, at, limit, children) ==
    LET field == decodeUnsigned(d, at, limit)
        start == at + field.used
    IN IF sizeCategory(code) = "unknown" THEN Refused
       ELSE IF sizeCategory(code) = "fixed" THEN ReadBytes(d, code, at, at + FixedSize)
       ELSE IF field = Refused THEN Refused
       ELSE IF sizeCategory(code) = "vbcValue"
       THEN [item |-> vbcItem(code, field.value), next |-> start]
       ELSE IF sizeCategory(code) = "variable"
       THEN ReadBytes(d, code, start, start + field.value)
       ELSE ReadContainer(d, code, start, start + field.value, children)

\* The item at pos and the place behind it.
decodeDataItem(d, pos, limit, children) ==
    LET code == decodeSigned(d, pos, limit)
    IN IF code = Refused THEN Refused
       ELSE DecodeBody(d, code.value, pos + code.used, limit, children)

\* The child at pos before its siblings up to end.
ReadChild(child, end, children) ==
    IF child = Refused THEN Refused
    ELSE IF children[child.next][end] = Refused THEN Refused
    ELSE [items |-> <<child.item>> \o children[child.next][end].items]

\* The children from pos up to end; the last one must not reach past the end.
DecodeChildren(d, limit) ==
    LET children[pos \in 1 .. Len(d) + 1] ==
            [end \in 1 .. Len(d) + 1 |->
                IF pos = end THEN [items |-> <<>>]
                ELSE IF pos > end THEN Refused
                ELSE ReadChild(decodeDataItem(d, pos, limit, children), end, children)]
    IN children

\* The item of a whole buffer.
fromBytes(d, limit) ==
    LET whole == decodeDataItem(d, 1, limit, DecodeChildren(d, limit))
    IN IF whole = Refused THEN Refused
       ELSE IF whole.next # Len(d) + 1 THEN Refused ELSE whole.item

\* ---- data items, JSON ----
Hex == Power(2, (DataBits + 1) \div 2)

bytesToHex(s) == [i \in 1 .. 2 * Len(s) |-> IF i % 2 = 1 THEN s[(i + 1) \div 2] \div Hex
                                            ELSE s[i \div 2] % Hex]

\* An odd number of digits is refused: <<Base>> is no byte string.
hexToBytes(h) == IF Len(h) % 2 = 1 THEN <<Base>>
                 ELSE [i \in 1 .. Len(h) \div 2 |-> h[2 * i - 1] * Hex + h[2 * i]]

\* Number(v): the nearest double, which keeps SafeBits bits, ties to even.
Number(v) ==
    LET k == CHOOSE n \in 0 .. ValueBits :
                 /\ v < Power(2, SafeBits + n)
                 /\ n = 0 \/ v >= Power(2, SafeBits + n - 1)
        unit == Power(2, k)
        q == v \div unit
        twice == 2 * (v % unit)
    IN unit * (IF twice > unit \/ (twice = unit /\ q % 2 = 1) THEN q + 1 ELSE q)

toJson[it \in Tree] ==
    IF sizeCategory(it.typeCode) \in {"fixed", "variable"}
    THEN [code |-> it.typeCode, hex |-> bytesToHex(it.data)]
    ELSE IF sizeCategory(it.typeCode) = "vbcValue"
    THEN [code |-> it.typeCode, number |-> Number(it.value)]
    ELSE [code |-> it.typeCode,
          items |-> [i \in 1 .. Len(it.children) |-> toJson[it.children[i]]]]

fromJson[j \in Form] ==
    IF sizeCategory(j.code) \in {"fixed", "variable"} THEN bytesItem(j.code, hexToBytes(j.hex))
    ELSE IF sizeCategory(j.code) = "vbcValue" THEN vbcItem(j.code, j.number)
    ELSE containerItem(j.code, [i \in 1 .. Len(j.items) |-> fromJson[j.items[i]]])

\* ---- what is signed ----
\* SHA-256 as an injective function into strings of FixedSize bytes, none of
\* which occurs elsewhere.
sha256Sync(data) == <<Base + Magnitude(<<1>> \o data)>>

substituteSeparable[it \in Tree] ==
    IF isSeparable(it.typeCode) THEN bytesItem(SHA256, sha256Sync(encodeDataItem[it]))
    ELSE IF sizeCategory(it.typeCode) = "container"
    THEN containerItem(it.typeCode, [i \in 1 .. Len(it.children) |->
                                        substituteSeparable[it.children[i]]])
    ELSE it

SigningBytes(it) == encodeDataItem[substituteSeparable[it]]

\* ---- the items and strings of the runs ----
Signed == Numbers \cup {-n : n \in Numbers}

Leaves == {bytesItem(SHA256, <<b>>) : b \in {1, Base - 1}}
          \cup {bytesItem(AMOUNT, encodeBigint(n)) : n \in Signed}
          \cup {bytesItem(RECORDING_BID, encodeRational(n, 3)) : n \in Signed}
          \cup {vbcItem(c, v) : c \in {SEQ_ID, EXPIRY_MODE}, v \in Values}
          \cup {bytesItem(c, s) : c \in {NOTE, DATA_BLOB}, s \in {<<>>, <<6, 1>>}}

Participants == {containerItem(PARTICIPANT, s) : s \in {<<>>} \cup {<<l>> : l \in Leaves}}

Items == Leaves \cup Participants
         \cup {containerItem(TAX_PARAMS, s) :
                   s \in {<<p, l>> : p \in Participants, l \in Leaves}
                         \cup {<<p>> : p \in Participants}}

\* Every size is one that its field can hold.
ASSUME ItemsFit ==
    \A it \in Items : Len(encodeDataItem[it]) < U64 /\ Len(SigningBytes(it)) < U64

Strings == UNION {[1 .. n -> Alphabet] : n \in 1 .. MaxLen}

Init == /\ json = NotYet
        /\ \/ item \in Items /\ wire = <<>>
           \/ item = NotYet /\ wire \in Strings

\* The wallet encodes the item.
Encode == /\ item # NotYet /\ wire = <<>>
          /\ wire' = encodeDataItem[item]
          /\ UNCHANGED <<item, json>>

\* The recorder reads an item from a byte string.
Decode == /\ item = NotYet
          /\ item' = fromBytes(wire, U64)
          /\ UNCHANGED <<wire, json>>

\* The wallet posts the item.
Post == /\ item \notin {NotYet, Refused} /\ json = NotYet
        /\ json' = toJson[item]
        /\ UNCHANGED <<item, wire>>

Next == Encode \/ Decode \/ Post
Spec == Init /\ [][Next]_vars

IsItem == item \notin {NotYet, Refused}

\* Whatever the wallet encodes the recorder decodes to the same item, nested
\* containers included, and so does the wallet; and an item read from any byte
\* string has an encoding that both read back as that item.
ReadBack ==
    IsItem /\ wire # <<>> =>
        \A s \in {wire, encodeDataItem[item]}, limit \in {U64, Unbounded} :
            fromBytes(s, limit) = item

\* An item the wallet posts as JSON is, byte for byte, the item it signed: the
\* recorder's copy has the same signing bytes.
PostedAsSigned ==
    json # NotYet /\ wire # <<>> /\ item \in Items =>
        fromJson[json] = item /\ SigningBytes(fromJson[json]) = SigningBytes(item)

\* No two items have the same signing bytes, whatever their nesting, except that
\* separable contents may be replaced by their digest.
SignedApart ==
    wire # <<>> /\ item \in Items =>
        \A other \in Items : SigningBytes(other) = SigningBytes(item) => other = item

\* Separable contents may be dropped, at any depth, without invalidating the
\* signature: with digests in their place the signing bytes are the same.
DigestStands ==
    IsItem => LET stripped == substituteSeparable[item]
              IN /\ SigningBytes(stripped) = SigningBytes(item)
                 /\ \/ sizeCategory(stripped.typeCode) # "container"
                    \/ \A i \in 1 .. Len(stripped.children) :
                           LET c == stripped.children[i]
                           IN /\ ~isSeparable(c.typeCode)
                              /\ sizeCategory(c.typeCode) = "container" =>
                                     \A k \in 1 .. Len(c.children) :
                                         ~isSeparable(c.children[k].typeCode)

\* An amount is read as the number that was written, and the recorder accepts one
\* magnitude per number: the bytes it accepts are those the wallet would write.
AmountsExact ==
    IsItem /\ item.typeCode = AMOUNT =>
        LET r == decodeBigint(item.data, 1, U64)
        IN /\ \A n \in Signed : item.data = encodeBigint(n) => r # Refused /\ r.value = n
           /\ r # Refused => LET mag == bigintToTcBe(r.value)
                             IN SubSeq(item.data, r.used - Len(mag) + 1, r.used) = mag

\* A recording bid is read as the fraction that was written.
BidsExact ==
    IsItem /\ item.typeCode = RECORDING_BID =>
        \A n \in Signed : item.data = encodeRational(n, 3) =>
            LET r == decodeRational(item.data, 1, U64)
            IN r # Refused /\ r.num = n /\ r.den = 3

\* Every form the wallet writes is read as what was written: bytes, JSON, amounts
\* and fractions.
FormsAgree == ReadBack /\ PostedAsSigned /\ AmountsExact /\ BidsExact

\* A signature covers one item, and all of it but what may be dropped.
SigningCovers == SignedApart /\ DigestStands

\* ---- what documents and comments say and the code does not keep for some values
\* of the constants (README, 3.4) ----
\* WireFormat.md: values of 2^63 and above are rejected, to keep within an i64.
ValuesInRange ==
    IsItem /\ wire # <<>> /\ sizeCategory(item.typeCode) = "vbcValue" =>
        item.value < Power(2, ValueBits - 1)

\* WireFormat.md: the round trip from binary to JSON and back gives the same bytes.
JsonBinarySame ==
    wire # <<>> /\ json # NotYet => encodeDataItem[fromJson[json]] = wire
=============================================================================

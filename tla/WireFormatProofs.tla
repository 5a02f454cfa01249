---------------------------- MODULE WireFormatProofs ----------------------------
(***************************************************************************)
(* What a message is when it arrives, for any size of the buffer, any      *)
(* texts and whatever is in memory that was never written.                 *)
(*                                                                         *)
(* Layout says where in a buffer the parts of a message are, without       *)
(* recursion: a length is followed by its text if that was written, and    *)
(* the text, or the length alone, by the next length if that was.  Each    *)
(* Write keeps it, and so the receiver, which takes the same steps, finds  *)
(* each length where the one before it ended.                              *)
(***************************************************************************)
EXTENDS WireFormat, TLAPS, SequenceTheorems

HasLength(b, i) == \E p \in 1 .. Len(b) : b[p] = <<"length", i, 1>>
HasText(b, i)   == \E p \in 1 .. Len(b), k \in Nat \ {0} : b[p] = <<"text", i, k>>

(* Length i, or text i, begins behind the first p bytes.                   *)
LengthAt(b, i, p) ==
  /\ p + 2 <= Len(b)
  /\ b[p + 1] = <<"length", i, 1>> /\ b[p + 2] = <<"length", i, 2>>
TextAt(msg, b, i, p) ==
  /\ p + msg[i] <= Len(b)
  /\ \A k \in 1 .. msg[i] : b[p + k] = <<"text", i, k>>

(* Of n texts, number i ended behind q bytes: what comes next.             *)
Followed(b, n, i, q) ==
  /\ q <= Len(b)
  /\ i < n => (HasLength(b, i + 1) => LengthAt(b, i + 1, q))
  /\ i = n => Len(b) = q

(* A text was written or dropped.                                          *)
Whole(msg, b, n, i, p) ==
  TextAt(msg, b, i, p + 2) /\ Followed(b, n, i, p + 2 + msg[i])
Dropped(msg, b, n, i, p) ==
  ~ HasText(b, i) /\ p + 2 + msg[i] > BufferSize /\ Followed(b, n, i, p + 2)

(* The bytes of b belong to the header or to one of the first n texts.     *)
OnlyTexts(b, n) ==
  \A p \in 1 .. Len(b), i, k \in Nat :
    b[p] = <<"length", i, k>> \/ b[p] = <<"text", i, k>> => i \in 1 .. n

(* Once a length is dropped, the next ones are too.                        *)
LengthsEnd(b, n) ==
  /\ \A i, j \in 1 .. n : i <= j /\ HasLength(b, j) => HasLength(b, i)
  /\ n > 0 /\ ~ HasLength(b, n) => Len(b) + 2 > BufferSize

(* What Serialize leaves in b when it has come to the n-th text.           *)
Layout(msg, b, n) ==
  /\ b \in Seq(Byte) /\ Len(b) \in 5 .. BufferSize
  /\ b[1] = <<"type", 0, 1>>
  /\ OnlyTexts(b, n) /\ LengthsEnd(b, n)
  /\ Followed(b, n, 0, 5)
  /\ \A i \in 1 .. n : HasLength(b, i) => \E p \in Nat : LengthAt(b, i, p)
  /\ \A i \in 1 .. n, p \in Nat :
       LengthAt(b, i, p) => Whole(msg, b, n, i, p) \/ Dropped(msg, b, n, i, p)

-----------------------------------------------------------------------------
(* What is left in the receiver's buffer is the end of the wire and begins *)
(* where the last text ended.                                              *)
Remaining ==
  LET q == Len(wire) - Len(buffer) n == Len(texts) IN
  /\ Len(buffer) <= Len(wire)
  /\ \A k \in 1 .. Len(buffer) : buffer[k] = wire[q + k]
  /\ Countable(n) /\ (n > 0 => HasLength(wire, n)) => Followed(wire, Len(message), n, q)

(* What has been read of the texts whose length was sent.                  *)
TextsRead ==
  \A i \in 1 .. Len(texts) :
    /\ Countable(i) /\ HasLength(wire, i)
    /\ HasText(wire, i) \/ message[i] = 0
    => texts[i] = Bytes("text", i, message[i])

Reading == stage \in {"reading", "done"}

(* The inductive invariant.                                                *)
WireInv ==
  /\ WireTypeOK
  /\ stage # "ended"
  /\ stage \in {"send", "sent"} => ~ arrived /\ buffer = << >>
  /\ ~ Reading => kind = Unknown /\ texts = << >>
  /\ stage # "send" => Layout(message, wire, Len(message))
  /\ arrived /\ stage = "received" => buffer = wire
  /\ arrived /\ Reading => kind = Len(message) /\ Remaining /\ TextsRead
  /\ stage = "done" => Len(texts) = kind

-----------------------------------------------------------------------------
(* BufferV2.                                                               *)

(* The bytes of one part, in order.                                        *)
LEMMA BytesAre ==
  ASSUME NEW part \in Part, NEW i \in 0 .. 4, NEW size \in Nat
  PROVE  /\ Bytes(part, i, size) \in Seq(Byte)
         /\ Len(Bytes(part, i, size)) = size
         /\ \A k \in 1 .. size : Bytes(part, i, size)[k] = <<part, i, k>>
<1>1. \A k \in 1 .. size : <<part, i, k>> \in Byte
  BY DEF Byte
<1>2. Bytes(part, i, size) \in [1 .. size -> Byte]
  BY <1>1 DEF Bytes
<1>3. Bytes(part, i, size) \in Seq(Byte)
  BY <1>2
<1>4. Len(Bytes(part, i, size)) = size
  BY <1>2, <1>3
<1> QED BY <1>3, <1>4 DEF Bytes

(* A Write appends what fits and nothing else.                             *)
LEMMA WrittenFits ==
  ASSUME NEW b \in Seq(Byte), NEW d \in Seq(Byte), Len(b) + Len(d) <= BufferSize
  PROVE  /\ Written(b, d) = b \o d /\ b \o d \in Seq(Byte)
         /\ Len(b \o d) = Len(b) + Len(d)
         /\ \A k \in 1 .. Len(b) : (b \o d)[k] = b[k]
         /\ \A k \in 1 .. Len(d) : (b \o d)[Len(b) + k] = d[k]
<1> USE WireBounds
<1>1. Len(b) \in Nat /\ Len(d) \in Nat
  BY LenProperties
<1>2. Written(b, d) = b \o d
  BY <1>1 DEF Written
<1>3. /\ b \o d \in Seq(Byte)
      /\ Len(b \o d) = Len(b) + Len(d)
      /\ \A k \in 1 .. Len(b) + Len(d) :
           (b \o d)[k] = IF k <= Len(b) THEN b[k] ELSE d[k - Len(b)]
  BY ConcatProperties
<1>4. \A k \in 1 .. Len(b) : (b \o d)[k] = b[k]
  BY <1>1, <1>3
<1>5. ASSUME NEW k \in 1 .. Len(d)
      PROVE  (b \o d)[Len(b) + k] = d[k]
  <2>1. Len(b) + k \in 1 .. Len(b) + Len(d) /\ ~ (Len(b) + k <= Len(b))
        /\ (Len(b) + k) - Len(b) = k
    BY <1>1
  <2> QED BY <2>1, <1>3
<1> QED BY <1>2, <1>3, <1>4, <1>5

LEMMA WrittenOver ==
  ASSUME NEW b \in Seq(Byte), NEW d \in Seq(Byte), Len(b) + Len(d) > BufferSize
  PROVE  Written(b, d) = b
BY DEF Written

LEMMA WrittenType ==
  ASSUME NEW b \in Seq(Byte), NEW d \in Seq(Byte), Len(b) <= BufferSize
  PROVE  Written(b, d) \in Seq(Byte) /\ Len(Written(b, d)) <= BufferSize
         /\ Len(Written(b, d)) <= Len(b) + Len(d)
<1>1. Len(b) \in Nat /\ Len(d) \in Nat /\ BufferSize \in Nat
  BY LenProperties, WireBounds
<1>2. CASE Len(b) + Len(d) <= BufferSize
  <2>1. Written(b, d) = b \o d /\ b \o d \in Seq(Byte) /\ Len(b \o d) = Len(b) + Len(d)
    BY <1>2, WrittenFits
  <2> QED BY <2>1, <1>1, <1>2
<1>3. CASE Len(b) + Len(d) > BufferSize
  BY <1>1, <1>3, WrittenOver
<1> QED BY <1>1, <1>2, <1>3

(* A Read takes from the front, and what is left keeps its order.          *)
LEMMA ReadWithin ==
  ASSUME NEW b \in Seq(Byte), NEW size \in 0 .. Len(b), NEW old
  PROVE  /\ ReadFrom(b, size, old) \in Seq(Byte) /\ Len(ReadFrom(b, size, old)) = size
         /\ \A k \in 1 .. size : ReadFrom(b, size, old)[k] = b[k]
<1>1. Len(b) \in Nat /\ \A k \in 1 .. Len(b) : b[k] \in Byte
  BY LenProperties, ElementOfSeq
<1>2. /\ SubSeq(b, 1, size) \in Seq(Byte)
      /\ Len(SubSeq(b, 1, size)) = IF 1 <= size THEN size - 1 + 1 ELSE 0
      /\ \A k \in 1 .. size - 1 + 1 : SubSeq(b, 1, size)[k] = b[1 + k - 1]
  <2>1. \A k \in 1 .. size : b[k] \in Byte
    BY <1>1
  <2> QED BY <2>1, <1>1, SubSeqProperties
<1>3. ReadFrom(b, size, old) = SubSeq(b, 1, size)
  BY <1>1 DEF ReadFrom
<1>4. \A k \in 1 .. size : SubSeq(b, 1, size)[k] = b[k]
  BY <1>1, <1>2
<1>5. Len(SubSeq(b, 1, size)) = size
  BY <1>1, <1>2
<1> QED BY <1>2, <1>3, <1>4, <1>5

LEMMA LeftWithin ==
  ASSUME NEW b \in Seq(Byte), NEW size \in 0 .. Len(b)
  PROVE  /\ LeftIn(b, size) \in Seq(Byte) /\ Len(LeftIn(b, size)) = Len(b) - size
         /\ \A k \in 1 .. Len(b) - size : LeftIn(b, size)[k] = b[size + k]
<1>1. Len(b) \in Nat /\ \A k \in 1 .. Len(b) : b[k] \in Byte
  BY LenProperties, ElementOfSeq
<1>2. /\ SubSeq(b, size + 1, Len(b)) \in Seq(Byte)
      /\ Len(SubSeq(b, size + 1, Len(b)))
           = IF size + 1 <= Len(b) THEN Len(b) - (size + 1) + 1 ELSE 0
      /\ \A k \in 1 .. Len(b) - (size + 1) + 1 :
           SubSeq(b, size + 1, Len(b))[k] = b[size + 1 + k - 1]
  <2>1. \A k \in size + 1 .. Len(b) : b[k] \in Byte
    BY <1>1
  <2>2. size + 1 \in Int /\ Len(b) \in Int
    BY <1>1
  <2> HIDE DEF Byte
  <2> QED BY <2>1, <2>2, SubSeqProperties
<1>3. LeftIn(b, size) = SubSeq(b, size + 1, Len(b))
  BY <1>1 DEF LeftIn
<1>4. \A k \in 1 .. Len(b) - size : SubSeq(b, size + 1, Len(b))[k] = b[size + k]
  <2> SUFFICES ASSUME NEW k \in 1 .. Len(b) - size
               PROVE  SubSeq(b, size + 1, Len(b))[k] = b[size + k]
    OBVIOUS
  <2>1. k \in 1 .. Len(b) - (size + 1) + 1 /\ size + 1 + k - 1 = size + k
    BY <1>1
  <2> QED BY <2>1, <1>2
<1>5. Len(SubSeq(b, size + 1, Len(b))) = Len(b) - size
  BY <1>1, <1>2
<1> QED BY <1>2, <1>3, <1>4, <1>5

LEMMA UninitialisedType == Uninitialised \in Seq(Byte)
BY DEF Uninitialised, Byte, Part

LEMMA ReadType ==
  ASSUME NEW b \in Seq(Byte), NEW size \in Nat, NEW old \in Seq(Byte)
  PROVE  /\ ReadFrom(b, size, old) \in Seq(Byte)
         /\ LeftIn(b, size) \in Seq(Byte) /\ Len(LeftIn(b, size)) <= Len(b)
<1>1. Len(b) \in Nat
  BY LenProperties
<1>2. CASE size <= Len(b)
  BY <1>1, <1>2, ReadWithin, LeftWithin
<1>3. CASE size > Len(b)
  BY <1>1, <1>3 DEF ReadFrom, LeftIn
<1> QED BY <1>1, <1>2, <1>3

-----------------------------------------------------------------------------
(* Serialize.                                                              *)

LEMMA MessageType ==
  ASSUME WireTypeOK
  PROVE  /\ Len(message) \in {1, 2, 4} /\ DOMAIN message = 1 .. Len(message)
         /\ \A i \in 1 .. Len(message) : message[i] \in Nat
<1>1. message \in Seq(TextLengths) /\ Len(message) \in {1, 2, 4}
  BY DEF WireTypeOK, Kind
<1>2. DOMAIN message = 1 .. Len(message)
      /\ \A i \in 1 .. Len(message) : message[i] \in TextLengths
  BY <1>1, LenProperties, ElementOfSeq
<1> QED BY <1>1, <1>2, WireBounds

(* c is b and some bytes of text n + 1 and its length behind it.           *)
Extends(b, c, n) ==
  /\ c \in Seq(Byte) /\ Len(b) <= Len(c) /\ Len(c) <= BufferSize
  /\ \A p \in 1 .. Len(b) : c[p] = b[p]
  /\ \A p \in Len(b) + 1 .. Len(c) :
       \E k \in Nat : c[p] = <<"length", n + 1, k>> \/ c[p] = <<"text", n + 1, k>>

(* The texts that are there stay where they are.                           *)
LEMMA ExtendsKeeps ==
  ASSUME WireTypeOK, NEW b, NEW n \in 0 .. 3, n < Len(message), Layout(message, b, n),
         NEW c, Extends(b, c, n), NEW i \in 1 .. n
  PROVE  /\ HasLength(c, i) <=> HasLength(b, i)
         /\ HasText(c, i) <=> HasText(b, i)
         /\ \A p \in Nat : LengthAt(c, i, p) <=> LengthAt(b, i, p)
         /\ \A p \in Nat : TextAt(message, b, i, p) => TextAt(message, c, i, p)
<1>1. Len(b) \in Nat /\ Len(c) \in Nat /\ Len(b) <= Len(c)
      /\ \A p \in 1 .. Len(b) : c[p] = b[p]
  BY LenProperties DEF Layout, Extends
<1>2. ASSUME NEW p \in Len(b) + 1 .. Len(c), NEW k
      PROVE  c[p] # <<"length", i, k>> /\ c[p] # <<"text", i, k>>
  <2>1. PICK j \in Nat : c[p] = <<"length", n + 1, j>> \/ c[p] = <<"text", n + 1, j>>
    BY DEF Extends
  <2>2. i # n + 1
    OBVIOUS
  <2> QED BY <2>1, <2>2
<1>3. \A p \in 1 .. Len(c) : \A k :
        c[p] = <<"length", i, k>> \/ c[p] = <<"text", i, k>> =>
          p \in 1 .. Len(b) /\ b[p] = c[p]
  <2> SUFFICES ASSUME NEW p \in 1 .. Len(c), NEW k,
                      c[p] = <<"length", i, k>> \/ c[p] = <<"text", i, k>>
               PROVE  p \in 1 .. Len(b) /\ b[p] = c[p]
    OBVIOUS
  <2>1. p \notin Len(b) + 1 .. Len(c)
    BY <1>2
  <2> QED BY <2>1, <1>1
<1>4. HasLength(c, i) <=> HasLength(b, i)
  <2>1. HasLength(c, i) => HasLength(b, i)
    BY <1>3 DEF HasLength
  <2>2. ASSUME HasLength(b, i) PROVE HasLength(c, i)
    <3>1. PICK p \in 1 .. Len(b) : b[p] = <<"length", i, 1>>
      BY <2>2 DEF HasLength
    <3>2. p \in 1 .. Len(c) /\ c[p] = b[p]
      BY <1>1
    <3> QED BY <3>1, <3>2 DEF HasLength
  <2> QED BY <2>1, <2>2
<1>5. HasText(c, i) <=> HasText(b, i)
  <2>1. HasText(c, i) => HasText(b, i)
    BY <1>3 DEF HasText
  <2>2. ASSUME HasText(b, i) PROVE HasText(c, i)
    <3>1. PICK p \in 1 .. Len(b), k \in Nat \ {0} : b[p] = <<"text", i, k>>
      BY <2>2 DEF HasText
    <3>2. p \in 1 .. Len(c) /\ c[p] = b[p]
      BY <1>1
    <3> QED BY <3>1, <3>2 DEF HasText
  <2> QED BY <2>1, <2>2
<1>6. ASSUME NEW p \in Nat
      PROVE  LengthAt(c, i, p) <=> LengthAt(b, i, p)
  <2>1. ASSUME LengthAt(c, i, p) PROVE LengthAt(b, i, p)
    <3>1. /\ p + 1 \in 1 .. Len(c) /\ c[p + 1] = <<"length", i, 1>>
          /\ p + 2 \in 1 .. Len(c) /\ c[p + 2] = <<"length", i, 2>>
      BY <2>1, <1>1 DEF LengthAt
    <3>2. p + 2 \in 1 .. Len(b) /\ b[p + 1] = c[p + 1] /\ b[p + 2] = c[p + 2]
      BY <3>1, <1>3
    <3> QED BY <3>1, <3>2, <1>1 DEF LengthAt
  <2>2. ASSUME LengthAt(b, i, p) PROVE LengthAt(c, i, p)
    <3>1. p + 1 \in 1 .. Len(b) /\ p + 2 \in 1 .. Len(b)
      BY <2>2, <1>1 DEF LengthAt
    <3> QED BY <3>1, <2>2, <1>1 DEF LengthAt
  <2> QED BY <2>1, <2>2
<1>7. message[i] \in Nat
  BY MessageType
<1>8. ASSUME NEW p \in Nat, TextAt(message, b, i, p)
      PROVE  TextAt(message, c, i, p)
  <2>1. p + message[i] <= Len(c)
    BY <1>1, <1>7, <1>8 DEF TextAt
  <2>2. ASSUME NEW k \in 1 .. message[i]
        PROVE  c[p + k] = <<"text", i, k>>
    <3>1. p + k \in 1 .. Len(b)
      <4>1. p + message[i] <= Len(b)
        BY <1>8 DEF TextAt
      <4>2. Len(b) \in Nat
        BY <1>1
      <4> QED BY <4>1, <4>2, <1>7
    <3> QED BY <3>1, <1>1, <1>8 DEF TextAt
  <2> QED BY <2>1, <2>2 DEF TextAt
<1> QED BY <1>4, <1>5, <1>6, <1>8

(* It is a layout of one more text if that is where it should be.          *)
LEMMA ExtendsLayout ==
  ASSUME WireTypeOK, NEW b, NEW n \in 0 .. 3, n < Len(message), Layout(message, b, n),
         NEW c, Extends(b, c, n),
         HasLength(c, n + 1) =>
           /\ LengthAt(c, n + 1, Len(b))
           /\ Whole(message, c, n + 1, n + 1, Len(b)) \/ Dropped(message, c, n + 1, n + 1, Len(b)),
         \A p \in Nat : LengthAt(c, n + 1, p) => p = Len(b),
         ~ HasLength(c, n + 1) => Len(c) + 2 > BufferSize
  PROVE  Layout(message, c, n + 1)
<1>1. Len(b) \in Nat /\ Len(c) \in Nat /\ Len(b) <= Len(c)
      /\ \A p \in 1 .. Len(b) : c[p] = b[p]
  BY LenProperties DEF Layout, Extends
<1>2. c \in Seq(Byte) /\ Len(c) \in 5 .. BufferSize
  BY <1>1, WireBounds DEF Layout, Extends
<1>3. c[1] = <<"type", 0, 1>>
  BY <1>1 DEF Layout
<1>4. OnlyTexts(c, n + 1)
  <2> SUFFICES ASSUME NEW p \in 1 .. Len(c), NEW i \in Nat, NEW k \in Nat,
                      c[p] = <<"length", i, k>> \/ c[p] = <<"text", i, k>>
               PROVE  i \in 1 .. n + 1
    BY DEF OnlyTexts
  <2>1. CASE p <= Len(b)
    <3>1. p \in 1 .. Len(b) /\ b[p] = c[p]
      BY <2>1, <1>1
    <3>2. i \in 1 .. n
      BY <3>1 DEF Layout, OnlyTexts
    <3> QED BY <3>2
  <2>2. CASE p > Len(b)
    <3>1. p \in Len(b) + 1 .. Len(c)
      BY <2>2, <1>1
    <3>2. i = n + 1
      BY <3>1 DEF Extends
    <3> QED BY <3>2
  <2> QED BY <2>1, <2>2, <1>1
<1>5. \A i \in 1 .. n : HasLength(c, i) <=> HasLength(b, i)
  BY ExtendsKeeps
<1>6. HasLength(c, n + 1) /\ n > 0 => HasLength(b, n)
  <2> SUFFICES ASSUME HasLength(c, n + 1), n > 0, ~ HasLength(b, n)
               PROVE  FALSE
    OBVIOUS
  <2>1. Len(b) + 2 <= BufferSize
    BY <1>1, <1>2, WireBounds DEF LengthAt
  <2>2. Len(b) + 2 > BufferSize
    BY DEF Layout, LengthsEnd
  <2> QED BY <2>1, <2>2, <1>1, WireBounds
<1>7. LengthsEnd(c, n + 1)
  <2>1. ASSUME NEW i \in 1 .. n + 1, NEW j \in 1 .. n + 1, i <= j, HasLength(c, j)
        PROVE  HasLength(c, i)
    <3>1. CASE j \in 1 .. n
      <4>1. i \in 1 .. n /\ HasLength(b, j)
        BY <3>1, <2>1, <1>5
      <4> QED BY <4>1, <3>1, <2>1, <1>5 DEF Layout, LengthsEnd
    <3>2. CASE j = n + 1 /\ i \in 1 .. n
      <4>1. HasLength(b, n) /\ n \in 1 .. n
        BY <3>2, <2>1, <1>6
      <4> QED BY <4>1, <3>2, <1>5 DEF Layout, LengthsEnd
    <3>3. CASE j = n + 1 /\ i = n + 1
      BY <3>3, <2>1
    <3> QED BY <3>1, <3>2, <3>3
  <2> QED BY <2>1 DEF LengthsEnd
<1>8. ASSUME NEW i \in 0 .. n, NEW q \in Nat, Followed(b, n, i, q)
      PROVE  Followed(c, n + 1, i, q)
  <2>1. q <= Len(c)
    BY <1>1, <1>8 DEF Followed
  <2>2. HasLength(c, i + 1) => LengthAt(c, i + 1, q)
    <3>1. CASE i = n
      BY <3>1, <1>8 DEF Followed
    <3>2. CASE i < n
      <4>1. i + 1 \in 1 .. n
        BY <3>2
      <4> QED BY <4>1, <3>2, <1>8, ExtendsKeeps DEF Followed
    <3> QED BY <3>1, <3>2
  <2> QED BY <2>1, <2>2 DEF Followed
<1>9. \A i \in 1 .. n + 1 : HasLength(c, i) => \E p \in Nat : LengthAt(c, i, p)
  <2>1. ASSUME NEW i \in 1 .. n, HasLength(c, i)
        PROVE  \E p \in Nat : LengthAt(c, i, p)
    BY <2>1, <1>5, ExtendsKeeps DEF Layout
  <2>2. HasLength(c, n + 1) => \E p \in Nat : LengthAt(c, n + 1, p)
    BY <1>1
  <2> QED BY <2>1, <2>2
<1>10. ASSUME NEW i \in 1 .. n + 1, NEW p \in Nat, LengthAt(c, i, p)
       PROVE  Whole(message, c, n + 1, i, p) \/ Dropped(message, c, n + 1, i, p)
  <2>1. CASE i = n + 1
    <3>1. p = Len(b)
      BY <2>1, <1>10
    <3>2. HasLength(c, n + 1)
      <4>1. p + 1 \in 1 .. Len(c) /\ c[p + 1] = <<"length", n + 1, 1>>
        BY <2>1, <1>1, <1>10 DEF LengthAt
      <4> QED BY <4>1 DEF HasLength
    <3> QED BY <3>1, <3>2, <2>1
  <2>2. CASE i \in 1 .. n
    <3>1. LengthAt(b, i, p)
      BY <2>2, <1>10, ExtendsKeeps
    <3>2. message[i] \in Nat
      BY <2>2, MessageType
    <3>3. CASE Whole(message, b, n, i, p)
      <4>1. TextAt(message, c, i, p + 2)
        BY <3>3, <2>2, ExtendsKeeps DEF Whole
      <4>2. Followed(c, n + 1, i, p + 2 + message[i])
        BY <3>2, <3>3, <2>2, <1>8 DEF Whole
      <4> QED BY <4>1, <4>2 DEF Whole
    <3>4. CASE Dropped(message, b, n, i, p)
      <4>1. ~ HasText(c, i)
        BY <3>4, <2>2, ExtendsKeeps DEF Dropped
      <4>2. Followed(c, n + 1, i, p + 2)
        BY <3>4, <2>2, <1>8 DEF Dropped
      <4> QED BY <4>1, <4>2, <3>4 DEF Dropped
    <3> QED BY <3>1, <3>3, <3>4, <2>2 DEF Layout
  <2> QED BY <2>1, <2>2
<1>11. Followed(c, n + 1, 0, 5)
  BY <1>8 DEF Layout
<1> QED BY <1>2, <1>3, <1>4, <1>7, <1>9, <1>10, <1>11 DEF Layout

(* Text n + 1 goes behind its length, each if it fits.                     *)
LEMMA WithTextKeepsLayout ==
  ASSUME WireTypeOK, NEW n \in 0 .. 3, n < Len(message), NEW b, Layout(message, b, n)
  PROVE  Layout(message, WithText(b, n + 1), n + 1)
<1> DEFINE m == message[n + 1]
           L == Bytes("length", n + 1, 2)
           T == Bytes("text", n + 1, m)
           c == WithText(b, n + 1)
<1>1. /\ n + 1 \in 1 .. 4 /\ m \in Nat
      /\ c = Written(Written(b, L), T)
  BY MessageType DEF WithText
<1>2. /\ L \in Seq(Byte) /\ Len(L) = 2
      /\ L[1] = <<"length", n + 1, 1>> /\ L[2] = <<"length", n + 1, 2>>
  <2>1. n + 1 \in 0 .. 4 /\ 2 \in Nat /\ "length" \in Part
    BY DEF Part
  <2> HIDE DEF L
  <2>2. /\ L \in Seq(Byte) /\ Len(L) = 2
        /\ \A k \in 1 .. 2 : L[k] = <<"length", n + 1, k>>
    BY <2>1, BytesAre DEF L
  <2> QED BY <2>2
<1>3. /\ T \in Seq(Byte) /\ Len(T) = m
      /\ \A k \in 1 .. m : T[k] = <<"text", n + 1, k>>
  <2>1. n + 1 \in 0 .. 4 /\ "text" \in Part
    BY DEF Part
  <2> QED BY <2>1, <1>1, BytesAre
<1>4. b \in Seq(Byte) /\ Len(b) \in Nat /\ 5 <= Len(b) /\ Len(b) <= BufferSize
      /\ BufferSize \in Nat
  BY LenProperties, WireBounds DEF Layout
<1>5. \A p \in 1 .. Len(b), k \in Nat :
        b[p] # <<"length", n + 1, k>> /\ b[p] # <<"text", n + 1, k>>
  BY DEF Layout, OnlyTexts
<1> HIDE DEF m, L, T, c
<1>6. CASE Len(b) + 2 <= BufferSize /\ Len(b) + 2 + m <= BufferSize
  <2> DEFINE bL == b \o L
  <2>1. /\ Written(b, L) = bL /\ bL \in Seq(Byte) /\ Len(bL) = Len(b) + 2
        /\ \A k \in 1 .. Len(b) : bL[k] = b[k]
        /\ \A k \in 1 .. 2 : bL[Len(b) + k] = L[k]
    <3>1. Len(b) + Len(L) <= BufferSize
      BY <1>2, <1>6
    <3>2. /\ Written(b, L) = b \o L /\ b \o L \in Seq(Byte)
          /\ Len(b \o L) = Len(b) + Len(L)
          /\ \A k \in 1 .. Len(b) : (b \o L)[k] = b[k]
          /\ \A k \in 1 .. Len(L) : (b \o L)[Len(b) + k] = L[k]
      BY <3>1, <1>2, <1>4, WrittenFits
    <3> QED BY <3>2, <1>2
  <2> HIDE DEF bL
  <2>2. /\ c = bL \o T /\ c \in Seq(Byte) /\ Len(c) = Len(b) + 2 + m
        /\ \A k \in 1 .. Len(b) + 2 : c[k] = bL[k]
        /\ \A k \in 1 .. m : c[Len(b) + 2 + k] = T[k]
    <3>1. Len(bL) + Len(T) <= BufferSize
      BY <1>3, <1>6, <2>1
    <3>2. /\ Written(bL, T) = bL \o T /\ bL \o T \in Seq(Byte)
          /\ Len(bL \o T) = Len(bL) + Len(T)
          /\ \A k \in 1 .. Len(bL) : (bL \o T)[k] = bL[k]
          /\ \A k \in 1 .. Len(T) : (bL \o T)[Len(bL) + k] = T[k]
      BY <3>1, <1>3, <2>1, WrittenFits
    <3>3. c = bL \o T
      BY <3>2, <2>1, <1>1
    <3> QED BY <3>2, <3>3, <2>1, <1>3
  <2>3. /\ \A k \in 1 .. Len(b) : c[k] = b[k]
        /\ c[Len(b) + 1] = <<"length", n + 1, 1>>
        /\ c[Len(b) + 2] = <<"length", n + 1, 2>>
    <3>1. \A k \in 1 .. Len(b) : c[k] = b[k]
      BY <2>1, <2>2, <1>4
    <3>2. c[Len(b) + 1] = bL[Len(b) + 1] /\ c[Len(b) + 2] = bL[Len(b) + 2]
      <4>1. Len(b) + 1 \in 1 .. Len(b) + 2 /\ Len(b) + 2 \in 1 .. Len(b) + 2
        BY <1>4
      <4> QED BY <4>1, <2>2
    <3>3. bL[Len(b) + 1] = L[1] /\ bL[Len(b) + 2] = L[2]
      BY <2>1
    <3> QED BY <3>1, <3>2, <3>3, <1>2
  <2>4. \A p \in Len(b) + 3 .. Len(c) : c[p] = <<"text", n + 1, p - (Len(b) + 2)>>
    <3> SUFFICES ASSUME NEW p \in Len(b) + 3 .. Len(c)
                 PROVE  c[p] = <<"text", n + 1, p - (Len(b) + 2)>>
      OBVIOUS
    <3>1. p - (Len(b) + 2) \in 1 .. m /\ Len(b) + 2 + (p - (Len(b) + 2)) = p
      BY <2>2, <1>1, <1>4
    <3> QED BY <3>1, <2>2, <1>3
  <2>5. Extends(b, c, n)
    <3>1. ASSUME NEW p \in Len(b) + 1 .. Len(c)
          PROVE  \E k \in Nat : c[p] = <<"length", n + 1, k>> \/ c[p] = <<"text", n + 1, k>>
      <4>1. CASE p = Len(b) + 1
        BY <4>1, <2>3
      <4>2. CASE p = Len(b) + 2
        BY <4>2, <2>3
      <4>3. CASE p >= Len(b) + 3
        <5>1. p - (Len(b) + 2) \in Nat /\ p \in Len(b) + 3 .. Len(c)
          BY <4>3, <1>4, <2>2, <1>1
        <5> QED BY <5>1, <2>4
      <4>4. Len(b) \in Nat /\ Len(c) \in Nat
        BY <1>4, <2>2, <1>1
      <4>5. p = Len(b) + 1 \/ p = Len(b) + 2 \/ p >= Len(b) + 3
        BY ONLY <4>4, p \in Len(b) + 1 .. Len(c)
      <4> QED BY <4>1, <4>2, <4>3, <4>5
    <3>2. Len(b) <= Len(c) /\ Len(c) <= BufferSize
      BY <2>2, <1>1, <1>4, <1>6
    <3> QED BY <3>1, <3>2, <2>2, <2>3 DEF Extends
  <2>6. LengthAt(c, n + 1, Len(b))
    BY <2>2, <2>3, <1>1, <1>4 DEF LengthAt
  <2>7. TextAt(message, c, n + 1, Len(b) + 2)
    <3>1. Len(b) + 2 + m <= Len(c)
      BY <2>2, <1>1, <1>4
    <3>2. \A k \in 1 .. m : c[Len(b) + 2 + k] = <<"text", n + 1, k>>
      BY <2>2, <1>3
    <3> QED BY <3>1, <3>2 DEF TextAt, m
  <2>8. Followed(c, n + 1, n + 1, Len(b) + 2 + m)
    BY <2>2, <1>1, <1>4 DEF Followed
  <2>9. Whole(message, c, n + 1, n + 1, Len(b))
    BY <2>7, <2>8 DEF Whole, m
  <2>10. ASSUME NEW p \in Nat, LengthAt(c, n + 1, p)
         PROVE  p = Len(b)
    <3>1. p + 1 <= Len(c) /\ c[p + 1] = <<"length", n + 1, 1>>
      BY <2>10, <2>2, <1>4, <1>1 DEF LengthAt
    <3>2. p + 1 \notin 1 .. Len(b)
      BY <3>1, <2>3, <1>5
    <3>3. p + 1 # Len(b) + 2
      BY <3>1, <2>3
    <3>4. p + 1 \notin Len(b) + 3 .. Len(c)
      BY <3>1, <2>4
    <3> QED BY <3>1, <3>2, <3>3, <3>4, <1>4, <2>2, <1>1
  <2>11. HasLength(c, n + 1)
    <3>1. Len(b) + 1 \in 1 .. Len(c)
      BY <2>2, <1>1, <1>4
    <3> QED BY <3>1, <2>3 DEF HasLength
  <2> QED BY <2>5, <2>6, <2>9, <2>10, <2>11, ExtendsLayout DEF c
<1>7. CASE Len(b) + 2 <= BufferSize /\ Len(b) + 2 + m > BufferSize
  <2>1. /\ Written(b, L) = b \o L /\ b \o L \in Seq(Byte) /\ Len(b \o L) = Len(b) + 2
        /\ \A k \in 1 .. Len(b) : (b \o L)[k] = b[k]
        /\ \A k \in 1 .. 2 : (b \o L)[Len(b) + k] = L[k]
    <3>1. Len(b) + Len(L) <= BufferSize
      BY <1>2, <1>7
    <3>2. /\ Written(b, L) = b \o L /\ b \o L \in Seq(Byte)
          /\ Len(b \o L) = Len(b) + Len(L)
          /\ \A k \in 1 .. Len(b) : (b \o L)[k] = b[k]
          /\ \A k \in 1 .. Len(L) : (b \o L)[Len(b) + k] = L[k]
      BY <3>1, <1>2, <1>4, WrittenFits
    <3> QED BY <3>2, <1>2
  <2>2. c = b \o L
    BY <1>1, <1>3, <1>7, <2>1, WrittenOver
  <2>3. /\ c \in Seq(Byte) /\ Len(c) = Len(b) + 2
        /\ \A k \in 1 .. Len(b) : c[k] = b[k]
        /\ c[Len(b) + 1] = <<"length", n + 1, 1>>
        /\ c[Len(b) + 2] = <<"length", n + 1, 2>>
    BY <2>1, <2>2, <1>2, <1>4
  <2>4. Extends(b, c, n)
    <3>1. ASSUME NEW p \in Len(b) + 1 .. Len(c)
          PROVE  \E k \in Nat : c[p] = <<"length", n + 1, k>> \/ c[p] = <<"text", n + 1, k>>
      <4>1. p = Len(b) + 1 \/ p = Len(b) + 2
        BY <1>4, <2>3
      <4> QED BY <4>1, <2>3
    <3>2. Len(b) <= Len(c) /\ Len(c) <= BufferSize
      BY <1>4, <1>7, <2>3
    <3> QED BY <3>1, <3>2, <2>3 DEF Extends
  <2>5. LengthAt(c, n + 1, Len(b))
    BY <2>3, <1>4 DEF LengthAt
  <2>6. ~ HasText(c, n + 1)
    <3> SUFFICES ASSUME NEW p \in 1 .. Len(c), NEW k \in Nat \ {0},
                        c[p] = <<"text", n + 1, k>>
                 PROVE  FALSE
      BY DEF HasText
    <3>1. p \notin 1 .. Len(b)
      BY <2>3, <1>5
    <3>2. p = Len(b) + 1 \/ p = Len(b) + 2
      BY <3>1, <2>3, <1>4
    <3> QED BY <3>2, <2>3
  <2>7. Dropped(message, c, n + 1, n + 1, Len(b))
    BY <2>3, <2>6, <1>4, <1>7, <1>1 DEF Dropped, Followed, m
  <2>8. ASSUME NEW p \in Nat, LengthAt(c, n + 1, p)
        PROVE  p = Len(b)
    <3>1. p + 1 <= Len(c) /\ c[p + 1] = <<"length", n + 1, 1>>
      BY <2>8, <2>3, <1>4 DEF LengthAt
    <3>2. p + 1 \notin 1 .. Len(b) /\ p + 1 # Len(b) + 2
      BY <3>1, <2>3, <1>5
    <3> QED BY <3>1, <3>2, <1>4, <2>3
  <2>9. HasLength(c, n + 1)
    <3>1. Len(b) + 1 \in 1 .. Len(c)
      BY <2>3, <1>4
    <3> QED BY <3>1, <2>3 DEF HasLength
  <2> QED BY <2>4, <2>5, <2>7, <2>8, <2>9, ExtendsLayout DEF c
<1>8. CASE Len(b) + 2 > BufferSize
  <2>1. c = Written(b, T)
    BY <1>1, <1>2, <1>4, <1>8, WrittenOver
  <2>2. /\ c \in Seq(Byte) /\ Len(b) <= Len(c) /\ Len(c) <= BufferSize /\ Len(c) \in Nat
        /\ \A k \in 1 .. Len(b) : c[k] = b[k]
        /\ \A p \in Len(b) + 1 .. Len(c) : \E k \in Nat : c[p] = <<"text", n + 1, k>>
    <3>1. CASE Len(b) + m > BufferSize
      <4>1. c = b
        BY <3>1, <2>1, <1>3, <1>4, WrittenOver
      <4> QED BY <4>1, <1>4
    <3>2. CASE Len(b) + m <= BufferSize
      <4>1. /\ c = b \o T /\ c \in Seq(Byte) /\ Len(c) = Len(b) + m
            /\ \A k \in 1 .. Len(b) : c[k] = b[k]
            /\ \A k \in 1 .. m : c[Len(b) + k] = T[k]
        <5>1. Len(b) + Len(T) <= BufferSize
          BY <1>3, <3>2
        <5>2. /\ Written(b, T) = b \o T /\ b \o T \in Seq(Byte)
              /\ Len(b \o T) = Len(b) + Len(T)
              /\ \A k \in 1 .. Len(b) : (b \o T)[k] = b[k]
              /\ \A k \in 1 .. Len(T) : (b \o T)[Len(b) + k] = T[k]
          BY <5>1, <1>3, <1>4, WrittenFits
        <5> QED BY <5>2, <2>1, <1>3
      <4>2. ASSUME NEW p \in Len(b) + 1 .. Len(c)
            PROVE  \E k \in Nat : c[p] = <<"text", n + 1, k>>
        <5>1. p - Len(b) \in 1 .. m /\ Len(b) + (p - Len(b)) = p
          BY <4>1, <1>1, <1>4
        <5>2. c[p] = <<"text", n + 1, p - Len(b)>>
          BY <5>1, <4>1, <1>3
        <5> QED BY <5>1, <5>2
      <4> QED BY <4>1, <4>2, <3>2, <1>1, <1>4
    <3>3. Len(b) + m \in Nat /\ BufferSize \in Nat
      BY <1>1, <1>4
    <3>4. CASE Len(b) + m \notin 0 .. BufferSize
      BY <3>1, <3>3, <3>4
    <3>5. CASE Len(b) + m \in 0 .. BufferSize
      BY <3>2, <3>3, <3>5
    <3> QED BY <3>4, <3>5
  <2>3. Extends(b, c, n)
    BY <2>2 DEF Extends
  <2>4. ~ HasLength(c, n + 1)
    <3> SUFFICES ASSUME NEW p \in 1 .. Len(c), c[p] = <<"length", n + 1, 1>>
                 PROVE  FALSE
      BY DEF HasLength
    <3>1. p \notin 1 .. Len(b)
      BY <2>2, <1>5
    <3>2. p \in Len(b) + 1 .. Len(c)
      BY <3>1, <2>2, <1>4
    <3> QED BY <3>2, <2>2
  <2>5. \A p \in Nat : ~ LengthAt(c, n + 1, p)
    <3> SUFFICES ASSUME NEW p \in Nat, LengthAt(c, n + 1, p)
                 PROVE  FALSE
      OBVIOUS
    <3>1. p + 1 \in 1 .. Len(c) /\ c[p + 1] = <<"length", n + 1, 1>>
      BY <2>2 DEF LengthAt
    <3> QED BY <3>1, <2>4 DEF HasLength
  <2>6. Len(c) + 2 > BufferSize
    BY <2>2, <1>4, <1>8
  <2> QED BY <2>3, <2>4, <2>5, <2>6, ExtendsLayout DEF c
<1> QED BY <1>1, <1>4, <1>6, <1>7, <1>8

(* Before the first text there is the header.                              *)
LEMMA HeaderLayout == Layout(message, Header, 0) /\ Len(Header) = 5
<1> DEFINE A == Bytes("type", 0, 1)
           B == Bytes("transaction", 0, 4)
<1>1. /\ A \in Seq(Byte) /\ Len(A) = 1 /\ A[1] = <<"type", 0, 1>>
      /\ B \in Seq(Byte) /\ Len(B) = 4
      /\ \A k \in 1 .. 4 : B[k] = <<"transaction", 0, k>>
  <2>1. "type" \in Part /\ "transaction" \in Part /\ 0 \in 0 .. 4 /\ 1 \in Nat /\ 4 \in Nat
    BY DEF Part
  <2>2. /\ A \in Seq(Byte) /\ Len(A) = 1 /\ \A k \in 1 .. 1 : A[k] = <<"type", 0, k>>
    BY <2>1, BytesAre
  <2>3. /\ B \in Seq(Byte) /\ Len(B) = 4
        /\ \A k \in 1 .. 4 : B[k] = <<"transaction", 0, k>>
    BY <2>1, BytesAre
  <2> QED BY <2>2, <2>3
<1> HIDE DEF A, B
<1>2. Written(<< >>, A) = A
  <2>1. << >> \in Seq(Byte) /\ Len(<< >>) = 0
    BY EmptySeq
  <2>2. Written(<< >>, A) = << >> \o A
    <3>1. Len(<< >>) + Len(A) <= BufferSize
      BY <2>1, <1>1, WireBounds
    <3> QED BY <3>1, <2>1, <1>1, WrittenFits
  <2> QED BY <2>2, <1>1, ConcatEmptySeq
<1>3. /\ Header = A \o B /\ Header \in Seq(Byte) /\ Len(Header) = 5
      /\ \A k \in 1 .. 1 : Header[k] = A[k]
      /\ \A k \in 1 .. 4 : Header[1 + k] = B[k]
  <2>1. Header = Written(A, B)
    BY <1>2 DEF Header, A, B
  <2>2. Len(A) + Len(B) <= BufferSize
    BY <1>1, WireBounds
  <2>3. /\ Written(A, B) = A \o B /\ A \o B \in Seq(Byte)
        /\ Len(A \o B) = Len(A) + Len(B)
        /\ \A k \in 1 .. Len(A) : (A \o B)[k] = A[k]
        /\ \A k \in 1 .. Len(B) : (A \o B)[Len(A) + k] = B[k]
    BY <2>2, <1>1, WrittenFits
  <2> QED BY <2>1, <2>3, <1>1
<1>4. Header[1] = <<"type", 0, 1>>
  BY <1>1, <1>3
<1>5. \A p \in 2 .. 5 : Header[p] = <<"transaction", 0, p - 1>>
  <2> SUFFICES ASSUME NEW p \in 2 .. 5 PROVE Header[p] = <<"transaction", 0, p - 1>>
    OBVIOUS
  <2>1. p - 1 \in 1 .. 4 /\ 1 + (p - 1) = p
    OBVIOUS
  <2> QED BY <2>1, <1>1, <1>3
<1>6. \A p \in 1 .. 5 : \A i, k : Header[p] # <<"length", i, k>> /\ Header[p] # <<"text", i, k>>
  <2> SUFFICES ASSUME NEW p \in 1 .. 5, NEW i, NEW k
               PROVE  Header[p] # <<"length", i, k>> /\ Header[p] # <<"text", i, k>>
    OBVIOUS
  <2>1. CASE p = 1
    BY <2>1, <1>4
  <2>2. CASE p \in 2 .. 5
    BY <2>2, <1>5
  <2> QED BY <2>1, <2>2
<1>7. OnlyTexts(Header, 0)
  <2> SUFFICES ASSUME NEW p \in 1 .. Len(Header), NEW i \in Nat, NEW k \in Nat,
                      Header[p] = <<"length", i, k>> \/ Header[p] = <<"text", i, k>>
               PROVE  FALSE
    BY DEF OnlyTexts
  <2>1. p \in 1 .. 5
    BY <1>3
  <2>2. Header[p] # <<"length", i, k>> /\ Header[p] # <<"text", i, k>>
    BY <2>1, <1>6
  <2> QED BY <2>2
<1>8. LengthsEnd(Header, 0) /\ Followed(Header, 0, 0, 5)
  BY <1>3 DEF LengthsEnd, Followed
<1> QED BY <1>3, <1>4, <1>7, <1>8, WireBounds DEF Layout

(* The whole message.                                                      *)
LEMMA SerializedLayout ==
  ASSUME WireTypeOK
  PROVE  Layout(message, Serialized, Len(message))
<1>1. Len(message) \in {1, 2, 4} /\ DOMAIN message = 1 .. Len(message)
  BY MessageType
<1> DEFINE b1 == WithText(Header, 1)
           b2 == WithText(b1, 2)
           b3 == WithText(b2, 3)
           b4 == WithText(b3, 4)
<1>2. Serialized = b4
  BY DEF Serialized
<1> HIDE DEF b1, b2, b3, b4
<1>3. Layout(message, b1, 1)
  <2>1. 0 \in 0 .. 3 /\ 0 < Len(message) /\ 0 + 1 = 1
    BY <1>1
  <2> QED BY <2>1, HeaderLayout, WithTextKeepsLayout DEF b1
<1>4. CASE Len(message) = 1
  <2>1. \A b : WithText(b, 2) = b /\ WithText(b, 3) = b /\ WithText(b, 4) = b
    BY <1>1, <1>4 DEF WithText
  <2> QED BY <2>1, <1>2, <1>3, <1>4 DEF b2, b3, b4
<1>5. ASSUME Len(message) > 1
      PROVE  Layout(message, b2, 2)
  <2>1. 1 \in 0 .. 3 /\ 1 < Len(message) /\ 1 + 1 = 2
    BY <1>5
  <2> QED BY <2>1, <1>3, WithTextKeepsLayout DEF b2
<1>6. CASE Len(message) = 2
  <2>1. \A b : WithText(b, 3) = b /\ WithText(b, 4) = b
    BY <1>1, <1>6 DEF WithText
  <2> QED BY <2>1, <1>2, <1>5, <1>6 DEF b3, b4
<1>7. CASE Len(message) = 4
  <2>1. 2 \in 0 .. 3 /\ 2 < Len(message) /\ 2 + 1 = 3
    BY <1>7
  <2>2. Layout(message, b3, 3)
    BY <2>1, <1>5, <1>7, WithTextKeepsLayout DEF b3
  <2>3. 3 \in 0 .. 3 /\ 3 < Len(message) /\ 3 + 1 = 4
    BY <1>7
  <2>4. Layout(message, b4, 4)
    BY <2>2, <2>3, WithTextKeepsLayout DEF b4
  <2> QED BY <2>4, <1>2, <1>7
<1> QED BY <1>1, <1>4, <1>6, <1>7

LEMMA WithTextSize ==
  ASSUME WireTypeOK, NEW i \in 1 .. 4, NEW b \in Seq(Byte), Len(b) <= BufferSize
  PROVE  /\ WithText(b, i) \in Seq(Byte) /\ Len(WithText(b, i)) <= BufferSize
         /\ TextSize(i) \in Nat /\ Len(WithText(b, i)) \in Nat
         /\ IF i <= Len(message) THEN Len(WithText(b, i)) <= Len(b) + 2 + TextSize(i)
            ELSE Len(WithText(b, i)) = Len(b) /\ TextSize(i) = 0
<1>1. DOMAIN message = 1 .. Len(message) /\ Len(message) \in Nat
      /\ \A j \in 1 .. Len(message) : message[j] \in Nat
  BY MessageType
<1>2. Len(b) \in Nat
  BY LenProperties
<1>3. CASE i \notin DOMAIN message
  BY <1>1, <1>2, <1>3 DEF WithText, TextSize
<1>4. CASE i \in DOMAIN message
  <2> DEFINE L == Bytes("length", i, 2)
             T == Bytes("text", i, message[i])
             bL == Written(b, L)
  <2>1. message[i] \in Nat /\ TextSize(i) = message[i] /\ i <= Len(message)
    BY <1>1, <1>4 DEF TextSize
  <2>2. i \in 0 .. 4 /\ "length" \in Part /\ "text" \in Part /\ 2 \in Nat
    BY DEF Part
  <2>3. L \in Seq(Byte) /\ Len(L) = 2 /\ T \in Seq(Byte) /\ Len(T) = message[i]
    BY <2>1, <2>2, BytesAre
  <2>4. WithText(b, i) = Written(bL, T)
    BY <1>4 DEF WithText
  <2> HIDE DEF L, T, bL
  <2>5. bL \in Seq(Byte) /\ Len(bL) <= BufferSize /\ Len(bL) <= Len(b) + Len(L)
    BY <2>3, WrittenType DEF bL
  <2>6. /\ Written(bL, T) \in Seq(Byte) /\ Len(Written(bL, T)) <= BufferSize
        /\ Len(Written(bL, T)) <= Len(bL) + Len(T)
    BY <2>3, <2>5, WrittenType
  <2>7. Len(bL) \in Nat /\ Len(Written(bL, T)) \in Nat
    BY <2>5, <2>6, LenProperties
  <2> QED BY <2>1, <2>3, <2>4, <2>5, <2>6, <2>7, <1>2
<1> QED BY <1>3, <1>4

(* GetSerializedSize counts at least what Serialize writes.                *)
LEMMA SerializedFits ==
  ASSUME WireTypeOK
  PROVE  Serialized \in Seq(Byte) /\ Len(Serialized) <= GetSerializedSize
<1> DEFINE b1 == WithText(Header, 1)
           b2 == WithText(b1, 2)
           b3 == WithText(b2, 3)
           b4 == WithText(b3, 4)
<1>1. Len(message) \in {1, 2, 4}
  BY MessageType
<1>2. Serialized = b4
  BY DEF Serialized
<1>3. Header \in Seq(Byte) /\ Len(Header) = 5 /\ Len(Header) <= BufferSize
  BY HeaderLayout, WireBounds DEF Layout
<1> HIDE DEF b1, b2, b3, b4
<1>4. /\ b1 \in Seq(Byte) /\ Len(b1) <= BufferSize /\ TextSize(1) \in Nat /\ Len(b1) \in Nat
      /\ Len(b1) <= 7 + TextSize(1)
  <2>1. 1 \in 1 .. 4 /\ 1 <= Len(message)
    BY <1>1
  <2>2. /\ b1 \in Seq(Byte) /\ Len(b1) <= BufferSize /\ TextSize(1) \in Nat
        /\ Len(b1) \in Nat /\ Len(b1) <= Len(Header) + 2 + TextSize(1)
    BY <2>1, <1>3, WithTextSize DEF b1
  <2> QED BY <2>2, <1>3
<1>5. /\ b2 \in Seq(Byte) /\ Len(b2) <= BufferSize /\ TextSize(2) \in Nat /\ Len(b2) \in Nat
      /\ IF 2 <= Len(message) THEN Len(b2) <= Len(b1) + 2 + TextSize(2)
         ELSE Len(b2) = Len(b1) /\ TextSize(2) = 0
  <2>1. 2 \in 1 .. 4
    OBVIOUS
  <2> QED BY <2>1, <1>4, WithTextSize DEF b2
<1>6. /\ b3 \in Seq(Byte) /\ Len(b3) <= BufferSize /\ TextSize(3) \in Nat /\ Len(b3) \in Nat
      /\ IF 3 <= Len(message) THEN Len(b3) <= Len(b2) + 2 + TextSize(3)
         ELSE Len(b3) = Len(b2) /\ TextSize(3) = 0
  <2>1. 3 \in 1 .. 4
    OBVIOUS
  <2> QED BY <2>1, <1>5, WithTextSize DEF b3
<1>7. /\ b4 \in Seq(Byte) /\ TextSize(4) \in Nat /\ Len(b4) \in Nat
      /\ IF 4 <= Len(message) THEN Len(b4) <= Len(b3) + 2 + TextSize(4)
         ELSE Len(b4) = Len(b3) /\ TextSize(4) = 0
  <2>1. 4 \in 1 .. 4
    OBVIOUS
  <2> QED BY <2>1, <1>6, WithTextSize DEF b4
<1> HIDE DEF TextSize
<1>8. Len(b4) <= 5 + 2 * Len(message) + (TextSize(1) + TextSize(2) + TextSize(3) + TextSize(4))
  <2>1. CASE Len(message) = 1
    BY <2>1, <1>4, <1>5, <1>6, <1>7
  <2>2. CASE Len(message) = 2
    BY <2>2, <1>4, <1>5, <1>6, <1>7
  <2>3. CASE Len(message) = 4
    <3> DEFINE l1 == Len(b1)
               l2 == Len(b2)
               l3 == Len(b3)
               l4 == Len(b4)
               t1 == TextSize(1)
               t2 == TextSize(2)
               t3 == TextSize(3)
               t4 == TextSize(4)
    <3>1. /\ l1 \in Nat /\ l2 \in Nat /\ l3 \in Nat /\ l4 \in Nat
          /\ t1 \in Nat /\ t2 \in Nat /\ t3 \in Nat /\ t4 \in Nat
      BY <1>4, <1>5, <1>6, <1>7
    <3>2. /\ l1 <= 7 + t1 /\ l2 <= l1 + 2 + t2
          /\ l3 <= l2 + 2 + t3 /\ l4 <= l3 + 2 + t4
      BY <2>3, <1>4, <1>5, <1>6, <1>7
    <3> HIDE DEF l1, l2, l3, l4, t1, t2, t3, t4
    <3>3. l4 <= 13 + (t1 + t2 + t3 + t4)
      BY <3>1, <3>2
    <3>4. Len(b4) <= 13 + (TextSize(1) + TextSize(2) + TextSize(3) + TextSize(4))
      BY <3>3 DEF l4, t1, t2, t3, t4
    <3> QED BY <2>3, <3>4
  <2> QED BY <1>1, <2>1, <2>2, <2>3
<1> QED BY <1>2, <1>7, <1>8 DEF GetSerializedSize, TextsSize

-----------------------------------------------------------------------------
(* The steps.                                                              *)

LEMMA WireInitially == WireInit => WireInv
<1> SUFFICES ASSUME WireInit PROVE WireInv
  OBVIOUS
<1>1. message \in Seq(TextLengths) /\ Len(message) \in Kind
  <2>1. PICK k \in Kind : message \in [1 .. k -> TextLengths]
    BY DEF WireInit
  <2>2. k \in Nat
    BY DEF Kind
  <2>3. message \in Seq(TextLengths)
    BY <2>1, <2>2
  <2>4. Len(message) = k
    BY <2>1, <2>2, <2>3
  <2> QED BY <2>3, <2>4
<1>2. << >> \in Seq(Byte) /\ << >> \in Seq(Seq(Byte)) /\ Len(<< >>) = 0
  BY EmptySeq
<1>3. WireTypeOK
  <2>1. kind \in Kind \cup {Unknown} /\ Len(texts) <= kind
    BY <1>2 DEF WireInit, Unknown
  <2>2. /\ wire \in Seq(Byte) /\ Len(wire) <= BufferSize
        /\ buffer \in Seq(Byte) /\ Len(buffer) <= BufferSize
        /\ texts \in Seq(Seq(Byte))
    BY <1>2, WireBounds DEF WireInit
  <2>3. stage \in {"send", "sent", "ended", "received", "reading", "done"}
        /\ arrived \in BOOLEAN
    BY DEF WireInit
  <2> QED BY <1>1, <2>1, <2>2, <2>3 DEF WireTypeOK
<1> QED BY <1>3 DEF WireInit, WireInv, Reading

LEMMA SendStep == ASSUME WireInv, sendTo PROVE WireInv'
<1>1. WireTypeOK /\ stage = "send" /\ ~ arrived /\ buffer = << >> /\ ~ Reading
      /\ kind = Unknown /\ texts = << >>
  BY DEF WireInv, sendTo, Reading
<1>2. ~ (Len(Serialized) > GetSerializedSize)
  <2>1. Len(Serialized) <= GetSerializedSize /\ Len(Serialized) \in Nat
    BY <1>1, SerializedFits, LenProperties
  <2>2. GetSerializedSize \in Nat
    <3>1. /\ TextSize(1) \in Nat /\ TextSize(2) \in Nat
          /\ TextSize(3) \in Nat /\ TextSize(4) \in Nat
      BY <1>1, MessageType DEF TextSize
    <3>2. Len(message) \in Nat
      BY <1>1, MessageType
    <3> HIDE DEF TextSize
    <3> QED BY <3>1, <3>2 DEF GetSerializedSize, TextsSize
  <2> QED BY <2>1, <2>2
<1>3. /\ stage' = "sent" /\ wire' = Serialized
      /\ UNCHANGED <<message, arrived, buffer, kind, texts>>
  BY <1>2 DEF sendTo
<1>4. Layout(message, Serialized, Len(message))
  BY <1>1, SerializedLayout
<1>5. Layout(message, wire', Len(message))
  BY <1>3, <1>4
<1>6. Layout(message, wire, Len(message))'
  BY <1>3, <1>5
<1>7. WireTypeOK'
  <2>1. wire' \in Seq(Byte) /\ Len(wire') <= BufferSize
    BY <1>5, WireBounds DEF Layout
  <2> QED BY <2>1, <1>1, <1>3 DEF WireTypeOK
<1> QED BY <1>1, <1>3, <1>6, <1>7 DEF WireInv, Reading

(* After that the message and the wire are what they are.                  *)
LEMMA LayoutStays ==
  ASSUME stage # "send", WireInv, UNCHANGED <<message, wire>>
  PROVE  Layout(message, wire, Len(message))'
<1>1. Layout(message, wire, Len(message))
  BY DEF WireInv
<1> QED BY <1>1

LEMMA ReceiveStep == ASSUME WireInv, Receive PROVE WireInv'
<1>1. WireTypeOK /\ stage = "sent" /\ kind = Unknown /\ texts = << >>
  BY DEF WireInv, Receive, Reading
<1>2. buffer' = wire
  <2>1. << >> \in Seq(Byte) /\ Len(<< >>) = 0
    BY EmptySeq
  <2>2. wire \in Seq(Byte) /\ Len(<< >>) + Len(wire) <= BufferSize
    BY <1>1, <2>1, LenProperties, WireBounds DEF WireTypeOK
  <2>3. Written(<< >>, wire) = << >> \o wire
    BY <2>1, <2>2, WrittenFits
  <2> QED BY <2>2, <2>3, ConcatEmptySeq DEF Receive
<1>3. Layout(message, wire, Len(message))'
  BY <1>1, LayoutStays DEF Receive
<1>4. WireTypeOK'
  BY <1>1, <1>2 DEF WireTypeOK, Receive
<1> QED BY <1>1, <1>2, <1>3, <1>4 DEF WireInv, Receive, Reading

LEMMA ReceiveNothingStep == ASSUME WireInv, ReceiveNothing PROVE WireInv'
<1>1. /\ WireTypeOK /\ stage = "sent" /\ ~ arrived /\ buffer = << >>
      /\ kind = Unknown /\ texts = << >>
  BY DEF WireInv, ReceiveNothing, Reading
<1>2. Layout(message, wire, Len(message))'
  BY <1>1, LayoutStays DEF ReceiveNothing
<1>3. WireTypeOK'
  BY <1>1 DEF WireTypeOK, ReceiveNothing
<1> QED BY <1>1, <1>2, <1>3 DEF WireInv, ReceiveNothing, Reading

(* The type is read as it was written, and the first length is next.       *)
LEMMA HeaderStep == ASSUME WireInv, DeserializeHeader PROVE WireInv'
<1>1. WireTypeOK /\ stage = "received" /\ kind = Unknown /\ texts = << >>
      /\ Layout(message, wire, Len(message)) /\ (arrived => buffer = wire)
  BY DEF WireInv, DeserializeHeader, Reading
<1>2. Layout(message, wire, Len(message))'
  BY <1>1, LayoutStays DEF DeserializeHeader
<1>3. WireTypeOK'
  <2>1. /\ LeftIn(buffer, 1) \in Seq(Byte) /\ Len(LeftIn(buffer, 1)) <= Len(buffer)
    BY <1>1, ReadType DEF WireTypeOK
  <2>2. /\ LeftIn(LeftIn(buffer, 1), 4) \in Seq(Byte)
        /\ Len(LeftIn(LeftIn(buffer, 1), 4)) <= Len(LeftIn(buffer, 1))
    BY <2>1, ReadType
  <2>3. buffer' \in Seq(Byte) /\ Len(buffer') <= BufferSize
    <3>1. /\ Len(buffer) \in Nat /\ Len(LeftIn(buffer, 1)) \in Nat
          /\ Len(LeftIn(LeftIn(buffer, 1), 4)) \in Nat
      BY <1>1, <2>1, <2>2, LenProperties DEF WireTypeOK
    <3> QED BY <2>1, <2>2, <3>1, <1>1, WireBounds DEF DeserializeHeader, WireTypeOK
  <2>4. kind' \in Kind \cup {Unknown}
    BY <1>1 DEF DeserializeHeader, WireTypeOK
  <2>5. Len(texts') <= kind'
    BY <1>1, <2>4 DEF DeserializeHeader, Kind, Unknown
  <2>6. UNCHANGED <<message, wire, arrived, texts>> /\ stage' = "reading"
    BY DEF DeserializeHeader
  <2> QED BY <2>3, <2>4, <2>5, <2>6, <1>1 DEF WireTypeOK
<1>4. ASSUME arrived
      PROVE  (kind = Len(message) /\ Remaining /\ TextsRead)'
  <2> DEFINE b1 == LeftIn(wire, 1)
             b5 == LeftIn(b1, 4)
  <2>1. /\ wire \in Seq(Byte) /\ Len(wire) \in Nat /\ 5 <= Len(wire)
        /\ wire[1] = <<"type", 0, 1>> /\ Followed(wire, Len(message), 0, 5)
    BY <1>1, LenProperties DEF Layout
  <2>2. /\ ReadFrom(wire, 1, Uninitialised) \in Seq(Byte) /\ Len(ReadFrom(wire, 1, Uninitialised)) = 1
        /\ \A k \in 1 .. 1 : ReadFrom(wire, 1, Uninitialised)[k] = wire[k]
        /\ b1 \in Seq(Byte) /\ Len(b1) = Len(wire) - 1
        /\ \A k \in 1 .. Len(wire) - 1 : b1[k] = wire[1 + k]
    <3>1. 1 \in 0 .. Len(wire)
      BY <2>1
    <3>2. /\ ReadFrom(wire, 1, Uninitialised) \in Seq(Byte)
          /\ Len(ReadFrom(wire, 1, Uninitialised)) = 1
          /\ \A k \in 1 .. 1 : ReadFrom(wire, 1, Uninitialised)[k] = wire[k]
      BY <3>1, <2>1, ReadWithin
    <3>3. /\ b1 \in Seq(Byte) /\ Len(b1) = Len(wire) - 1
          /\ \A k \in 1 .. Len(wire) - 1 : b1[k] = wire[1 + k]
      BY <3>1, <2>1, LeftWithin
    <3> QED BY <3>2, <3>3
  <2>3. ReadFrom(wire, 1, Uninitialised) = Bytes("type", 0, 1)
    <3>1. "type" \in Part /\ 0 \in 0 .. 4 /\ 1 \in Nat
      BY DEF Part
    <3>2. /\ Bytes("type", 0, 1) \in Seq(Byte) /\ Len(Bytes("type", 0, 1)) = 1
          /\ \A k \in 1 .. 1 : Bytes("type", 0, 1)[k] = <<"type", 0, k>>
      BY <3>1, BytesAre
    <3>3. \A k \in 1 .. Len(ReadFrom(wire, 1, Uninitialised)) : ReadFrom(wire, 1, Uninitialised)[k] = Bytes("type", 0, 1)[k]
      <4> SUFFICES ASSUME NEW k \in 1 .. 1
                   PROVE  ReadFrom(wire, 1, Uninitialised)[k] = Bytes("type", 0, 1)[k]
        BY <2>2
      <4>1. k = 1 /\ ReadFrom(wire, 1, Uninitialised)[1] = wire[1]
            /\ Bytes("type", 0, 1)[1] = <<"type", 0, 1>>
        BY <2>2, <3>2
      <4> QED BY <4>1, <2>1
    <3> QED BY <2>2, <3>2, <3>3, SeqEqual
  <2>4. kind' = Len(message)
    BY <2>3, <1>1, <1>4 DEF DeserializeHeader
  <2> HIDE DEF b1
  <2>5. /\ b5 \in Seq(Byte) /\ Len(b5) = Len(b1) - 4
        /\ \A k \in 1 .. Len(b1) - 4 : b5[k] = b1[4 + k]
    <3>1. 4 \in 0 .. Len(b1)
      BY <2>1, <2>2
    <3> QED BY <3>1, <2>2, LeftWithin
  <2>6. buffer' = b5
    BY <1>1, <1>4 DEF DeserializeHeader, b1
  <2> HIDE DEF b5
  <2>7. Len(b5) = Len(wire) - 5 /\ \A k \in 1 .. Len(b5) : b5[k] = wire[5 + k]
    <3>1. Len(b5) = Len(wire) - 5
      BY <2>1, <2>2, <2>5
    <3>2. ASSUME NEW k \in 1 .. Len(b5) PROVE b5[k] = wire[5 + k]
      <4>1. k \in 1 .. Len(b1) - 4 /\ 4 + k \in 1 .. Len(wire) - 1 /\ 1 + (4 + k) = 5 + k
        BY <3>1, <2>1, <2>2, <2>5
      <4> QED BY <4>1, <2>2, <2>5
    <3> QED BY <3>1, <3>2
  <2>8. wire' = wire /\ message' = message /\ texts' = << >> /\ Len(texts') = 0
    BY <1>1, EmptySeq DEF DeserializeHeader
  <2>9. Len(wire) - Len(b5) = 5
    BY <2>1, <2>7
  <2>10. Remaining'
    <3>1. Len(b5) <= Len(wire)
      BY <2>1, <2>7
    <3>2. Followed(wire, Len(message), 0, 5)'
      BY <2>1, <2>8 DEF Followed, HasLength, LengthAt
    <3> QED BY <3>1, <3>2, <2>6, <2>7, <2>8, <2>9 DEF Remaining
  <2>11. TextsRead'
    BY <2>8 DEF TextsRead
  <2>12. (kind = Len(message))'
    BY <2>4, <2>8
  <2> QED BY <2>10, <2>11, <2>12
<1> QED BY <1>1, <1>2, <1>3, <1>4 DEF WireInv, DeserializeHeader, Reading

(* Where a length is, ReadU16 returns it.                                  *)
LEMMA LengthIsRead ==
  ASSUME WireTypeOK, NEW i \in 1 .. Len(message), message[i] < LengthLimit,
         NEW b \in Seq(Byte), Len(b) >= 2,
         b[1] = <<"length", i, 1>>, b[2] = <<"length", i, 2>>
  PROVE  LengthsRead(b) = {message[i]}
<1> DEFINE got == ReadFrom(b, 2, Uninitialised)
<1>1. /\ Len(message) \in {1, 2, 4} /\ DOMAIN message = 1 .. Len(message)
      /\ message[i] \in Nat
  BY MessageType
<1>2. 2 \in 0 .. Len(b)
  BY LenProperties
<1>3. /\ got \in Seq(Byte) /\ Len(got) = 2
      /\ got[1] = <<"length", i, 1>> /\ got[2] = <<"length", i, 2>>
  <2>1. /\ got \in Seq(Byte) /\ Len(got) = 2
        /\ \A k \in 1 .. 2 : got[k] = b[k]
    BY <1>2, ReadWithin
  <2> QED BY <2>1
<1> HIDE DEF got
<1>4. ASSUME NEW j \in DOMAIN message
      PROVE  /\ Bytes("length", j, 2) \in Seq(Byte) /\ Len(Bytes("length", j, 2)) = 2
             /\ Bytes("length", j, 2)[1] = <<"length", j, 1>>
             /\ Bytes("length", j, 2)[2] = <<"length", j, 2>>
  <2>1. "length" \in Part /\ j \in 0 .. 4 /\ 2 \in Nat
    BY <1>1 DEF Part
  <2>2. /\ Bytes("length", j, 2) \in Seq(Byte) /\ Len(Bytes("length", j, 2)) = 2
        /\ \A k \in 1 .. 2 : Bytes("length", j, 2)[k] = <<"length", j, k>>
    BY <2>1, BytesAre
  <2> QED BY <2>2
<1>5. got = Bytes("length", i, 2)
  <2>1. \A k \in 1 .. 2 : got[k] = Bytes("length", i, 2)[k]
    <3> SUFFICES ASSUME NEW k \in 1 .. 2
                 PROVE  got[k] = Bytes("length", i, 2)[k]
      OBVIOUS
    <3>1. k = 1 \/ k = 2
      OBVIOUS
    <3> QED BY <3>1, <1>1, <1>3, <1>4
  <2> QED BY <2>1, <1>1, <1>3, <1>4, SeqEqual
<1>6. \A j \in DOMAIN message : got = Bytes("length", j, 2) => j = i
  BY <1>3, <1>4
<1>7. {j \in DOMAIN message : got = Bytes("length", j, 2)} = {i}
  BY <1>1, <1>5, <1>6
<1>8. message[i] % LengthLimit = message[i]
  <2>1. \A a, d \in Nat : d > 0 /\ a < d => a % d = a
    BY Z3
  <2>2. LengthLimit \in Nat /\ LengthLimit > 0 /\ message[i] < LengthLimit
    BY WireBounds
  <2> QED BY <2>1, <2>2, <1>1
<1>9. LengthsRead(b) = {message[j] % LengthLimit : j \in {i}}
  BY <1>7 DEF LengthsRead, got
<1> QED BY <1>8, <1>9

(* A Read, of whatever size, leaves the end of what there was.             *)
LEMMA LeftIsTheEnd ==
  ASSUME NEW w \in Seq(Byte), NEW b \in Seq(Byte), NEW size \in Nat, Len(b) <= Len(w),
         \A k \in 1 .. Len(b) : b[k] = w[(Len(w) - Len(b)) + k]
  PROVE  LET c == LeftIn(b, size) IN
         /\ c \in Seq(Byte) /\ Len(c) <= Len(w)
         /\ \A k \in 1 .. Len(c) : c[k] = w[(Len(w) - Len(c)) + k]
<1> DEFINE c == LeftIn(b, size)
<1>1. Len(b) \in Nat /\ Len(w) \in Nat
  BY LenProperties
<1>2. CASE size > Len(b)
  BY <1>2 DEF LeftIn
<1>3. CASE size <= Len(b)
  <2>1. /\ c \in Seq(Byte) /\ Len(c) = Len(b) - size
        /\ \A k \in 1 .. Len(b) - size : c[k] = b[size + k]
    BY <1>1, <1>3, LeftWithin
  <2> HIDE DEF c
  <2>2. ASSUME NEW k \in 1 .. Len(c)
        PROVE  c[k] = w[(Len(w) - Len(c)) + k]
    <3>1. /\ k \in 1 .. Len(b) - size /\ size + k \in 1 .. Len(b)
          /\ (Len(w) - Len(b)) + (size + k) = (Len(w) - Len(c)) + k
      BY <2>1, <1>1, <1>3
    <3> QED BY <3>1, <2>1
  <2>3. Len(c) <= Len(w)
    BY <2>1, <1>1, <1>3
  <2> QED BY <2>1, <2>2, <2>3 DEF c
<1> QED BY <1>1, <1>2, <1>3

(* One more text, if its length is there: whole, or none of it; and the    *)
(* next length is next.                                                    *)
LEMMA TextIsRead ==
  ASSUME WireTypeOK, Layout(message, wire, Len(message)), Remaining,
         NEW i \in 1 .. Len(message), i = Len(texts) + 1,
         Countable(i), HasLength(wire, i),
         NEW length \in LengthsRead(buffer), NEW before
  PROVE  LET rest == LeftIn(buffer, 2)
             q    == Len(wire) - Len(LeftIn(rest, length)) IN
         /\ HasText(wire, i) \/ message[i] = 0 =>
              ReadFrom(rest, length, before) = Bytes("text", i, message[i])
         /\ Followed(wire, Len(message), i, q)
<1> DEFINE q == Len(wire) - Len(buffer)
           m == message[i]
           rest == LeftIn(buffer, 2)
<1>1. /\ wire \in Seq(Byte) /\ buffer \in Seq(Byte)
      /\ Len(wire) \in Nat /\ Len(buffer) \in Nat /\ Len(wire) <= BufferSize
      /\ Len(message) \in {1, 2, 4} /\ m \in Nat /\ Len(texts) \in Nat
      /\ BufferSize \in Nat
  BY LenProperties, MessageType, WireBounds DEF WireTypeOK
<1>2. /\ Len(buffer) <= Len(wire) /\ q \in Nat
      /\ \A k \in 1 .. Len(buffer) : buffer[k] = wire[q + k]
  BY <1>1 DEF Remaining
<1>3. Countable(Len(texts)) /\ (Len(texts) > 0 => HasLength(wire, Len(texts)))
  <2>1. Countable(Len(texts))
    BY <1>1 DEF Countable
  <2>2. ASSUME Len(texts) > 0 PROVE HasLength(wire, Len(texts))
    <3>1. Len(texts) \in 1 .. Len(message) /\ Len(texts) <= i
      BY <1>1, <2>2
    <3> QED BY <3>1 DEF Layout, LengthsEnd
  <2> QED BY <2>1, <2>2
<1>4. Followed(wire, Len(message), Len(texts), q)
  BY <1>3 DEF Remaining
<1>5. LengthAt(wire, i, q)
  <2>1. Len(texts) < Len(message) /\ Len(texts) + 1 = i
    BY <1>1
  <2> QED BY <2>1, <1>4 DEF Followed
<1>6. /\ Len(buffer) >= 2
      /\ buffer[1] = <<"length", i, 1>> /\ buffer[2] = <<"length", i, 2>>
  <2>1. q + 2 <= Len(wire) /\ wire[q + 1] = <<"length", i, 1>>
        /\ wire[q + 2] = <<"length", i, 2>>
    BY <1>5 DEF LengthAt
  <2>2. 1 \in 1 .. Len(buffer) /\ 2 \in 1 .. Len(buffer)
    BY <2>1, <1>1
  <2> QED BY <2>1, <2>2, <1>1, <1>2
<1>7. length = m
  <2>1. m < LengthLimit
    BY DEF Countable
  <2> QED BY <2>1, <1>1, <1>6, LengthIsRead
<1>8. /\ rest \in Seq(Byte) /\ Len(rest) = Len(buffer) - 2
      /\ \A k \in 1 .. Len(rest) : rest[k] = wire[q + 2 + k]
  <2>1. 2 \in 0 .. Len(buffer)
    BY <1>1, <1>6
  <2>2. /\ rest \in Seq(Byte) /\ Len(rest) = Len(buffer) - 2
        /\ \A k \in 1 .. Len(buffer) - 2 : rest[k] = buffer[2 + k]
    BY <2>1, <1>1, LeftWithin
  <2> HIDE DEF rest
  <2>3. ASSUME NEW k \in 1 .. Len(rest)
        PROVE  rest[k] = wire[q + 2 + k]
    <3>1. /\ k \in 1 .. Len(buffer) - 2 /\ 2 + k \in 1 .. Len(buffer)
          /\ q + (2 + k) = q + 2 + k
      BY <2>2, <1>1
    <3>2. buffer[2 + k] = wire[q + (2 + k)]
      BY <3>1, <1>2
    <3> QED BY <3>1, <3>2, <2>2
  <2> QED BY <2>2, <2>3
<1> HIDE DEF rest
<1>9. Whole(message, wire, Len(message), i, q) \/ Dropped(message, wire, Len(message), i, q)
  BY <1>2, <1>5 DEF Layout
<1>10. CASE Whole(message, wire, Len(message), i, q)
  <2>1. /\ q + 2 + m <= Len(wire)
        /\ \A k \in 1 .. m : wire[q + 2 + k] = <<"text", i, k>>
    BY <1>10 DEF Whole, TextAt
  <2>2. m \in 0 .. Len(rest)
    BY <2>1, <1>1, <1>8
  <2>3. /\ ReadFrom(rest, m, before) \in Seq(Byte) /\ Len(ReadFrom(rest, m, before)) = m
        /\ \A k \in 1 .. m : ReadFrom(rest, m, before)[k] = rest[k]
        /\ Len(LeftIn(rest, m)) = Len(rest) - m
    <3> DEFINE got == ReadFrom(rest, m, before)
    <3>1. /\ got \in Seq(Byte) /\ Len(got) = m
          /\ \A k \in 1 .. m : got[k] = rest[k]
      BY <2>2, <1>8, ReadWithin
    <3>2. Len(LeftIn(rest, m)) = Len(rest) - m
      BY <2>2, <1>8, LeftWithin
    <3> QED BY <3>1, <3>2
  <2>4. /\ Bytes("text", i, m) \in Seq(Byte) /\ Len(Bytes("text", i, m)) = m
        /\ \A k \in 1 .. m : Bytes("text", i, m)[k] = <<"text", i, k>>
    <3>1. "text" \in Part /\ i \in 0 .. 4
      BY <1>1 DEF Part
    <3> QED BY <3>1, <1>1, BytesAre
  <2>5. ReadFrom(rest, m, before) = Bytes("text", i, m)
    <3>1. ASSUME NEW k \in 1 .. m
          PROVE  ReadFrom(rest, m, before)[k] = Bytes("text", i, m)[k]
      <4>1. k \in 1 .. Len(rest)
        BY <2>2, <1>1, <1>8
      <4> QED BY <4>1, <1>8, <2>1, <2>3, <2>4
    <3> QED BY <3>1, <2>3, <2>4, SeqEqual
  <2>6. HasText(wire, i) \/ m = 0
    <3> SUFFICES ASSUME m # 0 PROVE HasText(wire, i)
      OBVIOUS
    <3>1. 1 \in 1 .. m /\ q + 2 + 1 \in 1 .. Len(wire)
      BY <2>1, <1>1, <1>2
    <3>2. wire[q + 2 + 1] = <<"text", i, 1>>
      BY <3>1, <2>1
    <3> QED BY <3>1, <3>2 DEF HasText
  <2>7. Len(wire) - Len(LeftIn(rest, m)) = q + 2 + m
    BY <2>3, <1>1, <1>8
  <2>8. Followed(wire, Len(message), i, q + 2 + m)
    BY <1>10 DEF Whole
  <2> QED BY <2>5, <2>6, <2>7, <2>8, <1>7 DEF rest
<1>11. CASE Dropped(message, wire, Len(message), i, q)
  <2>1. ~ HasText(wire, i) /\ q + 2 + m > BufferSize
        /\ Followed(wire, Len(message), i, q + 2)
    BY <1>11 DEF Dropped
  <2>2. m > Len(rest) /\ m # 0
    <3>1. Len(rest) = Len(wire) - q - 2 /\ q + 2 <= Len(wire)
      BY <1>1, <1>6, <1>8
    <3> QED BY <3>1, <2>1, <1>1, <1>2
  <2>3. LeftIn(rest, m) = rest
    BY <2>2 DEF LeftIn
  <2>4. Len(wire) - Len(rest) = q + 2
    BY <1>1, <1>8
  <2> QED BY <2>1, <2>2, <2>3, <2>4, <1>7 DEF rest
<1> QED BY <1>9, <1>10, <1>11

LEMMA LengthsAreNaturals ==
  ASSUME WireTypeOK, NEW b
  PROVE  LengthsRead(b) \subseteq Nat
<1>1. DOMAIN message = 1 .. Len(message) /\ \A i \in DOMAIN message : message[i] \in Nat
  BY MessageType
<1>2. \A i \in DOMAIN message : message[i] % LengthLimit \in Nat
  <2>1. \A a, d \in Nat : d > 0 => a % d \in Nat
    OBVIOUS
  <2> QED BY <2>1, <1>1, WireBounds
<1>3. 0 .. MaxGarbage \subseteq Nat
  BY WireBounds
<1> QED BY <1>2, <1>3 DEF LengthsRead

LEMMA TextStep == ASSUME WireInv, DeserializeText PROVE WireInv'
<1>1. WireTypeOK /\ stage = "reading" /\ Len(texts) < kind
      /\ Layout(message, wire, Len(message))
      /\ (arrived => kind = Len(message) /\ Remaining /\ TextsRead)
  BY DEF WireInv, DeserializeText, Reading
<1> DEFINE rest == LeftIn(buffer, 2)
           n == Len(texts)
<1>2. PICK length \in LengthsRead(buffer), before \in {Uninitialised} \cup ToSet(texts) :
        /\ texts' = Append(texts, ReadFrom(rest, length, before))
        /\ buffer' = LeftIn(rest, length)
  BY DEF DeserializeText
<1>3. UNCHANGED <<message, stage, wire, arrived, kind>>
  BY DEF DeserializeText
<1>4. /\ texts \in Seq(Seq(Byte)) /\ n \in Nat /\ length \in Nat /\ before \in Seq(Byte)
      /\ buffer \in Seq(Byte) /\ wire \in Seq(Byte)
      /\ Len(buffer) \in Nat /\ Len(wire) \in Nat /\ BufferSize \in Nat
      /\ Len(buffer) <= BufferSize /\ kind \in Nat
  <2>1. length \in Nat
    BY <1>1, LengthsAreNaturals
  <2>2. kind \in Nat
    BY <1>1 DEF WireTypeOK, Kind, Unknown
  <2>3. ToSet(texts) \subseteq Seq(Byte)
    BY <1>1 DEF WireTypeOK, ToSet
  <2>4. before \in Seq(Byte)
    BY <2>3, UninitialisedType
  <2> QED BY <1>1, <2>1, <2>2, <2>4, LenProperties, WireBounds DEF WireTypeOK
<1>5. /\ rest \in Seq(Byte) /\ Len(rest) \in Nat /\ Len(rest) <= Len(buffer)
      /\ ReadFrom(rest, length, before) \in Seq(Byte)
      /\ buffer' \in Seq(Byte) /\ Len(buffer') \in Nat /\ Len(buffer') <= Len(rest)
  <2>1. rest \in Seq(Byte) /\ Len(rest) <= Len(buffer)
    BY <1>4, ReadType
  <2> HIDE DEF rest
  <2>2. /\ ReadFrom(rest, length, before) \in Seq(Byte)
        /\ LeftIn(rest, length) \in Seq(Byte) /\ Len(LeftIn(rest, length)) <= Len(rest)
    BY <2>1, <1>4, ReadType
  <2> QED BY <2>1, <2>2, <1>2, LenProperties
<1> HIDE DEF rest
<1>6. /\ texts' \in Seq(Seq(Byte)) /\ Len(texts') = n + 1
      /\ \A i \in 1 .. n : texts'[i] = texts[i]
      /\ texts'[n + 1] = ReadFrom(rest, length, before)
  BY <1>2, <1>4, <1>5
<1>7. WireTypeOK'
  <2>1. Len(buffer') <= BufferSize
    BY <1>4, <1>5
  <2>2. Len(texts') <= kind'
    BY <1>1, <1>3, <1>4, <1>6
  <2> QED BY <2>1, <2>2, <1>1, <1>3, <1>5, <1>6 DEF WireTypeOK
<1>8. Layout(message, wire, Len(message))'
  BY <1>1, <1>3
<1>9. ASSUME arrived
      PROVE  (kind = Len(message) /\ Remaining /\ TextsRead)'
  <2>1. kind = Len(message) /\ Remaining /\ TextsRead
        /\ n + 1 \in 1 .. Len(message)
    BY <1>1, <1>4, <1>9
  <2>2. /\ Len(buffer') <= Len(wire)
        /\ \A k \in 1 .. Len(buffer') : buffer'[k] = wire[(Len(wire) - Len(buffer')) + k]
    <3>1. /\ Len(rest) <= Len(wire)
          /\ \A k \in 1 .. Len(rest) : rest[k] = wire[(Len(wire) - Len(rest)) + k]
      <4>1. Len(buffer) <= Len(wire)
            /\ \A k \in 1 .. Len(buffer) : buffer[k] = wire[(Len(wire) - Len(buffer)) + k]
        BY <2>1 DEF Remaining
      <4>2. wire \in Seq(Byte) /\ buffer \in Seq(Byte) /\ 2 \in Nat
        BY <1>4
      <4> DEFINE d == LeftIn(buffer, 2)
      <4>3. /\ Len(d) <= Len(wire)
            /\ \A k \in 1 .. Len(d) : d[k] = wire[(Len(wire) - Len(d)) + k]
        BY ONLY <4>1, <4>2, LeftIsTheEnd
      <4>4. rest = d
        BY DEF rest
      <4> HIDE DEF d
      <4> QED BY <4>3, <4>4
    <3> DEFINE c == LeftIn(rest, length)
    <3>2. /\ Len(c) <= Len(wire)
          /\ \A k \in 1 .. Len(c) : c[k] = wire[(Len(wire) - Len(c)) + k]
      BY <3>1, <1>4, <1>5, LeftIsTheEnd
    <3>3. buffer' = c
      BY <1>2
    <3> HIDE DEF c
    <3> QED BY <3>2, <3>3
  <2>3. ASSUME Countable(n + 1), HasLength(wire, n + 1)
        PROVE  /\ HasText(wire, n + 1) \/ message[n + 1] = 0 =>
                    texts'[n + 1] = Bytes("text", n + 1, message[n + 1])
               /\ Followed(wire, Len(message), n + 1, Len(wire) - Len(buffer'))
    BY <2>1, <2>3, <1>1, <1>2, <1>6, TextIsRead DEF rest
  <2>4. Remaining'
    <3>1. (\A i \in 1 .. n + 1 : message'[i] < LengthLimit) => Countable(n + 1)
      BY <1>3 DEF Countable
    <3>2. Countable(n + 1) /\ HasLength(wire, n + 1) =>
            Followed(wire, Len(message), n + 1, Len(wire) - Len(buffer'))
      BY <2>3
    <3>3. n + 1 > 0
      BY <1>4
    <3>4. /\ Len(buffer') <= Len(wire')
          /\ \A k \in 1 .. Len(buffer') : buffer'[k] = wire'[(Len(wire') - Len(buffer')) + k]
      BY <2>2, <1>3
    <3>5. (\A i \in 1 .. n + 1 : message'[i] < LengthLimit) /\ HasLength(wire', n + 1) =>
            Followed(wire', Len(message'), n + 1, Len(wire') - Len(buffer'))
      BY <3>1, <3>2, <1>3
    <3> QED BY <3>3, <3>4, <3>5, <1>6 DEF Remaining, Countable
  <2>5. TextsRead'
    <3>1. ASSUME NEW i \in 1 .. n + 1, Countable(i), HasLength(wire, i),
                 HasText(wire, i) \/ message[i] = 0
          PROVE  texts'[i] = Bytes("text", i, message[i])
      <4>1. CASE i = n + 1
        BY <4>1, <3>1, <2>3
      <4>2. CASE i \in 1 .. n
        BY <4>2, <3>1, <2>1, <1>6 DEF TextsRead
      <4> QED BY <4>1, <4>2, <1>4
    <3>2. \A i : Countable(i)' <=> Countable(i)
      BY <1>3 DEF Countable
    <3> QED BY <3>1, <3>2, <1>3, <1>6 DEF TextsRead
  <2> QED BY <2>1, <2>4, <2>5, <1>3
<1> QED BY <1>1, <1>3, <1>7, <1>8, <1>9 DEF WireInv, Reading

LEMMA DoneStep == ASSUME WireInv, RecvMessage PROVE WireInv'
<1>1. WireTypeOK /\ stage = "reading" /\ Len(texts) = kind
      /\ (arrived => kind = Len(message) /\ Remaining /\ TextsRead)
  BY DEF WireInv, RecvMessage, Reading
<1>2. /\ stage' = "done"
      /\ UNCHANGED <<message, wire, arrived, buffer, kind, texts>>
  BY DEF RecvMessage
<1>3. Layout(message, wire, Len(message))'
  BY <1>1, <1>2, LayoutStays
<1>4. WireTypeOK'
  BY <1>1, <1>2 DEF WireTypeOK
<1>5. (Remaining' <=> Remaining) /\ (TextsRead' <=> TextsRead)
  BY <1>2 DEF Remaining, TextsRead, Countable
<1> QED BY <1>1, <1>2, <1>3, <1>4, <1>5 DEF WireInv, Reading

LEMMA WireStep == WireInv /\ [WireNext]_wireVars => WireInv'
<1> SUFFICES ASSUME WireInv, [WireNext]_wireVars PROVE WireInv'
  OBVIOUS
<1>1. CASE UNCHANGED wireVars
  <2>1. UNCHANGED <<message, stage, wire, arrived, buffer, kind, texts>>
    BY <1>1 DEF wireVars
  <2>2. (Remaining' <=> Remaining) /\ (TextsRead' <=> TextsRead)
        /\ (Layout(message, wire, Len(message))' <=> Layout(message, wire, Len(message)))
    BY <2>1 DEF Remaining, TextsRead, Countable
  <2>3. WireTypeOK' <=> WireTypeOK
    BY <2>1 DEF WireTypeOK
  <2> QED BY <2>1, <2>2, <2>3 DEF WireInv, Reading
<1> QED BY <1>1, SendStep, ReceiveStep, ReceiveNothingStep, HeaderStep, TextStep, DoneStep
        DEF WireNext

(* Whatever is sent, and whatever is in memory that was never written, the *)
(* buffers stay within BUFFER_SIZE and each length that was written is     *)
(* found where it was.  WireInv is inductive; the other theorems follow.   *)
THEOREM WireKeepsLayout == WireSpec => []WireInv
<1> QED BY WireInitially, WireStep, PTL DEF WireSpec

(* What the buffers of both sides hold has its type and fits in them.      *)
THEOREM WireTypeCorrect == WireSpec => []WireTypeOK
<1>1. WireInv => WireTypeOK
  BY DEF WireInv
<1> QED BY <1>1, WireKeepsLayout, PTL

(* GetSerializedSize (penn-search-message.cpp:139, :196, :281 and the eight *)
(* of the chord messages) is never less than what Serialize has written, so *)
(* sendTo never gives up (transmit.cpp:117).                               *)
THEOREM NothingOutgrowsItsSize == WireSpec => []AllocationSuffices
<1>1. WireInv => AllocationSuffices
  BY DEF WireInv, AllocationSuffices
<1> QED BY <1>1, WireKeepsLayout, PTL

(* What was sent of a text, in terms of the layout.                        *)
LEMMA SentIsThere ==
  ASSUME WireInv, stage = "done", arrived, NEW i \in DOMAIN message, Countable(i),
         Sent(Bytes("length", i, 2))
  PROVE  /\ HasText(wire, i) \/ message[i] = 0 => texts[i] = Bytes("text", i, message[i])
         /\ Sent(Bytes("text", i, message[i])) <=> HasText(wire, i) \/ message[i] = 0
<1>1. /\ WireTypeOK /\ Layout(message, wire, Len(message)) /\ TextsRead
      /\ Len(texts) = Len(message)
  BY DEF WireInv, Reading
<1>2. /\ Len(message) \in {1, 2, 4} /\ i \in 1 .. Len(message) /\ message[i] \in Nat
      /\ wire \in Seq(Byte) /\ Len(wire) \in Nat /\ DOMAIN wire = 1 .. Len(wire)
  BY <1>1, MessageType, LenProperties DEF WireTypeOK
<1>3. ASSUME NEW part \in {"length", "text"}, NEW size \in Nat
      PROVE  Sent(Bytes(part, i, size)) <=>
               \A k \in 1 .. size : \E p \in 1 .. Len(wire) : wire[p] = <<part, i, k>>
  <2>1. part \in Part /\ i \in 0 .. 4
    BY <1>2 DEF Part
  <2>2. DOMAIN Bytes(part, i, size) = 1 .. size
        /\ \A k \in 1 .. size : Bytes(part, i, size)[k] = <<part, i, k>>
    BY DEF Bytes
  <2>3. ToSet(Bytes(part, i, size)) = {<<part, i, k>> : k \in 1 .. size}
    BY <2>2 DEF ToSet
  <2>4. ToSet(wire) = {wire[p] : p \in 1 .. Len(wire)}
    BY <1>2 DEF ToSet
  <2> QED BY <2>3, <2>4 DEF Sent
<1>4. HasLength(wire, i)
  <2>1. \E p \in 1 .. Len(wire) : wire[p] = <<"length", i, 1>>
    <3>1. 1 \in 1 .. 2 /\ 2 \in Nat
      OBVIOUS
    <3> QED BY <3>1, <1>3
  <2> QED BY <2>1 DEF HasLength
<1>5. HasText(wire, i) \/ message[i] = 0 => texts[i] = Bytes("text", i, message[i])
  BY <1>1, <1>2, <1>4 DEF TextsRead
<1>6. ASSUME Sent(Bytes("text", i, message[i])), message[i] # 0
      PROVE  HasText(wire, i)
  <2>1. 1 \in 1 .. message[i] /\ 1 \in Nat \ {0}
    BY <1>2, <1>6
  <2>2. \E p \in 1 .. Len(wire) : wire[p] = <<"text", i, 1>>
    BY <2>1, <1>2, <1>3, <1>6
  <2> QED BY <2>1, <2>2 DEF HasText
<1>7. ASSUME HasText(wire, i)
      PROVE  Sent(Bytes("text", i, message[i]))
  <2>1. PICK p \in Nat : LengthAt(wire, i, p)
    BY <1>1, <1>2, <1>4 DEF Layout
  <2>2. TextAt(message, wire, i, p + 2)
    BY <2>1, <1>1, <1>2, <1>7 DEF Layout, Whole, Dropped
  <2>3. ASSUME NEW k \in 1 .. message[i]
        PROVE  \E r \in 1 .. Len(wire) : wire[r] = <<"text", i, k>>
    <3>1. (p + 2) + k \in 1 .. Len(wire) /\ wire[(p + 2) + k] = <<"text", i, k>>
      BY <2>2, <1>2 DEF TextAt
    <3> QED BY <3>1
  <2> QED BY <2>3, <1>2, <1>3
<1>8. message[i] = 0 => Sent(Bytes("text", i, message[i]))
  BY <1>2, <1>3
<1> QED BY <1>5, <1>6, <1>7, <1>8

(* Every text that was written with its length arrives as it was sent,     *)
(* whatever was dropped before it or behind it (BufferV2.cpp:23, :46).     *)
THEOREM WholeTextsArrive == WireSpec => []WholeFieldsArrive
<1>1. WireInv => WholeFieldsArrive
  BY SentIsThere DEF WholeFieldsArrive
<1> QED BY <1>1, WireKeepsLayout, PTL
=============================================================================

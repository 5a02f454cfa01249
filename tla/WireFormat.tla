------------------------------ MODULE WireFormat ------------------------------
(***************************************************************************)
(* How a message gets from sendTo to RecvMessage: Serialize into a         *)
(* BufferV2 of 100 bytes, one send and one read, Deserialize from another  *)
(* BufferV2.  A message is a type, an unused number and up to four texts,  *)
(* each behind its length: one text in the eight chord messages and in     *)
(* PUBLISH, two in SEARCH_RSP, four in SEARCH_REQ.                         *)
(*                                                                         *)
(* BufferV2 reports an overflow or underflow with perror and goes on: a    *)
(* Write that does not fit writes nothing, and a Read of more than is left *)
(* reads nothing and leaves its destination as it was.  No caller has set  *)
(* it; a text is read into memory just allocated, where the text freed     *)
(* before may still be.  What the bytes say does not matter; a byte is     *)
(* named by what it is a part of and its place there.                      *)
(***************************************************************************)
EXTENDS Naturals, Sequences, SequencesExt

CONSTANTS
  BufferSize,    \* BUFFER_SIZE: 100 in the code
  LengthLimit,   \* what a uint16_t counts up to: 65536 in the code
  TextLengths,   \* how long texts may be
  MaxGarbage     \* bound: an uninitialised length

ASSUME WireBounds ==
  /\ BufferSize \in Nat /\ BufferSize >= 5
  /\ LengthLimit \in Nat /\ LengthLimit > BufferSize
  /\ TextLengths \subseteq Nat
  /\ MaxGarbage \in Nat

Kind == {1, 2, 4}        \* how many texts a message has
Unknown == 0             \* a type that is no message's

Part == {"type", "transaction", "length", "text", "uninitialised"}
Byte == Part \X (0 .. 4) \X (Nat \ {0})

(* What is in memory this message never wrote, however much of it is read. *)
Uninitialised == << <<"uninitialised", 0, 1>> >>

VARIABLES
  message,    \* the length of each text of the message
  stage,      \* how far it is
  wire,       \* the bytes sent
  arrived,    \* whether they were read
  buffer,     \* m_buffer of the receiver
  kind,       \* how many texts the receiver takes the message to have
  texts       \* the texts it has read

wireVars == <<message, stage, wire, arrived, buffer, kind, texts>>

WireTypeOK ==
  /\ message \in Seq(TextLengths) /\ Len(message) \in Kind
  /\ stage \in {"send", "sent", "ended", "received", "reading", "done"}
  /\ wire \in Seq(Byte) /\ Len(wire) <= BufferSize
  /\ arrived \in BOOLEAN
  /\ buffer \in Seq(Byte) /\ Len(buffer) <= BufferSize
  /\ kind \in Kind \cup {Unknown}
  /\ texts \in Seq(Seq(Byte)) /\ Len(texts) <= kind

WireInit ==
  /\ \E k \in Kind : message \in [1 .. k -> TextLengths]
  /\ stage = "send"
  /\ wire = << >> /\ arrived = FALSE
  /\ buffer = << >> /\ kind = Unknown /\ texts = << >>

-----------------------------------------------------------------------------
(* BufferV2.                                                               *)

Bytes(part, i, size) == [k \in 1 .. size |-> <<part, i, k>>]

(* Mutant: the size is not tested.                                         *)
WrittenBeyond(b, data) == b \o data

Written(b, data) == IF Len(b) + Len(data) > BufferSize THEN b ELSE b \o data

(* Mutant: a Read of more than is left uses it up.                         *)
LeftOrNothing(b, size) == IF size > Len(b) THEN << >> ELSE SubSeq(b, size + 1, Len(b))

(* What a destination holds after a Read, and before it; and what the Read *)
(* leaves in the buffer.                                                   *)
ReadFrom(b, size, before) == IF size > Len(b) THEN before ELSE SubSeq(b, 1, size)
LeftIn(b, size)           == IF size > Len(b) THEN b ELSE SubSeq(b, size + 1, Len(b))

-----------------------------------------------------------------------------
(* sendTo.                                                                 *)

Header == Written(Written(<< >>, Bytes("type", 0, 1)), Bytes("transaction", 0, 4))

(* Serialize writes each text behind its length.                           *)
WithText(b, i) ==
  IF i \in DOMAIN message
  THEN Written(Written(b, Bytes("length", i, 2)), Bytes("text", i, message[i]))
  ELSE b

Serialized == WithText(WithText(WithText(WithText(Header, 1), 2), 3), 4)

TextSize(i) == IF i \in DOMAIN message THEN message[i] ELSE 0
TextsSize   == TextSize(1) + TextSize(2) + TextSize(3) + TextSize(4)

(* Mutant: the lengths are not counted.                                    *)
SizeOfTexts == 5 + TextsSize

GetSerializedSize == 5 + 2 * Len(message) + TextsSize

(* The buffer is copied to one of the size the message says it needs.  (If *)
(* that were too small the overload for the messages of PennSearch would   *)
(* return; the one for chord messages would close the socket and then send *)
(* on it, transmit.cpp:51.  AllocationSuffices: neither happens.)          *)
sendTo ==
  /\ stage = "send"
  /\ IF Len(Serialized) > GetSerializedSize
     THEN stage' = "ended" /\ UNCHANGED wire
     ELSE stage' = "sent" /\ wire' = Serialized
  /\ UNCHANGED <<message, arrived, buffer, kind, texts>>

-----------------------------------------------------------------------------
(* The receive threads.                                                    *)

Receive ==
  /\ stage = "sent"
  /\ buffer' = Written(<< >>, wire)
  /\ arrived' = TRUE
  /\ stage' = "received"
  /\ UNCHANGED <<message, wire, kind, texts>>

(* The sender ends between connect and send: read returns 0, and so much   *)
(* is taken for a message.                                                 *)
ReceiveNothing ==
  /\ stage = "sent"
  /\ stage' = "received"
  /\ UNCHANGED <<message, wire, arrived, buffer, kind, texts>>

(* An uninitialised type may be any.                                       *)
DeserializeHeader ==
  /\ stage = "received"
  /\ IF ReadFrom(buffer, 1, Uninitialised) = Bytes("type", 0, 1) THEN kind' = Len(message)
     ELSE kind' \in Kind \cup {Unknown}
  /\ buffer' = LeftIn(LeftIn(buffer, 1), 4)
  /\ stage' = "reading"
  /\ UNCHANGED <<message, wire, arrived, texts>>

(* What ReadU16 may return: a length as WriteU16 cut it to 16 bits, or     *)
(* whatever other bytes amount to.                                         *)
LengthsRead(b) ==
  LET whose == {i \in DOMAIN message :
                  ReadFrom(b, 2, Uninitialised) = Bytes("length", i, 2)} IN
  IF whose = {} THEN 0 .. MaxGarbage ELSE {message[i] % LengthLimit : i \in whose}

(* Each text is read into memory of its own, allocated after that of the   *)
(* text before it was freed.                                               *)
DeserializeText ==
  /\ stage = "reading" /\ Len(texts) < kind
  /\ \E length \in LengthsRead(buffer), before \in {Uninitialised} \cup ToSet(texts) :
       LET rest == LeftIn(buffer, 2) IN
       /\ texts' = Append(texts, ReadFrom(rest, length, before))
       /\ buffer' = LeftIn(rest, length)
  /\ UNCHANGED <<message, stage, wire, arrived, kind>>

RecvMessage ==
  /\ stage = "reading" /\ Len(texts) = kind
  /\ stage' = "done"
  /\ UNCHANGED <<message, wire, arrived, buffer, kind, texts>>

WireNext ==
  \/ sendTo \/ Receive \/ ReceiveNothing
  \/ DeserializeHeader \/ DeserializeText \/ RecvMessage

WireSpec == WireInit /\ [][WireNext]_wireVars

-----------------------------------------------------------------------------
Sent(data) == ToSet(data) \subseteq ToSet(wire)

(* The lengths of the first n texts are what 16 bits say they are.  Behind *)
(* a longer text nothing is certain: it is dropped, as it does not fit, but *)
(* the rest of its length takes as many bytes of the next texts for it.    *)
Countable(n) == \A i \in 1 .. n : message[i] < LengthLimit

(* Every text that was written with its length arrives, whatever was       *)
(* dropped before it or after it: no overflow makes the receiver take one  *)
(* text, or its length, for another.  (In the place of a text that was     *)
(* dropped it may read the one before it.)                                 *)
WholeFieldsArrive ==
  stage = "done" /\ arrived =>
    \A i \in DOMAIN message :
      /\ Countable(i)
      /\ Sent(Bytes("length", i, 2)) /\ Sent(Bytes("text", i, message[i]))
      => texts[i] = Bytes("text", i, message[i])

(* The bytes of a message fit the memory sendTo allocates for them, so     *)
(* Serialize never gives up.                                               *)
AllocationSuffices == stage # "ended"
=============================================================================

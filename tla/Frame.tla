-------------------------------- MODULE Frame --------------------------------
(***************************************************************************)
(* Messages of the Cast protocol on the wire (packages/protocol/src/       *)
(* Frame.ts), and the buffer that carries the tail of one TLS read over to *)
(* the next (CastSocket.ts).                                               *)
(*                                                                         *)
(* A varint is written in groups of which HighBit is the first value that  *)
(* needs another one: 128 in the source.                                   *)
(***************************************************************************)
EXTENDS Integers, SequencesExt

CONSTANT HighBit

Message(sourceId, destinationId, namespace, payload) ==
  [sourceId |-> sourceId, destinationId |-> destinationId, namespace |-> namespace, payload |-> payload]
Text(value)   == [tag |-> "Text", value |-> value]
Binary(value) == [tag |-> "Binary", value |-> value]

(* Generated.ts: a field's number, and how its value is written.           *)
FieldNumber == [protocol_version |-> 1, source_id |-> 2, destination_id |-> 3, namespace |-> 4,
                payload_type |-> 5, payload_utf8 |-> 6, payload_binary |-> 7]
Varint == 0
LengthDelimited == 2
key(field, wire) == FieldNumber[field] * 8 + wire

RECURSIVE encodeVarint(_)
encodeVarint(value) ==
  IF value < HighBit THEN <<value>>
  ELSE <<(value % HighBit) + HighBit>> \o encodeVarint(value \div HighBit)

(* The octet at an offset; past the end there are zeros.                   *)
At(buf, offset) == IF offset \in DOMAIN buf THEN buf[offset] ELSE 0

RECURSIVE readVarint(_, _)
readVarint(buf, offset) ==
  IF At(buf, offset) < HighBit THEN [value |-> At(buf, offset), next |-> offset + 1]
  ELSE LET rest == readVarint(buf, offset + 1)
       IN  [rest EXCEPT !.value = @ * HighBit + (buf[offset] - HighBit)]

varintField(field, value) == <<key(field, Varint)>> \o encodeVarint(value)
lengthDelimited(field, octets) ==
  <<key(field, LengthDelimited)>> \o encodeVarint(Len(octets)) \o octets

encodePayload(payload) ==
  IF payload.tag = "Text"
  THEN <<varintField("payload_type", 0), lengthDelimited("payload_utf8", payload.value)>>
  ELSE <<varintField("payload_type", 1), lengthDelimited("payload_binary", payload.value)>>

(* The fields of a body, in the order the code writes them.                *)
fieldsOf(message) ==
  <<varintField("protocol_version", 0),
    lengthDelimited("source_id", message.sourceId),
    lengthDelimited("destination_id", message.destinationId),
    lengthDelimited("namespace", message.namespace)>> \o encodePayload(message.payload)

(* writeUInt32BE and readUInt32BE, of lengths that fit two octets.         *)
prefix(length) == <<0, 0, length \div 256, length % 256>>
prefixed(buf)  == buf[3] * 256 + buf[4]

framed(body) == prefix(Len(body)) \o body
encodeFrame(message) == framed(FlattenSeq(fieldsOf(message)))

-----------------------------------------------------------------------------
EMPTY == [source_id |-> <<>>, destination_id |-> <<>>, namespace |-> <<>>,
          payload_type |-> 0, payload_utf8 |-> <<>>, payload_binary |-> <<>>]

(* A number where octets are expected, or the other way round, is the      *)
(* empty value; a field that is not known changes nothing.                 *)
assign(acc, number, wire, value) ==
  LET named == {f \in DOMAIN EMPTY : FieldNumber[f] = number}
      field == CHOOSE f \in named : TRUE
      fits  == (field = "payload_type") <=> (wire = Varint)
  IN  IF named = {} THEN acc
      ELSE [acc EXCEPT ![field] = IF fits THEN value ELSE EMPTY[field]]

(* Another wire type ends the reading, with what was read so far.          *)
RECURSIVE decodeFields(_, _, _)
decodeFields(buf, offset, acc) ==
  LET got == readVarint(buf, offset + 1)
      number == buf[offset] \div 8
      end == got.next + got.value - 1
      octets == SubSeq(buf, got.next, IF end < Len(buf) THEN end ELSE Len(buf))
  IN  IF offset > Len(buf) \/ buf[offset] % 8 \notin {Varint, LengthDelimited} THEN acc
      ELSE IF buf[offset] % 8 = Varint
           THEN decodeFields(buf, got.next, assign(acc, number, Varint, got.value))
           ELSE decodeFields(buf, end + 1, assign(acc, number, LengthDelimited, octets))

decodeMessage(body) ==
  LET parts == decodeFields(body, 1, EMPTY)
  IN  Message(parts.source_id, parts.destination_id, parts.namespace,
              IF parts.payload_type = 1 THEN Binary(parts.payload_binary) ELSE Text(parts.payload_utf8))

(* The whole frames of a buffer, and what is left for the next read.       *)
RECURSIVE takeFrames(_, _)
takeFrames(buffer, acc) ==
  IF Len(buffer) >= 4 /\ Len(buffer) >= 4 + prefixed(buffer)
  THEN takeFrames(SubSeq(buffer, 5 + prefixed(buffer), Len(buffer)),
                  Append(acc, decodeMessage(SubSeq(buffer, 5, 4 + prefixed(buffer)))))
  ELSE [messages |-> acc, rest |-> buffer]

(* What the queue holds after these reads, and what is still pending.      *)
Queued(chunks) ==
  FoldLeft(LAMBDA state, chunk :
             LET taken == takeFrames(state.pending \o chunk, <<>>)
             IN  [queue |-> state.queue \o taken.messages, pending |-> taken.rest],
           [queue |-> <<>>, pending |-> <<>>], chunks)

==============================================================================

---------------------------- MODULE ProtocolCodec ----------------------------
(***************************************************************************)
(* ProviderProtocolCodec: frames of a big-endian length and a payload on a byte     *)
(* stream, which arrives in chunks of any size.  Bytes are the digits of a small   *)
(* base; a frame is read by its length alone, whatever its payload looks like.      *)
(* The writer is this codec's encode(), or a peer that writes what it likes.         *)
(***************************************************************************)
EXTENDS Naturals, Sequences

CONSTANTS
  Base,                 \* of a byte, 256
  MaxPayload,           \* maximumMessageBytes
  Json,                 \* external: the payloads that are a JSON object
  Written,              \* external: the payloads any peer may write
  MaxWritten            \* bound

ASSUME CodecAssumption ==
  /\ Base \in Nat \ {0, 1} /\ {MaxPayload, MaxWritten} \subseteq Nat \ {0}
  /\ Json \subseteq Written
  /\ \A p \in Written : p \in Seq(0..Base - 1) /\ Len(p) < Base * Base * Base * Base

VARIABLES
  sentPayloads,   \* payloads encoded (history)
  sentBytes,      \* bytes written and not read
  codecBuffer,    \* m_buffer
  decoded,        \* the messages returned (history)
  codecError      \* append() returned an error: the reader hangs up

codecVars == <<sentPayloads, sentBytes, codecBuffer, decoded, codecError>>

CodecInit ==
  sentPayloads = <<>> /\ sentBytes = <<>> /\ codecBuffer = <<>> /\ decoded = <<>>
  /\ codecError = FALSE

-----------------------------------------------------------------------------
(* qToBigEndian(), qFromBigEndian() of a quint32 *)
HeaderBytes == 4
Header(size) ==
  LET high == size \div Base
      higher == high \div Base
      highest == higher \div Base
  IN  <<highest % Base, higher % Base, high % Base, size % Base>>
Size(bytes) == ((bytes[1] * Base + bytes[2]) * Base + bytes[3]) * Base + bytes[4]

EncodableSize(size) == size > 0 /\ size <= MaxPayload

Put(payload) ==
  /\ Len(sentPayloads) < MaxWritten /\ ~codecError
  /\ sentPayloads' = Append(sentPayloads, payload)
  /\ sentBytes' = sentBytes \o Header(Len(payload)) \o payload
  /\ UNCHANGED <<codecBuffer, decoded, codecError>>

(* encode() writes an object, and nothing that is empty or too large. *)
Encode(payload) == payload \in Json /\ EncodableSize(Len(payload)) /\ Put(payload)

(* Another peer's writer may. *)
ForeignFrame(payload) == Put(payload)

(* append(): every frame that is complete, until one is not or is no message.  An   *)
(* error loses the buffer and, its callers hanging up, the messages before it.       *)
DecodeResult(messages, rest, error) == [messages |-> messages, rest |-> rest, error |-> error]

DecodeStep(result) ==
  LET size == Size(result.rest)
      frame == HeaderBytes + size
      payload == SubSeq(result.rest, HeaderBytes + 1, frame) IN
  IF result.error \/ Len(result.rest) < HeaderBytes THEN result
  ELSE IF ~EncodableSize(size) THEN DecodeResult(<<>>, <<>>, TRUE)
  ELSE IF Len(result.rest) < frame THEN result
  ELSE IF payload \notin Json THEN DecodeResult(<<>>, <<>>, TRUE)
  ELSE DecodeResult(Append(result.messages, payload),
                    SubSeq(result.rest, frame + 1, Len(result.rest)), FALSE)

Decode(bytes) ==
  LET after[n \in Nat] == IF n = 0 THEN DecodeResult(<<>>, bytes, FALSE)
                                   ELSE DecodeStep(after[n - 1])
  IN  after[Len(bytes)]

AppendChunk ==
  \E n \in 1..Len(sentBytes) :
    LET result == Decode(codecBuffer \o SubSeq(sentBytes, 1, n)) IN
    /\ ~codecError
    /\ sentBytes' = SubSeq(sentBytes, n + 1, Len(sentBytes))
    /\ codecBuffer' = result.rest
    /\ decoded' = decoded \o result.messages
    /\ codecError' = result.error
    /\ UNCHANGED sentPayloads

CodecNext ==
  \/ \E payload \in Written : Encode(payload) \/ ForeignFrame(payload)
  \/ AppendChunk

CodecSpec == CodecInit /\ [][CodecNext]_codecVars

-----------------------------------------------------------------------------
(* Every variable of the codec stays in its domain. *)
CodecTypeOK ==
  /\ sentPayloads \in Seq(Written) /\ decoded \in Seq(Json)
  /\ sentBytes \in Seq(0..Base - 1) /\ codecBuffer \in Seq(0..Base - 1)
  /\ codecError \in BOOLEAN

(* However the stream is cut into chunks, the messages come out as they were put in,   *)
(* none twice and in order; when all bytes have been read, all of them; and the reader   *)
(* gives up only on a frame that encode() would not have written.                   *)
DecodedAsSent ==
  /\ Len(decoded) <= Len(sentPayloads)
  /\ \A i \in DOMAIN decoded : decoded[i] = sentPayloads[i]
  /\ ~codecError /\ sentBytes = <<>> => decoded = sentPayloads /\ codecBuffer = <<>>
  /\ codecError => \E i \in DOMAIN sentPayloads : 
       sentPayloads[i] \notin Json \/ ~EncodableSize(Len(sentPayloads[i]))
=============================================================================
